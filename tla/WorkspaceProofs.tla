--------------------------- MODULE WorkspaceProofs ---------------------------
(***************************************************************************)
(* A workspace, for any number of requests, paths, contents, proposals and *)
(* calls: its versions form a tree, a version is the draft it was made of, *)
(* and a proposal changes the draft its author saw.  DraftInvariant is the *)
(* inductive invariant.  Last, the runs of a workspace: what               *)
(* WorkspaceRunProofs proves for any requests holds of both instances of   *)
(* MCWorkspace.                                                            *)
(***************************************************************************)
EXTENDS MCWorkspace, FiniteSetTheorems, WellFoundedInduction, TLAPS

-----------------------------------------------------------------------------
(* The rows, what a proposal carries, and what a request holds.            *)
Rows == [status : {"none", "live", "deleted"}, content : Contents,
         revision : Nat, primary : BOOLEAN]
Docs == [draftRevision : Nat, revision : Nat, content : Contents,
         base : Nat, current : Nat]
VersionRows == [files : Snapshots, kind : {"milestone", "recovery"},
                parent : Nat, head : BOOLEAN, pinned : BOOLEAN, live : BOOLEAN]
ProposalRows ==
  [status : {"pending", "applied"}, operation : {"update", "delete", "create"},
   path : Paths, next : Contents, preimage : [revision : Nat, content : Contents],
   draftRevision : Nat, base : Nat, seen : Snapshots, patched : SUBSET Paths]
Steps == {"idle", "check", "acquire", "read", "write", "checkAgain", "acquireAgain",
          "document", "files", "commit", "pruneRead", "prune", "count", "label",
          "number", "branch", "draft", "replace", "patchFile", "patchDocument"}
RequestRows ==
  [op : FileOps \cup VersionOps \cup OtherOps \cup {"none"}, pc : Steps,
   path : Paths, content : Contents, target : Nat,
   doc : Docs \cup [current : Nat], rows : Snapshots, primary : BOOLEAN,
   snapshot : Snapshots, base : Nat, saved : Nat,
   stale : (SUBSET Nat) \cup (SUBSET Paths)]

-----------------------------------------------------------------------------
(* Lemmas about the operators of the draft.                                *)
StoredFile == [content : Contents, primary : BOOLEAN]

LEMMA SnapshotIs ==
  ASSUME NEW D \in SUBSET Paths, NEW s \in [D -> StoredFile]
  PROVE  s \in Snapshots
BY DEF Snapshots, StoredFile

LEMMA SnapshotHas ==
  ASSUME NEW s \in Snapshots
  PROVE  DOMAIN s \in SUBSET Paths /\ s \in [DOMAIN s -> StoredFile]
<1>1. PICK D \in SUBSET Paths : s \in [D -> [content : Contents, primary : BOOLEAN]]
  BY DEF Snapshots
<1> QED
  BY <1>1 DEF StoredFile

LEMMA NoFiles == <<>> \in Snapshots
<1>1. <<>> = [p \in {} |-> p]
  OBVIOUS
<1>2. [p \in {} |-> p] \in [{} -> StoredFile]
  OBVIOUS
<1> QED
  BY <1>1, <1>2, SnapshotIs

LEMMA DraftTyped ==
  ASSUME NEW rows \in [Paths -> Rows]
  PROVE  /\ DraftOf(rows) \in Snapshots /\ DOMAIN DraftOf(rows) = LiveIn(rows)
         /\ LiveIn(rows) \in SUBSET Paths
         /\ \A p \in LiveIn(rows) : DraftOf(rows)[p] = [content |-> rows[p].content,
                                                        primary |-> rows[p].primary]
<1>1. LiveIn(rows) \in SUBSET Paths
  BY DEF LiveIn
<1>2. \A p \in LiveIn(rows) : [content |-> rows[p].content,
                               primary |-> rows[p].primary] \in StoredFile
  BY <1>1 DEF Rows, StoredFile
<1>3. DraftOf(rows) \in [LiveIn(rows) -> StoredFile]
  BY <1>2 DEF DraftOf
<1> QED
  BY <1>1, <1>3, SnapshotIs DEF DraftOf

LEMMA SomeFile ==
  ASSUME NEW s \in Snapshots, s # <<>>
  PROVE  DOMAIN s # {}
<1>1. s \in [DOMAIN s -> StoredFile]
  BY SnapshotHas
<1>2. DOMAIN s = {} => s = <<>>
  BY <1>1
<1> QED
  BY <1>2

LEMMA PrimaryIs ==
  ASSUME NEW s \in Snapshots, s # <<>>
  PROVE  PrimaryOf(s) \in DOMAIN s
<1>1. DOMAIN s # {}
  BY SomeFile
<1> DEFINE primaries == {p \in DOMAIN s : s[p].primary}
<1>2. \E p \in DOMAIN s : primaries # {} => p \in primaries
  BY <1>1
<1> QED
  BY <1>2 DEF PrimaryOf

LEMMA ContentTyped ==
  ASSUME NEW s \in Snapshots
  PROVE  ContentOf(s) \in Contents
<1>1. CASE s = <<>>
  BY <1>1, DraftAssumption DEF ContentOf
<1>2. CASE s # <<>>
  <2>1. PrimaryOf(s) \in DOMAIN s /\ s \in [DOMAIN s -> StoredFile]
    BY <1>2, PrimaryIs, SnapshotHas
  <2> QED
    BY <1>2, <2>1 DEF ContentOf, StoredFile
<1> QED
  BY <1>1, <1>2

LEMMA EnsuredTyped ==
  ASSUME files \in [Paths -> Rows], doc \in Docs
  PROVE  /\ Ensured \in [Paths -> Rows]
         /\ LiveIn(files) # {} => Ensured = files
         /\ LiveIn(Ensured) # {}
         /\ PrimaryOf(DraftOf(Ensured)) \in Paths
<1> DEFINE new == [status |-> "live", content |-> doc.content,
                   revision |-> 1, primary |-> TRUE]
<1>1. new \in Rows /\ new.status = "live" /\ DefaultPath \in Paths
  BY DraftAssumption DEF Rows, Docs
<1>2. Ensured = IF LiveIn(files) # {} THEN files
                ELSE [files EXCEPT ![DefaultPath] = new]
  BY DEF Ensured
<1> HIDE DEF new
<1>3. Ensured \in [Paths -> Rows] /\ (LiveIn(files) # {} => Ensured = files)
  BY <1>1, <1>2
<1>4. LiveIn(Ensured) # {}
  <2>1. LiveIn(files) = {} => DefaultPath \in LiveIn(Ensured)
    BY <1>1, <1>2 DEF LiveIn
  <2> QED
    BY <1>2, <2>1
<1>5. DOMAIN DraftOf(Ensured) = LiveIn(Ensured) /\ DraftOf(Ensured) \in Snapshots
      /\ LiveIn(Ensured) \in SUBSET Paths
  BY <1>3, DraftTyped
<1>6. DraftOf(Ensured) # <<>>
  BY <1>4, <1>5
<1>7. PrimaryOf(DraftOf(Ensured)) \in Paths
  BY <1>5, <1>6, PrimaryIs
<1> QED
  BY <1>3, <1>4, <1>7

LEMMA TouchTyped ==
  ASSUME NEW row \in Rows
  PROVE  /\ Touch(row) \in Rows
         /\ Touch(row).status = row.status /\ Touch(row).content = row.content
         /\ Touch(row).primary = row.primary
BY DEF Touch, Rows

LEMMA DocTyped ==
  ASSUME NEW d \in Docs, NEW c \in Contents
  PROVE  /\ DraftChanged(d) \in Docs /\ DocumentShows(d, c) \in Docs
         /\ \A e \in {DraftChanged(d), DocumentShows(d, c)} :
              /\ e.draftRevision = d.draftRevision + 1 /\ e.revision >= d.revision
              /\ e.base = d.base /\ e.current = d.current
         /\ DocumentShows(d, c).revision = d.revision + 1
<1> DEFINE changed == [d EXCEPT !.draftRevision = @ + 1]
<1> DEFINE raised == [changed EXCEPT !.revision = @ + 1]
<1> DEFINE shows == [raised EXCEPT !.content = c]
<1>1. /\ changed \in Docs /\ changed.draftRevision = d.draftRevision + 1
      /\ changed.revision = d.revision /\ changed.base = d.base
      /\ changed.current = d.current
  BY DEF Docs
<1>2. DocumentShows(d, c) = shows /\ DraftChanged(d) = changed
  BY DEF DocumentShows, DraftChanged
<1> HIDE DEF changed
<1>3. /\ raised \in Docs /\ raised.draftRevision = changed.draftRevision
      /\ raised.revision = changed.revision + 1 /\ raised.base = changed.base
      /\ raised.current = changed.current
  BY <1>1 DEF Docs
<1> HIDE DEF raised
<1>4. /\ shows \in Docs /\ shows.draftRevision = raised.draftRevision
      /\ shows.revision = raised.revision /\ shows.base = raised.base
      /\ shows.current = raised.current
  BY <1>3 DEF Docs
<1> HIDE DEF shows
<1>5. d.revision \in Nat
  BY DEF Docs
<1> QED
  BY <1>1, <1>2, <1>3, <1>4, <1>5

-----------------------------------------------------------------------------
(* The inductive invariant of the draft.                                   *)
DraftRows ==
  /\ files \in [Paths -> Rows]
  /\ doc \in Docs
  /\ lock \in [user : Users \cup {NoUser}, live : BOOLEAN]
  /\ calls \in 0 .. MaxCalls

(* The versions are numbered without a gap, and descend from older ones.   *)
VersionsSound ==
  /\ versions \in [1 .. doc.current -> VersionRows]
  /\ \A n \in Numbers : versions[n].parent < n
  /\ HeadsAreTips
  /\ BaseIsFormal

(* What may become the base of the draft.                                  *)
Formal(n) == n = 0 \/ Visible(n)

(* What a request holds across its awaits: the base it will give the draft *)
(* is formal, what it prunes are recovery points, the number it takes is   *)
(* at most one too small, and the files it read are the draft while the    *)
(* document has the revisions it read with them.                           *)
RequestSound(q) ==
  /\ q \in RequestRows
  /\ q.target <= doc.current
  /\ q.pc = "prune" => \A n \in q.stale : n \in Numbers /\ versions[n].kind = "recovery"
  /\ q.pc = "branch" => q.doc.current \in Nat /\ q.doc.current <= doc.current
  /\ q.op \in {"restore", "switch"} \/ q.pc \in {"draft", "replace"} => Formal(q.base)
  /\ q.pc \in {"files", "commit"} =>
       /\ q.doc \in Docs
       /\ q.doc.draftRevision <= doc.draftRevision
       /\ q.doc.revision <= doc.revision
  /\ q.pc = "commit" =>
       /\ q.rows # <<>>
       /\ q.doc.draftRevision = doc.draftRevision /\ q.doc.revision = doc.revision
            => q.rows = Draft \/ HalfPatched

RequestsSound ==
  /\ DOMAIN req = Requests /\ req = [r \in Requests |-> req[r]]
  /\ \A r \in Requests : RequestSound(req[r])

(* A pending proposal, and the draft while it has the proposal's revision. *)
ProposalSound(m) ==
  /\ m \in ProposalRows
  /\ m.draftRevision <= doc.draftRevision
  /\ m.operation # "create" =>
       m.path \in DOMAIN m.seen /\ m.seen[m.path].content = m.preimage.content
  /\ m.seen # <<>> /\ m.draftRevision = doc.draftRevision =>
       /\ DOMAIN Draft = DOMAIN m.seen
       /\ \A p \in DOMAIN Draft :
            \/ Draft[p] = m.seen[p]
            \/ p \in m.patched /\ Draft[p].primary = m.seen[p].primary

ProposalsSound ==
  /\ DOMAIN proposals = Proposals /\ proposals = [s \in Proposals |-> proposals[s]]
  /\ \A s \in Proposals : proposals[s].status = "pending" => ProposalSound(proposals[s])

DraftInvariant == DraftRows /\ VersionsSound /\ RequestsSound /\ ProposalsSound

-----------------------------------------------------------------------------
(* What every step does: revisions and numbers only grow, versions keep    *)
(* their kind, and a milestone is never pruned.                            *)
Onward ==
  /\ files' \in [Paths -> Rows] /\ doc' \in Docs
  /\ doc.draftRevision <= doc'.draftRevision
  /\ doc.revision <= doc'.revision
  /\ doc.current <= doc'.current
  /\ \A n \in Numbers : /\ n \in Numbers' /\ versions'[n].kind = versions[n].kind
                        /\ Visible(n) => Visible(n)'

(* What all steps do but the one that patches a file.                      *)
DraftKept ==
  \/ Draft' = Draft
  \/ Draft = <<>>
  \/ doc.draftRevision < doc'.draftRevision

LEMMA RequestStays ==
  ASSUME Onward, doc \in Docs, NEW q, RequestSound(q), DraftKept \/ HalfPatched',
         HalfPatched => HalfPatched' \/ doc.revision < doc'.revision
  PROVE  RequestSound(q)'
<1>1. q \in RequestRows /\ q.target \in Nat
  BY DEF RequestSound, RequestRows
<1>2. doc.draftRevision \in Nat /\ doc.revision \in Nat /\ doc.current \in Nat
      /\ doc'.draftRevision \in Nat /\ doc'.revision \in Nat /\ doc'.current \in Nat
  BY DEF Onward, Docs
<1>3. q.target <= doc'.current
  BY <1>1, <1>2 DEF RequestSound, Onward
<1>4. q.pc = "prune" => \A n \in q.stale : n \in Numbers' /\ versions'[n].kind = "recovery"
  BY DEF RequestSound, Onward
<1>5. q.pc = "branch" => q.doc.current \in Nat /\ q.doc.current <= doc'.current
  BY <1>2 DEF RequestSound, Onward
<1>6. ASSUME Formal(q.base)
      PROVE  Formal(q.base)'
  <2>1. Visible(q.base) => q.base \in Numbers
    BY DEF Visible, LiveVersion
  <2> QED
    BY <1>6, <2>1 DEF Formal, Onward
<1>7. q.pc \in {"files", "commit"} =>
        /\ q.doc \in Docs /\ q.doc.draftRevision \in Nat /\ q.doc.revision \in Nat
        /\ q.doc.draftRevision <= doc.draftRevision /\ q.doc.revision <= doc.revision
  BY DEF RequestSound, Docs
<1>8. q.pc \in {"files", "commit"} =>
        q.doc.draftRevision <= doc'.draftRevision /\ q.doc.revision <= doc'.revision
  BY <1>2, <1>7 DEF Onward
<1>9. ASSUME q.pc = "commit", q.doc.draftRevision = doc'.draftRevision,
             q.doc.revision = doc'.revision
      PROVE  q.rows = Draft' \/ HalfPatched'
  <2>1. q.doc.draftRevision = doc.draftRevision /\ q.doc.revision = doc.revision
    BY <1>2, <1>7, <1>9 DEF Onward
  <2>2. q.rows # <<>> /\ (q.rows = Draft \/ HalfPatched)
    BY <1>9, <2>1 DEF RequestSound
  <2>3. ~(doc.draftRevision < doc'.draftRevision) /\ ~(doc.revision < doc'.revision)
    BY <1>2, <1>9, <2>1
  <2> QED
    BY <2>2, <2>3 DEF DraftKept
<1>10. q.pc = "commit" => q.rows # <<>>
  BY DEF RequestSound
<1> QED
  BY <1>1, <1>3, <1>4, <1>5, <1>6, <1>7, <1>8, <1>9, <1>10 DEF RequestSound

LEMMA RequestStep ==
  ASSUME RequestsSound, Onward, doc \in Docs, NEW r \in Requests, NEW new,
         req' = [req EXCEPT ![r] = new], RequestSound(new)',
         DraftKept \/ new.pc = "patchDocument",
         req[r].pc # "patchDocument" \/ doc.revision < doc'.revision
  PROVE  RequestsSound'
<1>1. DOMAIN req' = Requests /\ req' = [p \in Requests |-> req'[p]] /\ req'[r] = new
      /\ \A p \in Requests \ {r} : req'[p] = req[p]
  BY DEF RequestsSound
<1>2. new.pc = "patchDocument" => HalfPatched'
  BY <1>1 DEF HalfPatched, At
<1>3. HalfPatched => HalfPatched' \/ doc.revision < doc'.revision
  BY <1>1 DEF HalfPatched, At
<1>4. ASSUME NEW p \in Requests
      PROVE  RequestSound(req[p])'
  <2>1. PICK q : q = req'[p]
    OBVIOUS
  <2>2. RequestSound(q)'
    <3>1. CASE p = r
      BY <1>1, <2>1, <3>1
    <3>2. CASE p # r
      <4>1. q = req[p]
        BY <1>1, <2>1, <3>2
      <4>2. RequestSound(q)
        BY <4>1 DEF RequestsSound
      <4> QED
        BY <1>2, <1>3, <4>2, RequestStays
    <3> QED
      BY <3>1, <3>2
  <2> QED
    BY <2>1, <2>2 DEF RequestSound
<1> QED
  BY <1>1, <1>4 DEF RequestsSound

LEMMA RequestsStay ==
  ASSUME RequestsSound, Onward, doc \in Docs, DraftKept, req' = req
  PROVE  RequestsSound'
<1>1. HalfPatched' <=> HalfPatched
  BY DEF HalfPatched, At
<1>2. ASSUME NEW p \in Requests
      PROVE  RequestSound(req[p])'
  <2>1. PICK q : q = req[p]
    OBVIOUS
  <2>2. RequestSound(q)
    BY <2>1 DEF RequestsSound
  <2>3. RequestSound(q)'
    BY <1>1, <2>2, RequestStays
  <2> QED
    BY <2>1, <2>3 DEF RequestSound
<1> QED
  BY <1>2 DEF RequestsSound

LEMMA RequestDone ==
  ASSUME RequestsSound, Onward, doc \in Docs, NEW r \in Requests, Done(r), DraftKept,
         req[r].pc # "patchDocument" \/ doc.revision < doc'.revision
  PROVE  RequestsSound'
<1>1. PICK new : new = Idle
  OBVIOUS
<1>2. /\ new \in RequestRows /\ new.pc = "idle" /\ new.op = "none" /\ new.target = 0
  BY <1>1, NoFiles, DraftAssumption DEF Idle, RequestRows, Steps
<1>3. doc'.current \in Nat
  BY DEF Onward, Docs
<1>4. RequestSound(new)'
  BY <1>2, <1>3 DEF RequestSound
<1> QED
  BY <1>1, <1>4, RequestStep DEF Done

LEMMA RequestGoes ==
  ASSUME RequestsSound, Onward, doc \in Docs, NEW r \in Requests, NEW pc \in Steps,
         Goto(r, pc), DraftKept \/ pc = "patchDocument",
         pc \notin {"prune", "branch", "draft", "replace", "files", "commit"},
         req[r].pc # "patchDocument" \/ doc.revision < doc'.revision
  PROVE  RequestsSound'
<1>1. PICK new : new = [req[r] EXCEPT !.pc = pc]
  OBVIOUS
<1>2. req[r] \in RequestRows /\ RequestSound(req[r])
  BY DEF RequestsSound, RequestSound
<1>3. /\ new \in RequestRows /\ new.pc = pc /\ new.op = req[r].op
      /\ new.target = req[r].target /\ new.base = req[r].base
  BY <1>1, <1>2 DEF RequestRows
<1>4. /\ new.target \in Nat /\ doc.current \in Nat /\ doc'.current \in Nat
      /\ new.target <= doc.current
  BY <1>2, <1>3 DEF RequestRows, RequestSound, Docs, Onward
<1>5. new.target <= doc'.current
  BY <1>4 DEF Onward
<1>6. new.op \in {"restore", "switch"} => Formal(new.base)'
  <2>1. new.op \in {"restore", "switch"} => Formal(new.base)
    BY <1>2, <1>3 DEF RequestSound
  <2>2. Visible(new.base) => new.base \in Numbers
    BY DEF Visible, LiveVersion
  <2> QED
    BY <2>1, <2>2 DEF Formal, Onward
<1>7. RequestSound(new)'
  BY <1>3, <1>5, <1>6 DEF RequestSound
<1>8. req' = [req EXCEPT ![r] = new]
  BY <1>1 DEF Goto, RequestsSound
<1> QED
  BY <1>3, <1>7, <1>8, RequestStep

(* A step that leaves versions alone, and the base and number of the doc.  *)
LEMMA VersionsStay ==
  ASSUME VersionsSound, versions' = versions, doc'.base = doc.base,
         doc'.current = doc.current
  PROVE  VersionsSound'
<1>1. Numbers' = Numbers /\ \A n : LiveVersion(n)' <=> LiveVersion(n)
  BY DEF Numbers, LiveVersion
<1> QED
  BY <1>1 DEF VersionsSound, HeadsAreTips, BaseIsFormal, Visible

LEMMA VersionsStayOnward ==
  ASSUME files' \in [Paths -> Rows], doc' \in Docs, versions' = versions,
         doc.draftRevision <= doc'.draftRevision, doc.revision <= doc'.revision,
         doc.current <= doc'.current
  PROVE  Onward
BY DEF Onward, Numbers, Visible, LiveVersion

LEMMA PendingStays ==
  ASSUME Onward, doc \in Docs, DraftKept, NEW m, ProposalSound(m)
  PROVE  ProposalSound(m)'
<1>1. m \in ProposalRows /\ m.draftRevision \in Nat
  BY DEF ProposalSound, ProposalRows
<1>2. doc.draftRevision \in Nat /\ doc'.draftRevision \in Nat
      /\ m.draftRevision <= doc.draftRevision /\ doc.draftRevision <= doc'.draftRevision
  BY DEF ProposalSound, Onward, Docs
<1>3. m.draftRevision <= doc'.draftRevision
  BY <1>1, <1>2
<1>4. ASSUME m.seen # <<>>, m.draftRevision = doc'.draftRevision
      PROVE  Draft' = Draft /\ m.draftRevision = doc.draftRevision
  <2>1. m.draftRevision = doc.draftRevision /\ ~(doc.draftRevision < doc'.draftRevision)
    BY <1>1, <1>2, <1>4
  <2>2. DOMAIN Draft = DOMAIN m.seen
    BY <1>4, <2>1 DEF ProposalSound
  <2>3. m.seen \in Snapshots
    BY <1>1 DEF ProposalRows
  <2>4. DOMAIN m.seen # {}
    BY <1>4, <2>3, SomeFile
  <2>5. Draft # <<>>
    BY <2>2, <2>4
  <2> QED
    BY <2>1, <2>5 DEF DraftKept
<1> QED
  BY <1>1, <1>3, <1>4 DEF ProposalSound

LEMMA ProposalsStay ==
  ASSUME ProposalsSound, Onward, doc \in Docs, DraftKept,
         DOMAIN proposals' = Proposals,
         proposals' = [s \in Proposals |-> proposals'[s]],
         \A s \in Proposals : proposals'[s].status = "pending" =>
                               proposals'[s] = proposals[s]
  PROVE  ProposalsSound'
<1>1. ASSUME NEW s \in Proposals, proposals'[s].status = "pending"
      PROVE  ProposalSound(proposals[s])'
  <2>1. PICK m : m = proposals'[s]
    OBVIOUS
  <2>2. ProposalSound(m)
    BY <1>1, <2>1 DEF ProposalsSound
  <2>3. ProposalSound(m)'
    BY <2>2, PendingStays
  <2> QED
    BY <2>1, <2>3 DEF ProposalSound
<1> QED
  BY <1>1 DEF ProposalsSound

LEMMA QuietRows ==
  ASSUME DraftInvariant, UNCHANGED <<files, doc, versions>>
  PROVE  Onward /\ DraftKept /\ VersionsSound' /\ doc \in Docs
         /\ (proposals' = proposals => ProposalsSound')
<1>1. doc \in Docs /\ files \in [Paths -> Rows]
  BY DEF DraftInvariant, DraftRows
<1>2. Onward
  BY <1>1, VersionsStayOnward DEF Docs
<1>3. DraftKept
  BY DEF DraftKept, Draft
<1> QED
  BY <1>1, <1>2, <1>3, VersionsStay, ProposalsStay DEF DraftInvariant, ProposalsSound

-----------------------------------------------------------------------------
(* The steps of a request that only read, and those on the lock.           *)
LEMMA StartStep ==
  ASSUME DraftInvariant, NEW r \in Requests, Start(r)
  PROVE  DraftInvariant'
<1>1. PICK op \in Ops, p \in Paths, c \in Contents, n \in Numbers \cup {0} :
        Call(r, op, p, c, n)
  BY DraftAssumption DEF Start
<1>2. UNCHANGED <<files, doc, versions, lock, proposals>> /\ calls' = calls + 1
      /\ calls < MaxCalls
  BY <1>1 DEF Call
<1>3. Onward /\ DraftKept /\ VersionsSound' /\ ProposalsSound' /\ doc \in Docs
  BY <1>2, QuietRows
<1>4. Numbers = 1 .. doc.current /\ doc.current \in Nat
  BY DEF DraftInvariant, DraftRows, VersionsSound, Numbers, Docs
<1>5. n \in Nat /\ n <= doc.current
  BY <1>4
<1>6. PICK new : new = [Idle EXCEPT !.op = op, !.pc = "check", !.path = p,
                                    !.content = c, !.target = n]
  OBVIOUS
<1>7. Idle \in RequestRows
  BY NoFiles, DraftAssumption DEF Idle, RequestRows, Steps
<1>8. op \in FileOps \cup VersionOps \cup OtherOps
  BY DraftAssumption
<1>9. new \in RequestRows /\ new.pc = "check" /\ new.target = n /\ new.base = 0
  BY <1>5, <1>6, <1>7, <1>8 DEF RequestRows, Steps, Idle
<1>10. RequestSound(new)'
  BY <1>2, <1>5, <1>9 DEF RequestSound, Formal
<1>11. req' = [req EXCEPT ![r] = new] /\ req[r].pc = "idle"
  BY <1>1, <1>6 DEF Call, At
<1>12. RequestsSound'
  BY <1>3, <1>10, <1>11, RequestStep DEF DraftInvariant
<1>13. DraftRows'
  BY <1>2, DraftAssumption DEF DraftInvariant, DraftRows
<1> QED
  BY <1>3, <1>12, <1>13 DEF DraftInvariant

LEMMA LockStep ==
  ASSUME DraftInvariant, NEW r \in Requests, Check(r) \/ Acquire(r)
  PROVE  DraftInvariant'
<1>1. UNCHANGED <<files, doc, versions, proposals, calls>>
  BY DEF Check, Acquire
<1>2. Onward /\ DraftKept /\ VersionsSound' /\ ProposalsSound' /\ doc \in Docs
  BY <1>1, QuietRows
<1>3. req[r].pc \in {"check", "checkAgain", "acquire", "acquireAgain"}
  BY DEF Check, Acquire, At
<1>4. Done(r) \/ \E pc \in {"read", "document", "acquire", "acquireAgain"} : Goto(r, pc)
  <2>1. CASE Check(r)
    BY <2>1 DEF Check
  <2>2. CASE Acquire(r)
    BY <2>2 DEF Acquire
  <2> QED
    BY <2>1, <2>2
<1>5. RequestsSound'
  BY <1>2, <1>3, <1>4, RequestDone, RequestGoes DEF DraftInvariant, Steps
<1>6. lock' \in [user : Users \cup {NoUser}, live : BOOLEAN]
  <2>1. CASE Check(r)
    BY <2>1 DEF Check, DraftInvariant, DraftRows
  <2>2. CASE Acquire(r)
    <3>1. UserOf[r] \in Users
      BY DEF Users
    <3> QED
      BY <2>2, <3>1 DEF Acquire
  <2> QED
    BY <2>1, <2>2
<1>7. DraftRows'
  BY <1>1, <1>6 DEF DraftInvariant, DraftRows
<1> QED
  BY <1>2, <1>5, <1>7 DEF DraftInvariant

LEMMA LockExpiresStep ==
  ASSUME DraftInvariant, LockExpires
  PROVE  DraftInvariant'
<1>1. UNCHANGED <<files, doc, versions, proposals, req, calls>>
  BY DEF LockExpires
<1>2. lock' \in [user : Users \cup {NoUser}, live : BOOLEAN]
  BY DEF LockExpires, DraftInvariant, DraftRows
<1>3. Onward /\ DraftKept /\ VersionsSound' /\ ProposalsSound' /\ doc \in Docs
  BY <1>1, QuietRows
<1>4. RequestsSound'
  BY <1>1, <1>3, RequestsStay DEF DraftInvariant
<1> QED
  BY <1>1, <1>2, <1>3, <1>4 DEF DraftInvariant, DraftRows

-----------------------------------------------------------------------------
(* The recursion of DraftBaseOf ends, as parents are older.                *)
LEMMA LeastNumber ==
  ASSUME NEW T \in SUBSET Nat, T # {}
  PROVE  \E x \in T : \A y \in T : x <= y
<1> DEFINE R == {m \in Nat \X Nat : m[1] < m[2]}
<1>1. IsWellFoundedOn(R, Nat)
  BY NatLessThanWellFounded DEF OpToRel
<1>2. \A x, y \in Nat : y < x => <<y, x>> \in R
  OBVIOUS
<1> HIDE DEF R
<1>3. PICK x \in T : \A y \in T : ~(<<y, x>> \in R)
  BY <1>1, WFMin
<1>4. x \in Nat /\ \A y \in T : y \in Nat /\ ~(y < x)
  BY <1>2, <1>3
<1> QED
  BY <1>3, <1>4

BaseStep(f, n) == IF n = 0 \/ ~LiveVersion(n) THEN 0
                  ELSE IF versions[n].kind = "milestone" THEN n
                  ELSE f[versions[n].parent]
IsBaseOn(f, D) == f = [n \in D |-> BaseStep(f, n)]

LEMMA BasesUpTo ==
  ASSUME VersionsSound, doc \in Docs, NEW k \in 0 .. doc.current
  PROVE  \E f : IsBaseOn(f, 0 .. k)
<1>1. doc.current \in Nat /\ Numbers = 1 .. doc.current
  BY DEF VersionsSound, Numbers, Docs
<1>2. \A n \in Numbers : versions[n].parent \in Nat /\ versions[n].parent < n
  BY <1>1 DEF VersionsSound, VersionRows
<1> DEFINE Missing == {j \in 0 .. doc.current : ~\E f : IsBaseOn(f, 0 .. j)}
<1>3. SUFFICES ASSUME Missing # {}
               PROVE  FALSE
  OBVIOUS
<1>4. PICK j \in Missing : \A i \in Missing : j <= i
  <2>1. Missing \in SUBSET Nat
    BY <1>1
  <2> HIDE DEF Missing
  <2> QED
    BY <1>3, <2>1, LeastNumber
<1>5. j \in 0 .. doc.current /\ ~\E f : IsBaseOn(f, 0 .. j)
  BY <1>4
<1>6. j # 0
  <2> DEFINE g == [n \in 0 .. 0 |-> 0]
  <2>1. \A n \in 0 .. 0 : n = 0
    OBVIOUS
  <2>2. IsBaseOn(g, 0 .. 0)
    BY <2>1 DEF IsBaseOn, BaseStep
  <2> QED
    BY <1>5, <2>2
<1>7. j - 1 \in 0 .. doc.current /\ ~(j <= j - 1)
  BY <1>1, <1>5, <1>6
<1>8. PICK f : IsBaseOn(f, 0 .. (j - 1))
  BY <1>4, <1>7
<1> DEFINE g == [n \in 0 .. j |-> BaseStep(f, n)]
<1>9. \A n \in 0 .. (j - 1) : f[n] = BaseStep(f, n)
  <2>1. f = [n \in 0 .. (j - 1) |-> BaseStep(f, n)]
    BY <1>8 DEF IsBaseOn
  <2> HIDE DEF BaseStep
  <2> QED
    BY <2>1
<1>10. ASSUME NEW n \in 0 .. j
       PROVE  BaseStep(g, n) = BaseStep(f, n)
  <2>1. ASSUME LiveVersion(n), n # 0
        PROVE  g[versions[n].parent] = f[versions[n].parent]
    <3>1. n \in Numbers
      BY <2>1 DEF LiveVersion
    <3>2. versions[n].parent \in 0 .. (j - 1) /\ versions[n].parent \in 0 .. j
      BY <1>2, <1>5, <1>1, <3>1
    <3>3. g[versions[n].parent] = BaseStep(f, versions[n].parent)
      BY <3>2
    <3> QED
      BY <1>9, <3>2, <3>3
  <2> HIDE DEF g
  <2> QED
    BY <2>1 DEF BaseStep
<1>11. IsBaseOn(g, 0 .. j)
  BY <1>10 DEF IsBaseOn
<1> QED
  BY <1>5, <1>11

LEMMA BaseIs ==
  ASSUME VersionsSound, doc \in Docs, NEW n \in Numbers
  PROVE  DraftBaseOf[n] \in Nat /\ Formal(DraftBaseOf[n])
<1>1. doc.current \in Nat /\ Numbers = 1 .. doc.current
  BY DEF VersionsSound, Numbers, Docs
<1>2. Numbers \cup {0} = 0 .. doc.current
  BY <1>1
<1>3. \A m \in Numbers : versions[m].parent \in Nat /\ versions[m].parent < m
  BY <1>1 DEF VersionsSound, VersionRows
<1>4. \E f : IsBaseOn(f, Numbers \cup {0})
  <2>1. doc.current \in 0 .. doc.current
    BY <1>1
  <2>2. \E f : IsBaseOn(f, 0 .. doc.current)
    BY <2>1, BasesUpTo
  <2> QED
    BY <1>2, <2>2
<1>5. DraftBaseOf = CHOOSE f : IsBaseOn(f, Numbers \cup {0})
  BY Zenon DEF DraftBaseOf, IsBaseOn, BaseStep
<1>6. IsBaseOn(DraftBaseOf, Numbers \cup {0})
  BY <1>4, <1>5
<1> DEFINE base == DraftBaseOf
<1> HIDE DEF base
<1>7. \A m \in 0 .. doc.current : base[m] = BaseStep(base, m)
  <2>1. base = [m \in 0 .. doc.current |-> BaseStep(base, m)]
    BY <1>2, <1>6 DEF IsBaseOn, base
  <2> QED
    BY <2>1
<1> DEFINE Bad == {m \in 0 .. doc.current : ~(base[m] \in Nat /\ Formal(base[m]))}
<1>8. ASSUME Bad # {}
      PROVE  FALSE
  <2>1. PICK m \in Bad : \A i \in Bad : m <= i
    <3>1. Bad \in SUBSET Nat
      BY <1>1
    <3> HIDE DEF Bad
    <3> QED
      BY <1>8, <3>1, LeastNumber
  <2>2. m \in 0 .. doc.current /\ base[m] = BaseStep(base, m)
        /\ ~(base[m] \in Nat /\ Formal(base[m]))
    BY <1>7, <2>1
  <2>3. m # 0 /\ LiveVersion(m) /\ versions[m].kind # "milestone"
    BY <1>1, <2>2 DEF BaseStep, Formal, Visible
  <2>4. m \in Numbers /\ base[m] = base[versions[m].parent]
    BY <2>2, <2>3 DEF BaseStep, LiveVersion
  <2>5. versions[m].parent \in 0 .. doc.current /\ ~(m <= versions[m].parent)
    BY <1>1, <1>3, <2>4
  <2> QED
    BY <2>1, <2>2, <2>4, <2>5
<1>9. n \in 0 .. doc.current
  BY <1>1
<1> QED
  BY <1>8, <1>9 DEF base

LEMMA ReadVersionStep ==
  ASSUME DraftInvariant, NEW r \in Requests, ReadVersion(r)
  PROVE  DraftInvariant'
<1>1. UNCHANGED <<files, doc, versions, lock, proposals, calls>> /\ req[r].pc = "read"
  BY DEF ReadVersion, At
<1>2. Onward /\ DraftKept /\ VersionsSound' /\ ProposalsSound' /\ doc \in Docs
  BY <1>1, QuietRows
<1>3. req[r] \in RequestRows /\ RequestSound(req[r])
  BY DEF DraftInvariant, RequestsSound, RequestSound
<1>4. RequestsSound'
  <2>1. CASE Done(r)
    BY <1>1, <1>2, <2>1, RequestDone DEF DraftInvariant
  <2>2. CASE ~Done(r)
    <3> DEFINE n == req[r].target
               op == req[r].op
    <3>1. n \in Numbers /\ op \in VersionOps /\ LiveVersion(n)
          /\ (op = "switch" => versions[n].head)
      BY <2>2 DEF ReadVersion, LiveVersion
    <3>2. PICK pc \in {"count", "label", "checkAgain"},
               base \in {IF op = "restore" THEN DraftBaseOf[n] ELSE n} :
            req' = [req EXCEPT ![r].pc = pc, ![r].primary = versions[n].pinned,
                               ![r].snapshot = versions[n].files, ![r].base = base]
      <4> DEFINE goes == CASE op = "pin" /\ ~versions[n].pinned -> "count"
                           [] op \in {"pin", "unpin"} -> "label"
                           [] OTHER -> "checkAgain"
                 from == IF op = "restore" THEN DraftBaseOf[n] ELSE n
      <4>1. goes \in {"count", "label", "checkAgain"}
        OBVIOUS
      <4>2. req' = [req EXCEPT ![r].pc = goes, ![r].primary = versions[n].pinned,
                               ![r].snapshot = versions[n].files, ![r].base = from]
        BY <2>2, Zenon DEF ReadVersion
      <4> HIDE DEF goes
      <4> QED
        BY <4>1, <4>2
    <3>3. versions[n] \in VersionRows /\ n \in Nat
      BY <1>3, <3>1 DEF DraftInvariant, VersionsSound, RequestRows, Numbers
    <3>4. op = "switch" => versions[n].kind = "milestone"
      BY <3>1 DEF DraftInvariant, VersionsSound, HeadsAreTips
    <3>5. DraftBaseOf[n] \in Nat /\ Formal(DraftBaseOf[n])
      BY <1>2, <3>1, BaseIs DEF DraftInvariant
    <3>6. base \in Nat /\ (op \in {"restore", "switch"} => Formal(base))
      BY <3>1, <3>2, <3>3, <3>4, <3>5 DEF Formal, Visible
    <3>7. PICK new : new = [req[r] EXCEPT !.pc = pc, !.primary = versions[n].pinned,
                                          !.snapshot = versions[n].files, !.base = base]
      OBVIOUS
    <3>8. /\ new \in RequestRows /\ new.pc = pc /\ new.op = op /\ new.base = base
          /\ new.target = n
      <4>1. versions[n].pinned \in BOOLEAN /\ versions[n].files \in Snapshots
        BY <3>3 DEF VersionRows
      <4>2. pc \in Steps
        BY DEF Steps
      <4> QED
        BY <1>3, <3>6, <3>7, <4>1, <4>2 DEF RequestRows
    <3>9. n <= doc.current
      BY <1>3 DEF RequestSound
    <3>10. Formal(base)' <=> Formal(base)
      BY <1>1 DEF Formal, Visible, LiveVersion, Numbers
    <3>11. RequestSound(new)'
      BY <1>1, <3>6, <3>8, <3>9, <3>10 DEF RequestSound
    <3>12. req' = [req EXCEPT ![r] = new]
      BY <3>2, <3>7 DEF DraftInvariant, RequestsSound
    <3> QED
      BY <1>1, <1>2, <3>11, <3>12, RequestStep DEF DraftInvariant
  <2> QED
    BY <2>1, <2>2
<1> QED
  BY <1>1, <1>2, <1>4 DEF DraftInvariant, DraftRows

LEMMA ReadDocumentStep ==
  ASSUME DraftInvariant, NEW r \in Requests, ReadDocument(r) \/ ReadNumber(r)
  PROVE  DraftInvariant'
<1>1. UNCHANGED <<files, doc, versions, lock, proposals, calls>>
      /\ req[r].pc \in {"document", "number"}
  BY DEF ReadDocument, ReadNumber, At
<1>2. Onward /\ DraftKept /\ VersionsSound' /\ ProposalsSound' /\ doc \in Docs
  BY <1>1, QuietRows
<1>3. req[r] \in RequestRows /\ RequestSound(req[r])
  BY DEF DraftInvariant, RequestsSound, RequestSound
<1>4. PICK pc \in {"files", "branch"}, read \in Docs \cup [current : Nat] :
        /\ req' = [req EXCEPT ![r].pc = pc, ![r].doc = read]
        /\ pc = "files" => read = doc
        /\ pc = "branch" => read.current = doc.current
  <2>1. CASE ReadDocument(r)
    BY <1>2, <2>1 DEF ReadDocument
  <2>2. CASE ReadNumber(r)
    <3>1. [current |-> doc.current] \in [current : Nat]
      BY <1>2 DEF Docs
    <3>2. PICK read : read = [current |-> doc.current]
      OBVIOUS
    <3>3. req' = [req EXCEPT ![r].pc = "branch", ![r].doc = read]
          /\ read.current = doc.current /\ read \in Docs \cup [current : Nat]
      BY <2>2, <3>1, <3>2 DEF ReadNumber
    <3> QED
      BY <3>3
  <2> QED
    BY <2>1, <2>2
<1>5. PICK new : new = [req[r] EXCEPT !.pc = pc, !.doc = read]
  OBVIOUS
<1>6. /\ new \in RequestRows /\ new.pc = pc /\ new.op = req[r].op /\ new.doc = read
      /\ new.base = req[r].base /\ new.target = req[r].target
  <2>1. pc \in Steps
    BY DEF Steps
  <2> QED
    BY <1>3, <1>5, <2>1 DEF RequestRows
<1>7. /\ doc.current \in Nat /\ doc.draftRevision \in Nat /\ doc.revision \in Nat
  BY <1>2 DEF Docs
<1>8. Formal(new.base)' <=> Formal(new.base)
  BY <1>1 DEF Formal, Visible, LiveVersion, Numbers
<1>9. new.op \in {"restore", "switch"} => Formal(new.base)
  BY <1>3, <1>6 DEF RequestSound
<1>10. RequestSound(new)'
  BY <1>1, <1>2, <1>3, <1>4, <1>6, <1>7, <1>8, <1>9 DEF RequestSound
<1>11. req' = [req EXCEPT ![r] = new]
  BY <1>4, <1>5 DEF DraftInvariant, RequestsSound
<1>12. RequestsSound'
  BY <1>1, <1>2, <1>10, <1>11, RequestStep DEF DraftInvariant
<1> QED
  BY <1>1, <1>2, <1>12 DEF DraftInvariant, DraftRows

(* A request that is through with pruning goes on to replace the draft or  *)
(* to branch, or is over.                                                  *)
LEMMA LeaveGoes ==
  ASSUME RequestsSound, Onward, doc \in Docs, DraftKept, NEW r \in Requests,
         Leave(r, AfterPrune(r)), req[r].pc # "patchDocument"
  PROVE  RequestsSound'
<1>1. CASE AfterPrune(r) = "idle"
  <2>1. Done(r)
    BY <1>1 DEF Leave
  <2> QED
    BY <2>1, RequestDone
<1>2. CASE AfterPrune(r) # "idle"
  <2>1. PICK pc \in {"draft", "number"} :
          /\ pc = "draft" => req[r].op \in {"restore", "switch"}
          /\ req' = [req EXCEPT ![r].pc = pc, ![r].stale = {}]
    BY <1>2 DEF Leave, AfterPrune
  <2>2. req[r] \in RequestRows /\ RequestSound(req[r])
    BY DEF RequestsSound, RequestSound
  <2>3. PICK new : new = [req[r] EXCEPT !.pc = pc, !.stale = {}]
    OBVIOUS
  <2>4. /\ new \in RequestRows /\ new.pc = pc /\ new.op = req[r].op
        /\ new.base = req[r].base /\ new.target = req[r].target
    <3>1. pc \in Steps
      BY DEF Steps
    <3> QED
      BY <2>2, <2>3, <3>1 DEF RequestRows
  <2>5. /\ new.target \in Nat /\ new.target <= doc.current
        /\ doc.current \in Nat /\ doc'.current \in Nat
    BY <2>2, <2>4 DEF RequestRows, RequestSound, Docs, Onward
  <2>6. new.target <= doc'.current
    BY <2>5 DEF Onward
  <2>7. new.op \in {"restore", "switch"} => Formal(new.base)'
    <3>1. new.op \in {"restore", "switch"} => Formal(new.base)
      BY <2>2, <2>4 DEF RequestSound
    <3>2. Visible(new.base) => new.base \in Numbers
      BY DEF Visible, LiveVersion
    <3> QED
      BY <3>1, <3>2 DEF Formal, Onward
  <2>8. RequestSound(new)'
    BY <2>1, <2>4, <2>6, <2>7 DEF RequestSound
  <2>9. req' = [req EXCEPT ![r] = new]
    BY <2>1, <2>3 DEF RequestsSound
  <2> QED
    BY <2>8, <2>9, RequestStep
<1> QED
  BY <1>1, <1>2

LEMMA PruneReadStep ==
  ASSUME DraftInvariant, NEW r \in Requests, PruneRead(r)
  PROVE  DraftInvariant'
<1>1. UNCHANGED <<files, doc, versions, lock, proposals, calls>>
      /\ req[r].pc = "pruneRead"
  BY DEF PruneRead, At
<1>2. Onward /\ DraftKept /\ VersionsSound' /\ ProposalsSound' /\ doc \in Docs
  BY <1>1, QuietRows
<1>3. req[r] \in RequestRows /\ RequestSound(req[r])
  BY DEF DraftInvariant, RequestsSound, RequestSound
<1>4. RequestsSound'
  <2>1. CASE Leave(r, AfterPrune(r))
    BY <1>1, <1>2, <2>1, LeaveGoes DEF DraftInvariant
  <2>2. CASE ~Leave(r, AfterPrune(r))
    <3>1. PICK stale \in SUBSET Recoveries :
            req' = [req EXCEPT ![r].pc = "prune", ![r].stale = stale]
      BY <2>2 DEF PruneRead
    <3>2. Numbers \in SUBSET Nat /\ \A n \in stale : n \in Numbers
                                       /\ versions[n].kind = "recovery"
      BY DEF Recoveries, DraftInvariant, VersionsSound, Numbers
    <3>3. PICK new : new = [req[r] EXCEPT !.pc = "prune", !.stale = stale]
      OBVIOUS
    <3>4. stale \in (SUBSET Nat) \cup (SUBSET Paths)
      BY <3>2
    <3>5. /\ new \in RequestRows /\ new.pc = "prune" /\ new.op = req[r].op
          /\ new.base = req[r].base /\ new.target = req[r].target /\ new.stale = stale
      BY <1>3, <3>3, <3>4 DEF RequestRows, Steps
    <3>6. Formal(new.base)' <=> Formal(new.base)
      BY <1>1 DEF Formal, Visible, LiveVersion, Numbers
    <3>7. new.op \in {"restore", "switch"} => Formal(new.base)
      BY <1>3, <3>5 DEF RequestSound
    <3>8. Numbers' = Numbers
      BY <1>1 DEF Numbers
    <3>9. RequestSound(new)'
      BY <1>1, <1>3, <3>2, <3>5, <3>6, <3>7, <3>8 DEF RequestSound
    <3>10. req' = [req EXCEPT ![r] = new]
      BY <3>1, <3>3 DEF DraftInvariant, RequestsSound
    <3> QED
      BY <1>1, <1>2, <3>9, <3>10, RequestStep DEF DraftInvariant
  <2> QED
    BY <2>1, <2>2
<1> QED
  BY <1>1, <1>2, <1>4 DEF DraftInvariant, DraftRows

LEMMA CountPinnedStep ==
  ASSUME DraftInvariant, NEW r \in Requests, CountPinned(r)
  PROVE  DraftInvariant'
<1>1. UNCHANGED <<files, doc, versions, lock, proposals, calls>> /\ req[r].pc = "count"
      /\ (Done(r) \/ Goto(r, "label"))
  BY DEF CountPinned, At
<1>2. Onward /\ DraftKept /\ VersionsSound' /\ ProposalsSound' /\ doc \in Docs
  BY <1>1, QuietRows
<1>3. RequestsSound'
  BY <1>1, <1>2, RequestDone, RequestGoes DEF DraftInvariant, Steps
<1> QED
  BY <1>1, <1>2, <1>3 DEF DraftInvariant, DraftRows

-----------------------------------------------------------------------------
(* The steps that write files of the draft.                                *)
LEMMA NoDraft ==
  ASSUME files \in [Paths -> Rows], LiveIn(files) = {}
  PROVE  Draft = <<>>
<1>1. Draft \in Snapshots /\ DOMAIN Draft = {}
  BY DraftTyped DEF Draft
<1> QED
  BY <1>1, SomeFile

LEMMA EnsureRows ==
  ASSUME DraftInvariant, files' \in {files, Ensured}, UNCHANGED <<doc, versions>>
  PROVE  /\ Onward /\ DraftKept /\ VersionsSound' /\ doc \in Docs
         /\ files' \in [Paths -> Rows]
         /\ proposals' = proposals => ProposalsSound'
<1>1. doc \in Docs /\ files \in [Paths -> Rows]
  BY DEF DraftInvariant, DraftRows
<1>2. files' \in [Paths -> Rows] /\ (LiveIn(files) # {} => files' = files)
  BY <1>1, EnsuredTyped
<1>3. Onward
  BY <1>1, <1>2, VersionsStayOnward DEF Docs
<1>4. DraftKept
  BY <1>1, <1>2, NoDraft DEF DraftKept, Draft
<1> QED
  BY <1>1, <1>2, <1>3, <1>4, VersionsStay, ProposalsStay DEF DraftInvariant, ProposalsSound

LEMMA ReadFileStep ==
  ASSUME DraftInvariant, NEW r \in Requests, ReadFile(r)
  PROVE  DraftInvariant'
<1>1. UNCHANGED <<doc, versions, lock, proposals, calls>> /\ req[r].pc = "read"
      /\ files' \in {files, Ensured}
  BY DEF ReadFile, At
<1>2. Onward /\ DraftKept /\ VersionsSound' /\ ProposalsSound' /\ doc \in Docs
      /\ files' \in [Paths -> Rows]
  BY <1>1, EnsureRows
<1>3. req[r] \in RequestRows /\ RequestSound(req[r])
  BY DEF DraftInvariant, RequestsSound, RequestSound
<1>4. RequestsSound'
  <2>1. CASE Done(r) \/ Goto(r, "write")
    BY <1>1, <1>2, <2>1, RequestDone, RequestGoes DEF DraftInvariant, Steps
  <2>2. CASE ~(Done(r) \/ Goto(r, "write"))
    <3> DEFINE row == files[req[r].path]
               c == IF req[r].op = "edit" THEN req[r].content ELSE row.content
    <3>1. /\ req[r].op \in FileOps
          /\ req' = [req EXCEPT ![r].pc = "write", ![r].primary = row.primary,
                                ![r].content = IF req[r].op = "edit" THEN @
                                               ELSE row.content]
      BY <2>2 DEF ReadFile
    <3>2. row \in Rows
      BY <1>3 DEF RequestRows, DraftInvariant, DraftRows
    <3>3. c \in Contents /\ row.primary \in BOOLEAN
      BY <1>3, <3>2 DEF RequestRows, Rows
    <3>4. PICK new : new = [req[r] EXCEPT !.pc = "write", !.primary = row.primary,
                                          !.content = c]
      OBVIOUS
    <3>5. req' = [req EXCEPT ![r] = new]
      BY <3>1, <3>4 DEF DraftInvariant, RequestsSound
    <3> HIDE DEF c
    <3>6. /\ new \in RequestRows /\ new.pc = "write" /\ new.op = req[r].op
          /\ new.base = req[r].base /\ new.target = req[r].target
      BY <1>3, <3>3, <3>4 DEF RequestRows, Steps
    <3>7. new.op \notin {"restore", "switch"}
      BY <3>1, <3>6 DEF FileOps
    <3>8. RequestSound(new)'
      BY <1>1, <1>3, <3>6, <3>7 DEF RequestSound
    <3> QED
      BY <1>1, <1>2, <3>5, <3>8, RequestStep DEF DraftInvariant
  <2> QED
    BY <2>1, <2>2
<1> QED
  BY <1>1, <1>2, <1>4 DEF DraftInvariant, DraftRows

LEMMA PatchReadStep ==
  ASSUME DraftInvariant, NEW r \in Requests, PatchRead(r)
  PROVE  DraftInvariant'
<1>1. UNCHANGED <<doc, versions, lock, proposals, calls>> /\ req[r].pc = "read"
      /\ req[r].op = "patch" /\ files' \in {files, Ensured}
  BY DEF PatchRead, At
<1>2. Onward /\ DraftKept /\ VersionsSound' /\ ProposalsSound' /\ doc \in Docs
      /\ files' \in [Paths -> Rows]
  BY <1>1, EnsureRows
<1>3. req[r] \in RequestRows /\ RequestSound(req[r])
  BY DEF DraftInvariant, RequestsSound, RequestSound
<1>4. RequestsSound'
  <2>1. CASE Done(r)
    BY <1>1, <1>2, <2>1, RequestDone DEF DraftInvariant
  <2>2. CASE ~Done(r)
    <3>1. PICK p \in Paths : p = PrimaryOf(DraftOf(Ensured))
      BY EnsuredTyped DEF DraftInvariant, DraftRows
    <3>2. req' = [req EXCEPT ![r].pc = "patchFile", ![r].path = p]
      BY <2>2, <3>1 DEF PatchRead
    <3>3. PICK new : new = [req[r] EXCEPT !.pc = "patchFile", !.path = p]
      OBVIOUS
    <3>4. /\ new \in RequestRows /\ new.pc = "patchFile" /\ new.op = "patch"
          /\ new.base = req[r].base /\ new.target = req[r].target
      BY <1>1, <1>3, <3>3 DEF RequestRows, Steps
    <3>5. RequestSound(new)'
      BY <1>1, <1>3, <3>4 DEF RequestSound
    <3>6. req' = [req EXCEPT ![r] = new]
      BY <3>2, <3>3 DEF DraftInvariant, RequestsSound
    <3> QED
      BY <1>1, <1>2, <3>5, <3>6, RequestStep DEF DraftInvariant
  <2> QED
    BY <2>1, <2>2
<1> QED
  BY <1>1, <1>2, <1>4 DEF DraftInvariant, DraftRows

(* What is read here is the draft while the revisions stay.                *)
LEMMA ReadFilesStep ==
  ASSUME DraftInvariant, NEW r \in Requests, ReadFiles(r)
  PROVE  DraftInvariant'
<1>1. UNCHANGED <<doc, versions, lock, proposals, calls>> /\ req[r].pc = "files"
      /\ files' \in {files, Ensured}
  BY DEF ReadFiles, At
<1>2. Onward /\ DraftKept /\ VersionsSound' /\ ProposalsSound' /\ doc \in Docs
      /\ files' \in [Paths -> Rows]
  BY <1>1, EnsureRows
<1>3. req[r] \in RequestRows /\ RequestSound(req[r])
  BY DEF DraftInvariant, RequestsSound, RequestSound
<1>4. RequestsSound'
  <2>1. CASE Done(r)
    BY <1>1, <1>2, <2>1, RequestDone DEF DraftInvariant
  <2>2. CASE ~Done(r)
    <3>1. PICK rows : rows = DraftOf(Ensured)
      OBVIOUS
    <3>2. req' = [req EXCEPT ![r].pc = "commit", ![r].rows = rows] /\ files' = Ensured
      BY <2>2, <3>1 DEF ReadFiles
    <3>3. rows \in Snapshots /\ rows # <<>>
      <4>1. Ensured \in [Paths -> Rows] /\ LiveIn(Ensured) # {}
        BY EnsuredTyped DEF DraftInvariant, DraftRows
      <4> QED
        BY <3>1, <4>1, DraftTyped
    <3>4. rows = Draft'
      BY <3>1, <3>2 DEF Draft, DraftOf, LiveIn
    <3>5. PICK new : new = [req[r] EXCEPT !.pc = "commit", !.rows = rows]
      OBVIOUS
    <3>6. /\ new \in RequestRows /\ new.pc = "commit" /\ new.op = req[r].op
          /\ new.base = req[r].base /\ new.target = req[r].target
          /\ new.doc = req[r].doc /\ new.rows = rows
      BY <1>3, <3>3, <3>5 DEF RequestRows, Steps
    <3>7. Formal(new.base)' <=> Formal(new.base)
      BY <1>1 DEF Formal, Visible, LiveVersion, Numbers
    <3>8. new.op \in {"restore", "switch"} => Formal(new.base)
      BY <1>3, <3>6 DEF RequestSound
    <3>9. RequestSound(new)'
      BY <1>1, <1>3, <3>3, <3>4, <3>6, <3>7, <3>8 DEF RequestSound
    <3>10. req' = [req EXCEPT ![r] = new]
      BY <3>2, <3>5 DEF DraftInvariant, RequestsSound
    <3> QED
      BY <1>1, <1>2, <3>9, <3>10, RequestStep DEF DraftInvariant
  <2> QED
    BY <2>1, <2>2
<1> QED
  BY <1>1, <1>2, <1>4 DEF DraftInvariant, DraftRows

LEMMA ReadDraftStep ==
  ASSUME DraftInvariant, NEW r \in Requests, ReadDraft(r)
  PROVE  DraftInvariant'
<1>1. UNCHANGED <<doc, versions, lock, proposals, calls>> /\ req[r].pc = "draft"
      /\ files' \in {files, Ensured}
  BY DEF ReadDraft, At
<1>2. Onward /\ DraftKept /\ VersionsSound' /\ ProposalsSound' /\ doc \in Docs
      /\ files' \in [Paths -> Rows]
  BY <1>1, EnsureRows
<1>3. req[r] \in RequestRows /\ RequestSound(req[r])
  BY DEF DraftInvariant, RequestsSound, RequestSound
<1>4. RequestsSound'
  <2>1. CASE Done(r)
    BY <1>1, <1>2, <2>1, RequestDone DEF DraftInvariant
  <2>2. CASE ~Done(r)
    <3>1. PICK stale \in SUBSET Paths : stale = LiveIn(Ensured)
      BY DEF LiveIn
    <3>2. req' = [req EXCEPT ![r].pc = "replace", ![r].stale = stale]
      BY <2>2, <3>1 DEF ReadDraft
    <3>3. PICK new : new = [req[r] EXCEPT !.pc = "replace", !.stale = stale]
      OBVIOUS
    <3>4. /\ new \in RequestRows /\ new.pc = "replace" /\ new.op = req[r].op
          /\ new.base = req[r].base /\ new.target = req[r].target
      <4>1. stale \in (SUBSET Nat) \cup (SUBSET Paths)
        OBVIOUS
      <4> QED
        BY <1>3, <3>3, <4>1 DEF RequestRows, Steps
    <3>5. Formal(new.base)' <=> Formal(new.base)
      BY <1>1 DEF Formal, Visible, LiveVersion, Numbers
    <3>6. Formal(new.base)
      BY <1>1, <1>3, <3>4 DEF RequestSound
    <3>7. RequestSound(new)'
      BY <1>1, <1>3, <3>4, <3>5, <3>6 DEF RequestSound
    <3>8. req' = [req EXCEPT ![r] = new]
      BY <3>2, <3>3 DEF DraftInvariant, RequestsSound
    <3> QED
      BY <1>1, <1>2, <3>7, <3>8, RequestStep DEF DraftInvariant
  <2> QED
    BY <2>1, <2>2
<1> QED
  BY <1>1, <1>2, <1>4 DEF DraftInvariant, DraftRows

LEMMA FilesStep ==
  ASSUME DraftInvariant, NEW r \in Requests, Done(r), NEW c \in Contents,
         UNCHANGED <<versions, lock, proposals, calls>>, files' \in [Paths -> Rows],
         doc' \in {DraftChanged(doc), DocumentShows(doc, c)},
         req[r].pc # "patchDocument"
  PROVE  DraftInvariant'
<1>1. doc \in Docs
  BY DEF DraftInvariant, DraftRows
<1>2. /\ doc' \in Docs /\ doc'.draftRevision = doc.draftRevision + 1
      /\ doc'.revision >= doc.revision
      /\ doc'.base = doc.base /\ doc'.current = doc.current
  BY <1>1, DocTyped
<1>3. doc.draftRevision \in Nat /\ doc.revision \in Nat /\ doc'.revision \in Nat
      /\ doc.current \in Nat
  BY <1>1, <1>2 DEF Docs
<1>4. doc.draftRevision < doc'.draftRevision /\ doc.revision <= doc'.revision
  BY <1>2, <1>3
<1>5. Onward
  BY <1>2, <1>3, <1>4, VersionsStayOnward
<1>6. DraftKept
  BY <1>4 DEF DraftKept
<1>7. RequestsSound'
  BY <1>1, <1>5, <1>6, RequestDone DEF DraftInvariant
<1>8. ProposalsSound' /\ VersionsSound'
  BY <1>1, <1>2, <1>5, <1>6, VersionsStay, ProposalsStay DEF DraftInvariant, ProposalsSound
<1> QED
  BY <1>2, <1>7, <1>8 DEF DraftInvariant, DraftRows

LEMMA RowEdits ==
  ASSUME NEW row \in Rows, NEW c \in Contents, NEW b \in BOOLEAN
  PROVE  /\ [Touch(row) EXCEPT !.content = c] \in Rows
         /\ [Touch(row) EXCEPT !.status = "deleted"] \in Rows
         /\ [Touch(row) EXCEPT !.primary = b] \in Rows
         /\ [Touch(Touch(row)) EXCEPT !.primary = b] \in Rows
         /\ [status |-> "live", content |-> c, revision |-> 1, primary |-> b] \in Rows
<1>1. Touch(row) \in Rows
  BY TouchTyped
<1>2. Touch(Touch(row)) \in Rows
  BY <1>1, TouchTyped
<1>3. \A t \in Rows : /\ [t EXCEPT !.content = c] \in Rows
                      /\ [t EXCEPT !.status = "deleted"] \in Rows
                      /\ [t EXCEPT !.primary = b] \in Rows
  BY DEF Rows
<1>4. [status |-> "live", content |-> c, revision |-> 1, primary |-> b] \in Rows
  BY DEF Rows
<1> QED
  BY <1>1, <1>2, <1>3, <1>4

LEMMA EditStep ==
  ASSUME DraftInvariant, NEW r \in Requests,
         Edit(r) \/ SetPrimary(r) \/ Delete(r)
  PROVE  DraftInvariant'
<1>1. /\ Done(r) /\ req[r].pc = "write"
      /\ UNCHANGED <<versions, lock, proposals, calls>>
  BY DEF Edit, SetPrimary, Delete, At
<1>2. req[r].path \in Paths /\ req[r].content \in Contents
  BY DEF DraftInvariant, RequestsSound, RequestSound, RequestRows
<1>3. files \in [Paths -> Rows] /\ \A p \in Paths : files[p] \in Rows
  BY DEF DraftInvariant, DraftRows
<1>4. CASE Edit(r)
  <2>1. PICK row \in Rows : row = [Touch(files[req[r].path]) EXCEPT
                                     !.content = req[r].content]
    BY <1>2, <1>3, RowEdits
  <2>2. files' = [files EXCEPT ![req[r].path] = row]
    BY <1>2, <1>3, <1>4, <2>1 DEF Edit
  <2>3. files' \in [Paths -> Rows]
    BY <1>3, <2>2
  <2>4. doc' \in {DraftChanged(doc), DocumentShows(doc, req[r].content)}
    BY <1>4 DEF Edit
  <2> QED
    BY <1>1, <1>2, <2>3, <2>4, FilesStep
<1>5. CASE SetPrimary(r)
  <2>1. \A p \in Paths : [Touch(Touch(files[p])) EXCEPT !.primary = TRUE] \in Rows
                         /\ [Touch(files[p]) EXCEPT !.primary = FALSE] \in Rows
    BY <1>2, <1>3, RowEdits
  <2>2. files' \in [Paths -> Rows]
    BY <1>3, <1>5, <2>1 DEF SetPrimary
  <2>3. doc' = DocumentShows(doc, req[r].content)
    BY <1>5 DEF SetPrimary
  <2> QED
    BY <1>1, <1>2, <2>2, <2>3, FilesStep
<1>6. CASE Delete(r)
  <2>1. PICK row \in Rows : row = [Touch(files[req[r].path]) EXCEPT !.status = "deleted"]
    BY <1>2, <1>3, RowEdits
  <2>2. PICK gone \in [Paths -> Rows] : gone = [files EXCEPT ![req[r].path] = row]
    BY <1>3
  <2>3. gone = [files EXCEPT ![req[r].path] = [Touch(@) EXCEPT !.status = "deleted"]]
    BY <1>2, <1>3, <2>1, <2>2
  <2>4. \/ \E p \in Replacements(gone) :
             /\ files' = [gone EXCEPT ![p] = [Touch(@) EXCEPT !.primary = TRUE]]
             /\ doc' = DocumentShows(doc, gone[p].content)
        \/ files' = gone /\ doc' = DraftChanged(doc)
    BY <1>6, <2>3 DEF Delete
  <2>5. Replacements(gone) \in SUBSET Paths
    BY DEF Replacements, LiveIn
  <2>6. ASSUME NEW p \in Paths,
               files' = [gone EXCEPT ![p] = [Touch(@) EXCEPT !.primary = TRUE]],
               doc' = DocumentShows(doc, gone[p].content)
        PROVE  DraftInvariant'
    <3>1. gone[p] \in Rows /\ gone[p].content \in Contents
      BY DEF Rows
    <3>2. PICK primary \in Rows : primary = [Touch(gone[p]) EXCEPT !.primary = TRUE]
      BY <1>2, <3>1, RowEdits
    <3>3. files' = [gone EXCEPT ![p] = primary]
      BY <2>6, <3>2
    <3>4. files' \in [Paths -> Rows]
      BY <3>3
    <3> QED
      BY <1>1, <2>6, <3>1, <3>4, FilesStep
  <2> QED
    BY <1>1, <1>2, <2>4, <2>5, <2>6, FilesStep
<1> QED
  BY <1>4, <1>5, <1>6

LEMMA CreateStep ==
  ASSUME DraftInvariant, NEW r \in Requests, Create(r)
  PROVE  DraftInvariant'
<1>1. /\ Done(r) /\ req[r].pc = "write"
      /\ UNCHANGED <<versions, lock, proposals, calls>>
  BY DEF Create, At
<1>2. req[r].path \in Paths /\ Initial \in Contents /\ files \in [Paths -> Rows]
  BY DraftAssumption
     DEF DraftInvariant, DraftRows, RequestsSound, RequestSound, RequestRows
<1>3. CASE files[req[r].path].status = "none"
  <2>1. PICK row \in Rows : row = [status |-> "live", content |-> Initial,
                                   revision |-> 1, primary |-> FALSE]
    BY <1>2 DEF Rows
  <2>2. files' = [files EXCEPT ![req[r].path] = row] /\ doc' = DraftChanged(doc)
    BY <1>3, <2>1 DEF Create
  <2>3. files' \in [Paths -> Rows]
    BY <1>2, <2>2
  <2> QED
    BY <1>1, <1>2, <2>2, <2>3, FilesStep
<1>4. CASE files[req[r].path].status # "none"
  <2>1. UNCHANGED <<files, doc>>
    BY <1>4 DEF Create
  <2>2. Onward /\ DraftKept /\ VersionsSound' /\ ProposalsSound' /\ doc \in Docs
    BY <1>1, <2>1, QuietRows
  <2>3. RequestsSound'
    BY <1>1, <2>2, RequestDone DEF DraftInvariant
  <2> QED
    BY <1>1, <2>1, <2>2, <2>3 DEF DraftInvariant, DraftRows
<1> QED
  BY <1>3, <1>4

LEMMA PatchDocumentStep ==
  ASSUME DraftInvariant, NEW r \in Requests, PatchDocument(r)
  PROVE  DraftInvariant'
<1>1. /\ Done(r) /\ UNCHANGED <<files, versions, lock, proposals, calls>>
      /\ doc' = [doc EXCEPT !.content = req[r].content, !.revision = @ + 1]
  BY DEF PatchDocument
<1>2. doc \in Docs /\ req[r].content \in Contents /\ files \in [Paths -> Rows]
  BY DEF DraftInvariant, DraftRows, RequestsSound, RequestSound, RequestRows
<1> DEFINE shows == [doc EXCEPT !.content = req[r].content]
<1>3. /\ shows \in Docs /\ shows.draftRevision = doc.draftRevision
      /\ shows.revision = doc.revision /\ shows.base = doc.base
      /\ shows.current = doc.current
  BY <1>2 DEF Docs
<1>4. doc' = [shows EXCEPT !.revision = @ + 1]
  BY <1>1, <1>2 DEF Docs
<1> HIDE DEF shows
<1>5. /\ doc' \in Docs /\ doc'.draftRevision = shows.draftRevision
      /\ doc'.revision = shows.revision + 1 /\ doc'.base = shows.base
      /\ doc'.current = shows.current
  BY <1>3, <1>4 DEF Docs
<1>6. /\ doc.revision < doc'.revision /\ doc.revision <= doc'.revision
      /\ doc.draftRevision <= doc'.draftRevision /\ doc.current <= doc'.current
  BY <1>2, <1>3, <1>5 DEF Docs
<1>7. Onward
  BY <1>1, <1>2, <1>5, <1>6, VersionsStayOnward
<1>8. DraftKept
  BY <1>1 DEF DraftKept, Draft
<1>9. RequestsSound'
  BY <1>1, <1>2, <1>6, <1>7, <1>8, RequestDone DEF DraftInvariant
<1>10. VersionsSound' /\ ProposalsSound'
  BY <1>1, <1>2, <1>3, <1>5, <1>7, <1>8, VersionsStay, ProposalsStay DEF DraftInvariant, ProposalsSound
<1> QED
  BY <1>1, <1>5, <1>9, <1>10 DEF DraftInvariant, DraftRows

(* The PATCH of the document writes its file without the document.         *)
LEMMA PatchFileStep ==
  ASSUME DraftInvariant, NEW r \in Requests, PatchFile(r)
  PROVE  DraftInvariant'
<1>1. /\ Goto(r, "patchDocument") /\ req[r].pc = "patchFile"
      /\ UNCHANGED <<doc, versions, lock, calls>>
  BY DEF PatchFile, At
<1>2. /\ req[r].path \in Paths /\ req[r].content \in Contents
      /\ files \in [Paths -> Rows] /\ doc \in Docs
  BY DEF DraftInvariant, DraftRows, RequestsSound, RequestSound, RequestRows
<1>3. PICK p \in Paths : p = req[r].path
  BY <1>2
<1>4. PICK row \in Rows : row = [Touch(files[p]) EXCEPT !.content = req[r].content]
  BY <1>2, RowEdits
<1>5. files' = [files EXCEPT ![p] = row]
  BY <1>2, <1>3, <1>4 DEF PatchFile
<1>6. row.status = files[p].status /\ row.primary = files[p].primary
  <2>1. Touch(files[p]) \in Rows /\ Touch(files[p]).status = files[p].status
        /\ Touch(files[p]).primary = files[p].primary
    BY <1>2, TouchTyped
  <2> QED
    BY <1>4, <2>1 DEF Rows
<1>7. files' \in [Paths -> Rows]
  BY <1>2, <1>5
<1>8. Onward
  BY <1>1, <1>2, <1>7, VersionsStayOnward DEF Docs
<1>9. RequestsSound'
  BY <1>1, <1>2, <1>8, RequestGoes DEF DraftInvariant, Steps
<1>10. DOMAIN Draft' = DOMAIN Draft
       /\ \A q \in DOMAIN Draft : /\ Draft'[q].primary = Draft[q].primary
                                  /\ q # p => Draft'[q] = Draft[q]
  <2>1. LiveIn(files') = LiveIn(files)
    BY <1>2, <1>5, <1>6 DEF LiveIn
  <2>2. LiveIn(files) \in SUBSET Paths
    BY DEF LiveIn
  <2>3. Draft = [q \in LiveIn(files) |-> [content |-> files[q].content,
                                          primary |-> files[q].primary]]
    BY DEF Draft, DraftOf
  <2>4. Draft' = [q \in LiveIn(files) |-> [content |-> files'[q].content,
                                           primary |-> files'[q].primary]]
    BY <2>1 DEF Draft, DraftOf
  <2>5. \A q \in Paths : /\ files'[q].primary = files[q].primary
                         /\ q # p => files'[q] = files[q]
    BY <1>2, <1>5, <1>6
  <2> QED
    BY <2>2, <2>3, <2>4, <2>5
<1>11. ProposalsSound'
  <2>1. proposals' = [s \in Proposals |->
                        IF proposals[s].status = "pending"
                          THEN [proposals[s] EXCEPT !.patched = @ \cup {p}]
                          ELSE proposals[s]]
    BY <1>3 DEF PatchFile
  <2>2. ASSUME NEW s \in Proposals, proposals'[s].status = "pending"
        PROVE  ProposalSound(proposals[s])'
    <3>1. PICK m : m = proposals[s]
      OBVIOUS
    <3>2. m.status = "pending" /\ proposals'[s] = [m EXCEPT !.patched = @ \cup {p}]
      BY <2>1, <2>2, <3>1
    <3>3. ProposalSound(m) /\ m \in ProposalRows
      BY <3>1, <3>2 DEF DraftInvariant, ProposalsSound, ProposalSound
    <3>4. PICK patched : patched = [m EXCEPT !.patched = @ \cup {p}]
      OBVIOUS
    <3>5. /\ patched \in ProposalRows /\ patched.patched = m.patched \cup {p}
          /\ patched.seen = m.seen /\ patched.path = m.path
          /\ patched.preimage = m.preimage /\ patched.operation = m.operation
          /\ patched.draftRevision = m.draftRevision
      BY <3>3, <3>4 DEF ProposalRows
    <3>6. ASSUME m.seen # <<>>, m.draftRevision = doc'.draftRevision
          PROVE  /\ DOMAIN Draft' = DOMAIN m.seen
                 /\ \A q \in DOMAIN Draft' :
                      \/ Draft'[q] = m.seen[q]
                      \/ q \in patched.patched /\ Draft'[q].primary = m.seen[q].primary
      <4>1. /\ DOMAIN Draft = DOMAIN m.seen
            /\ \A q \in DOMAIN Draft :
                 \/ Draft[q] = m.seen[q]
                 \/ q \in m.patched /\ Draft[q].primary = m.seen[q].primary
        BY <1>1, <3>3, <3>6 DEF ProposalSound
      <4> HIDE DEF Draft
      <4> QED
        BY <1>10, <3>5, <4>1
    <3>7. ProposalSound(patched)'
      BY <1>1, <3>3, <3>5, <3>6 DEF ProposalSound
    <3>8. patched = proposals'[s]
      BY <3>2, <3>4
    <3> QED
      BY <3>7, <3>8 DEF ProposalSound
  <2> QED
    BY <2>1, <2>2 DEF ProposalsSound
<1>12. VersionsSound'
  BY <1>1, VersionsStay DEF DraftInvariant
<1> QED
  BY <1>1, <1>7, <1>9, <1>11, <1>12 DEF DraftInvariant, DraftRows

(* A version becomes the draft, and the base of it is formal.              *)
LEMMA ReplaceStep ==
  ASSUME DraftInvariant, NEW r \in Requests, Replace(r)
  PROVE  DraftInvariant'
<1>1. /\ Done(r) /\ req[r].pc = "replace"
      /\ UNCHANGED <<versions, lock, proposals, calls>>
  BY DEF Replace, At
<1>2. req[r] \in RequestRows /\ RequestSound(req[r])
      /\ files \in [Paths -> Rows] /\ doc \in Docs
  BY DEF DraftInvariant, DraftRows, RequestsSound, RequestSound
<1>3. CASE UNCHANGED <<files, doc>>
  <2>1. Onward /\ DraftKept /\ VersionsSound' /\ ProposalsSound'
    BY <1>1, <1>3, QuietRows
  <2>2. RequestsSound'
    BY <1>1, <1>2, <2>1, RequestDone DEF DraftInvariant
  <2> QED
    BY <1>1, <1>3, <2>1, <2>2 DEF DraftInvariant, DraftRows
<1>4. CASE ~UNCHANGED <<files, doc>>
  <2>1. PICK snapshot \in Snapshots : snapshot = req[r].snapshot
    BY <1>2 DEF RequestRows
  <2>2. /\ files' = Replaced(files, snapshot, req[r].stale)
        /\ doc' = [DocumentShows(doc, ContentOf(snapshot)) EXCEPT !.base = req[r].base]
    BY <1>4, <2>1 DEF Replace
  <2>3. files' \in [Paths -> Rows]
    <3>1. \A p \in DOMAIN snapshot : snapshot[p].content \in Contents
                                     /\ snapshot[p].primary \in BOOLEAN
      BY SnapshotHas DEF StoredFile
    <3>2. \A p \in Paths : files[p].revision + 1 \in Nat /\ files[p] \in Rows
      BY <1>2 DEF Rows
    <3>3. \A p \in DOMAIN snapshot : p \in Paths =>
            [status |-> "live", content |-> snapshot[p].content,
             revision |-> files[p].revision + 1, primary |-> snapshot[p].primary] \in Rows
      BY <3>1, <3>2 DEF Rows
    <3>4. \A p \in Paths : [Touch(files[p]) EXCEPT !.status = "deleted"] \in Rows
      BY <1>2, RowEdits, DraftAssumption
    <3> QED
      BY <2>2, <3>2, <3>3, <3>4 DEF Replaced
  <2>4. ContentOf(snapshot) \in Contents
    BY ContentTyped
  <2> DEFINE shows == DocumentShows(doc, ContentOf(snapshot))
  <2>5. /\ shows \in Docs /\ shows.draftRevision = doc.draftRevision + 1
        /\ shows.revision = doc.revision + 1 /\ shows.current = doc.current
    BY <1>2, <2>4, DocTyped
  <2> HIDE DEF shows
  <2>6. req[r].base \in Nat /\ Formal(req[r].base)
    BY <1>1, <1>2 DEF RequestSound, RequestRows
  <2>7. doc' = [shows EXCEPT !.base = req[r].base]
    BY <2>2 DEF shows
  <2>8. /\ doc' \in Docs /\ doc'.draftRevision = shows.draftRevision
        /\ doc'.revision = shows.revision /\ doc'.current = shows.current
        /\ doc'.base = req[r].base
    BY <2>5, <2>6, <2>7 DEF Docs
  <2>9. doc.draftRevision \in Nat /\ doc.revision \in Nat /\ doc.current \in Nat
    BY <1>2 DEF Docs
  <2>10. doc.draftRevision < doc'.draftRevision /\ doc.draftRevision <= doc'.draftRevision
         /\ doc.revision <= doc'.revision /\ doc.current <= doc'.current
    BY <2>5, <2>8, <2>9
  <2>11. Onward
    BY <1>1, <2>3, <2>8, <2>10, VersionsStayOnward
  <2>12. DraftKept
    BY <2>10 DEF DraftKept
  <2>13. RequestsSound' /\ ProposalsSound'
    BY <1>1, <1>2, <2>11, <2>12, RequestDone, ProposalsStay DEF DraftInvariant, ProposalsSound
  <2>14. VersionsSound'
    <3>1. Numbers' = Numbers /\ \A n : LiveVersion(n)' <=> LiveVersion(n)
      BY <1>1 DEF Numbers, LiveVersion
    <3>2. doc'.base # 0 => Visible(doc'.base)
      BY <2>6, <2>8 DEF Formal
    <3>3. BaseIsFormal'
      BY <1>1, <3>1, <3>2 DEF BaseIsFormal, Visible
    <3>4. HeadsAreTips'
      BY <1>1, <3>1 DEF DraftInvariant, VersionsSound, HeadsAreTips
    <3> QED
      BY <1>1, <2>5, <2>8, <3>1, <3>3, <3>4 DEF DraftInvariant, VersionsSound
  <2> QED
    BY <1>1, <2>3, <2>8, <2>13, <2>14 DEF DraftInvariant, DraftRows
<1> QED
  BY <1>3, <1>4

-----------------------------------------------------------------------------
(* Proposals are made and discarded.                                       *)
LEMMA ProposeStep ==
  ASSUME DraftInvariant, NEW s \in Proposals,
         NEW operation \in {"update", "delete", "create"}, NEW p \in Paths,
         NEW c \in Contents, Propose(s, operation, p, c)
  PROVE  DraftInvariant'
<1>1. /\ UNCHANGED <<files, doc, versions, lock, req>>
      /\ calls' = calls + 1 /\ calls < MaxCalls
      /\ operation # "create" => p \in LiveIn(files)
  BY DEF Propose
<1>2. Onward /\ DraftKept /\ VersionsSound' /\ doc \in Docs /\ files \in [Paths -> Rows]
  BY <1>1, QuietRows DEF DraftInvariant, DraftRows
<1>3. PICK m : m = [status |-> "pending", operation |-> operation, path |-> p,
                    next |-> c,
                    preimage |-> [revision |-> files[p].revision,
                                  content |-> files[p].content],
                    draftRevision |-> doc.draftRevision, base |-> doc.base,
                    seen |-> Draft, patched |-> {}]
  OBVIOUS
<1>4. proposals' = [proposals EXCEPT ![s] = m]
  BY <1>3 DEF Propose
<1>5. /\ Draft \in Snapshots /\ DOMAIN Draft = LiveIn(files)
      /\ \A q \in LiveIn(files) : Draft[q].content = files[q].content
  <2>1. /\ Draft \in Snapshots /\ DOMAIN Draft = LiveIn(files)
        /\ \A q \in LiveIn(files) : Draft[q] = [content |-> files[q].content,
                                               primary |-> files[q].primary]
    BY <1>2, DraftTyped DEF Draft
  <2> HIDE DEF Draft
  <2> QED
    BY <2>1
<1>6. files[p] \in Rows /\ files[p].revision \in Nat /\ files[p].content \in Contents
      /\ doc.draftRevision \in Nat /\ doc.base \in Nat
  BY <1>2 DEF Rows, Docs
<1>7. m \in ProposalRows
  BY <1>3, <1>5, <1>6 DEF ProposalRows
<1>8. ProposalSound(m)'
  <2>1. Draft' = Draft
    BY <1>1 DEF Draft
  <2>2. /\ m.operation = operation /\ m.path = p /\ m.seen = Draft
        /\ m.preimage.content = files[p].content /\ m.draftRevision = doc.draftRevision
    BY <1>3
  <2> QED
    BY <1>1, <1>5, <1>6, <1>7, <2>1, <2>2 DEF ProposalSound
<1>9. ProposalsSound'
  <2>1. \A t \in Proposals : proposals'[t] = IF t = s THEN m ELSE proposals[t]
    BY <1>4 DEF DraftInvariant, ProposalsSound
  <2>2. Draft' = Draft /\ doc' = doc
    BY <1>1 DEF Draft
  <2>3. ASSUME NEW t \in Proposals, proposals'[t].status = "pending"
        PROVE  ProposalSound(proposals[t])'
    <3>1. PICK o : o = proposals'[t]
      OBVIOUS
    <3>2. CASE t = s
      BY <1>8, <2>1, <3>1, <3>2 DEF ProposalSound
    <3>3. CASE t # s
      <4>1. ProposalSound(o)
        BY <2>1, <2>3, <3>1, <3>3 DEF DraftInvariant, ProposalsSound
      <4> HIDE DEF Draft
      <4>2. ProposalSound(o)'
        BY <2>2, <4>1 DEF ProposalSound
      <4> QED
        BY <3>1, <4>2 DEF ProposalSound
    <3> QED
      BY <3>2, <3>3
  <2>4. DOMAIN proposals' = Proposals /\ proposals' = [t \in Proposals |-> proposals'[t]]
    BY <1>4 DEF DraftInvariant, ProposalsSound
  <2> QED
    BY <2>3, <2>4 DEF ProposalsSound
<1>10. RequestsSound'
  BY <1>1, <1>2, RequestsStay DEF DraftInvariant
<1> QED
  BY <1>1, <1>2, <1>9, <1>10, DraftAssumption DEF DraftInvariant, DraftRows

LEMMA DiscardStep ==
  ASSUME DraftInvariant, NEW s \in Proposals, Discard(s)
  PROVE  DraftInvariant'
<1>1. UNCHANGED <<files, doc, versions, lock, req, calls>>
      /\ proposals' = [proposals EXCEPT ![s] = [status |-> "discarded"]]
  BY DEF Discard
<1>2. Onward /\ DraftKept /\ VersionsSound' /\ doc \in Docs
  BY <1>1, QuietRows
<1>3. /\ DOMAIN proposals' = Proposals
      /\ proposals' = [t \in Proposals |-> proposals'[t]]
      /\ \A t \in Proposals : proposals'[t].status = "pending" =>
                              proposals'[t] = proposals[t]
  BY <1>1 DEF DraftInvariant, ProposalsSound
<1>4. RequestsSound' /\ ProposalsSound'
  BY <1>1, <1>2, <1>3, RequestsStay, ProposalsStay DEF DraftInvariant
<1> QED
  BY <1>1, <1>2, <1>4 DEF DraftInvariant, DraftRows

-----------------------------------------------------------------------------
(* The four writers of versions, and prune.                                *)

(* A version is added under the next number; of the others one may lose    *)
(* its head label.                                                         *)
AddsVersion(m, v) ==
  versions' = WithVersion(NoLongerHead(m), doc.current + 1, v)

LEMMA VersionAdded ==
  ASSUME VersionsSound, doc \in Docs, NEW m, NEW v \in VersionRows,
         AddsVersion(m, v), v.parent <= doc.current, v.live,
         v.head <=> v.kind = "milestone", v.kind = "milestone" => m = v.parent,
         m \in Numbers /\ versions[m].head => v.kind = "milestone",
         doc'.current = doc.current + 1
  PROVE  /\ versions' \in [1 .. doc'.current -> VersionRows]
         /\ Numbers' = Numbers \cup {doc.current + 1} /\ doc.current + 1 \notin Numbers
         /\ versions'[doc.current + 1] = v
         /\ \A n \in Numbers' : versions'[n].parent < n
         /\ HeadsAreTips'
         /\ \A n \in Numbers : /\ versions'[n].kind = versions[n].kind
                               /\ versions'[n].live = versions[n].live
<1> DEFINE N == doc.current
<1>1. N \in Nat /\ Numbers = 1 .. N /\ versions \in [1 .. N -> VersionRows]
  BY DEF VersionsSound, Numbers, Docs
<1> HIDE DEF N
<1>2. Numbers \cup {N + 1} = 1 .. N + 1 /\ N + 1 \notin Numbers
  BY <1>1
<1>3. DOMAIN NoLongerHead(m) = Numbers
  BY DEF NoLongerHead
<1>4. versions' = [n \in 1 .. N + 1 |-> IF n = N + 1 THEN v ELSE NoLongerHead(m)[n]]
  BY <1>2, <1>3 DEF AddsVersion, WithVersion, N
<1>5. ASSUME NEW n \in Numbers
      PROVE  /\ versions[n] \in VersionRows /\ versions'[n] \in VersionRows
             /\ versions'[n].parent = versions[n].parent
             /\ versions'[n].kind = versions[n].kind
             /\ versions'[n].live = versions[n].live
             /\ n # m => versions'[n].head = versions[n].head
             /\ n = m => ~versions'[n].head
  <2>1. n \in 1 .. N + 1 /\ n # N + 1 /\ versions[n] \in VersionRows
    BY <1>1, <1>2
  <2>2. versions'[n] = IF n = m THEN [versions[n] EXCEPT !.head = FALSE] ELSE versions[n]
    BY <1>4, <2>1 DEF NoLongerHead
  <2>3. PICK row \in VersionRows : row = versions[n]
    BY <2>1
  <2>4. /\ [row EXCEPT !.head = FALSE] \in VersionRows
        /\ [row EXCEPT !.head = FALSE].parent = row.parent
        /\ [row EXCEPT !.head = FALSE].kind = row.kind
        /\ [row EXCEPT !.head = FALSE].live = row.live
        /\ ~[row EXCEPT !.head = FALSE].head
    BY DEF VersionRows
  <2> QED
    BY <2>1, <2>2, <2>3, <2>4
<1>6. N + 1 \in 1 .. N + 1 /\ versions'[N + 1] = v
  BY <1>1, <1>4
<1>7. DOMAIN versions' = 1 .. N + 1
  BY <1>4
<1>8. \A n \in 1 .. N + 1 : versions'[n] \in VersionRows
  BY <1>2, <1>5, <1>6
<1>9. versions' \in [1 .. N + 1 -> VersionRows]
  <2>1. versions' = [n \in 1 .. N + 1 |-> versions'[n]]
    BY <1>4
  <2> QED
    BY <1>8, <2>1
<1>10. Numbers' = Numbers \cup {N + 1}
  BY <1>2, <1>7 DEF Numbers
<1>11. \A n \in Numbers' : versions'[n].parent < n
  <2>1. v.parent \in Nat /\ v.parent < N + 1
    BY <1>1 DEF VersionRows, N
  <2> QED
    BY <1>5, <1>6, <1>10, <2>1 DEF VersionsSound
<1>12. \A n \in Numbers : versions[n].head <=>
         /\ versions[n].kind = "milestone"
         /\ \A o \in Numbers : versions[o].kind = "milestone" => versions[o].parent # n
  BY DEF VersionsSound, HeadsAreTips
<1>13. ASSUME NEW n \in Numbers
       PROVE  versions'[n].head <=>
                /\ versions'[n].kind = "milestone"
                /\ \A o \in Numbers' : versions'[o].kind = "milestone" =>
                                         versions'[o].parent # n
  <2>1. (\A o \in Numbers' : versions'[o].kind = "milestone" => versions'[o].parent # n)
          <=> /\ \A o \in Numbers : versions[o].kind = "milestone" => versions[o].parent # n
              /\ v.kind = "milestone" => v.parent # n
    BY <1>5, <1>6, <1>10
  <2>2. versions[n].head \in BOOLEAN /\ versions'[n].head \in BOOLEAN
    BY <1>5 DEF VersionRows
  <2>3. CASE n = m
    BY <1>5, <1>12, <2>1, <2>2, <2>3
  <2>4. CASE n # m
    BY <1>5, <1>12, <2>1, <2>2, <2>4
  <2> QED
    BY <2>3, <2>4
<1>14. versions'[N + 1].head <=>
         /\ versions'[N + 1].kind = "milestone"
         /\ \A o \in Numbers' : versions'[o].kind = "milestone" =>
                                  versions'[o].parent # N + 1
  <2>1. \A o \in Numbers' : versions'[o].parent # N + 1
    <3>1. ASSUME NEW o \in Numbers
          PROVE  versions'[o].parent # N + 1
      <4>1. versions[o].parent < o /\ o <= N /\ o \in Nat /\ versions[o].parent \in Nat
        BY <1>1, <1>5 DEF VersionsSound, VersionRows
      <4> QED
        BY <1>1, <1>5, <4>1
    <3>2. v.parent # N + 1
      BY <1>1 DEF VersionRows, N
    <3> QED
      BY <1>6, <1>10, <3>1, <3>2
  <2> QED
    BY <1>6, <2>1
<1>15. HeadsAreTips'
  BY <1>10, <1>13, <1>14 DEF HeadsAreTips
<1> QED
  BY <1>2, <1>5, <1>6, <1>9, <1>10, <1>11, <1>15 DEF N

LEMMA VersionGrows ==
  ASSUME DraftInvariant, NEW m, NEW v \in VersionRows,
         AddsVersion(m, v), v.parent <= doc.current, v.live,
         v.head <=> v.kind = "milestone", v.kind = "milestone" => m = v.parent,
         m \in Numbers /\ versions[m].head => v.kind = "milestone",
         files' \in [Paths -> Rows], doc' \in Docs,
         doc.draftRevision <= doc'.draftRevision, doc.revision <= doc'.revision,
         doc'.current = doc.current + 1,
         \/ doc'.base = doc.base
         \/ doc'.base = doc.current + 1 /\ v.kind = "milestone"
  PROVE  Onward /\ VersionsSound'
<1>1. VersionsSound /\ doc \in Docs
  BY DEF DraftInvariant, DraftRows
<1>2. /\ versions' \in [1 .. doc'.current -> VersionRows]
      /\ Numbers' = Numbers \cup {doc.current + 1} /\ doc.current + 1 \notin Numbers
      /\ versions'[doc.current + 1] = v
      /\ \A n \in Numbers' : versions'[n].parent < n
      /\ HeadsAreTips'
      /\ \A n \in Numbers : /\ versions'[n].kind = versions[n].kind
                            /\ versions'[n].live = versions[n].live
  BY <1>1, VersionAdded
<1>3. \A n : Visible(n) => Visible(n)'
  BY <1>2 DEF Visible, LiveVersion
<1>4. doc.current <= doc'.current
  BY <1>1 DEF Docs
<1>5. Onward
  BY <1>2, <1>3, <1>4 DEF Onward
<1>6. BaseIsFormal'
  <2>1. CASE doc'.base = doc.base
    <3>1. PICK b : b = doc.base
      OBVIOUS
    <3>2. b # 0 => Visible(b)'
      BY <1>1, <1>3, <3>1 DEF VersionsSound, BaseIsFormal
    <3> QED
      BY <2>1, <3>1, <3>2 DEF BaseIsFormal, Visible, LiveVersion
  <2>2. CASE doc'.base = doc.current + 1 /\ v.kind = "milestone"
    BY <1>2, <2>2 DEF BaseIsFormal, Visible, LiveVersion
  <2> QED
    BY <2>1, <2>2
<1> QED
  BY <1>2, <1>5, <1>6 DEF VersionsSound

LEMMA NobodysHead ==
  ASSUME VersionsSound
  PROVE  NoLongerHead(0) = versions /\ 0 \notin Numbers
<1>1. 0 \notin Numbers /\ versions = [n \in Numbers |-> versions[n]]
  BY DEF VersionsSound, Numbers
<1> QED
  BY <1>1 DEF NoLongerHead

LEMMA NewVersionTyped ==
  ASSUME NEW s \in Snapshots, NEW kind \in {"milestone", "recovery"}, NEW parent \in Nat
  PROVE  LET v == NewVersion(s, kind, parent)
         IN  /\ v \in VersionRows /\ v.parent = parent /\ v.live /\ v.kind = kind
             /\ v.head <=> v.kind = "milestone"
             /\ v.files = s
BY DEF NewVersion, VersionRows

LEMMA BaseNumber ==
  ASSUME DraftInvariant
  PROVE  doc.base \in Nat /\ doc.base <= doc.current /\ doc.current \in Nat
BY DEF DraftInvariant, DraftRows, VersionsSound, BaseIsFormal, Visible, LiveVersion,
       Numbers, Docs

LEMMA CommitVersionStep ==
  ASSUME DraftInvariant, NEW r \in Requests, CommitVersion(r)
  PROVE  DraftInvariant'
<1>1. UNCHANGED <<files, lock, proposals, calls>> /\ req[r].pc = "commit"
  BY DEF CommitVersion, At
<1>2. req[r] \in RequestRows /\ RequestSound(req[r]) /\ doc \in Docs
      /\ files \in [Paths -> Rows]
  BY DEF DraftInvariant, DraftRows, RequestsSound, RequestSound
<1>3. CASE UNCHANGED <<versions, doc>> /\ Done(r)
  <2>1. Onward /\ DraftKept /\ VersionsSound' /\ ProposalsSound'
    BY <1>1, <1>3, QuietRows
  <2>2. RequestsSound'
    BY <1>1, <1>2, <1>3, <2>1, RequestDone DEF DraftInvariant
  <2> QED
    BY <1>1, <1>3, <2>1, <2>2 DEF DraftInvariant, DraftRows
<1>4. CASE ~(UNCHANGED <<versions, doc>> /\ Done(r))
  <2> DEFINE n == doc.current + 1
             milestone == req[r].op = "milestone"
  <2>1. PICK kind \in {"milestone", "recovery"} :
          kind = IF milestone THEN "milestone" ELSE "recovery"
    OBVIOUS
  <2>2. req[r].doc.current = doc.current /\ req[r].doc.base = doc.base
    BY <1>4 DEF CommitVersion, StillAsRead
  <2>3. /\ versions' = WithVersion(IF milestone THEN NoLongerHead(doc.base) ELSE versions,
                                   n, NewVersion(req[r].rows, kind, doc.base))
        /\ doc' = [DocumentShows(doc, ContentOf(req[r].rows))
                     EXCEPT !.current = n, !.base = IF milestone THEN n ELSE @]
        /\ IF milestone THEN Done(r)
           ELSE req' = [req EXCEPT ![r].pc = "pruneRead", ![r].saved = n,
                                   ![r].rows = <<>>, ![r].doc = Idle.doc]
    BY <1>4, <2>1, <2>2 DEF CommitVersion
  <2>4. req[r].rows \in Snapshots /\ ContentOf(req[r].rows) \in Contents
    BY <1>2, ContentTyped DEF RequestRows
  <2>5. doc.base \in Nat /\ doc.base <= doc.current /\ doc.current \in Nat /\ n \in Nat
    BY BaseNumber
  <2>6. PICK v : v = NewVersion(req[r].rows, kind, doc.base)
    OBVIOUS
  <2>7. /\ v \in VersionRows /\ v.parent = doc.base /\ v.live /\ v.kind = kind
        /\ v.head <=> v.kind = "milestone"
    BY <2>4, <2>5, <2>6, NewVersionTyped
  <2> DEFINE shows == DocumentShows(doc, ContentOf(req[r].rows))
             base == IF milestone THEN n ELSE doc.base
             numbered == [shows EXCEPT !.current = n]
  <2>8. /\ shows \in Docs /\ shows.draftRevision = doc.draftRevision + 1
        /\ shows.revision = doc.revision + 1 /\ shows.base = doc.base
    BY <1>2, <2>4, DocTyped
  <2>9. doc' = [[shows EXCEPT !.current = n] EXCEPT !.base = base]
    <3>1. doc' = [shows EXCEPT !.current = n, !.base = IF milestone THEN n ELSE @]
      BY <2>3
    <3> HIDE DEF shows, n, milestone
    <3> QED
      BY <2>8, <3>1 DEF Docs
  <2> HIDE DEF shows
  <2>10. /\ numbered \in Docs /\ numbered.draftRevision = shows.draftRevision
         /\ numbered.revision = shows.revision /\ numbered.current = n
    BY <2>5, <2>8 DEF Docs
  <2>11. base \in Nat
    BY <2>5
  <2> HIDE DEF numbered, base
  <2>12. /\ doc' \in Docs /\ doc'.draftRevision = numbered.draftRevision
         /\ doc'.revision = numbered.revision /\ doc'.current = n /\ doc'.base = base
    BY <2>9, <2>10, <2>11 DEF Docs, numbered
  <2>13. /\ doc.draftRevision < doc'.draftRevision
         /\ doc.draftRevision <= doc'.draftRevision /\ doc.revision <= doc'.revision
    BY <1>2, <2>8, <2>10, <2>12 DEF Docs
  <2>14. Onward /\ VersionsSound'
    <3>1. CASE milestone
      <4>1. AddsVersion(doc.base, v) /\ doc'.base = doc.current + 1 /\ v.kind = "milestone"
        BY <2>1, <2>3, <2>6, <2>7, <2>12, <3>1 DEF AddsVersion, base
      <4> QED
        BY <1>1, <1>2, <2>5, <2>7, <2>12, <2>13, <4>1, VersionGrows
    <3>2. CASE ~milestone
      <4>1. AddsVersion(0, v) /\ doc'.base = doc.base /\ v.kind = "recovery"
        BY <2>1, <2>3, <2>6, <2>7, <2>12, <3>2, NobodysHead
           DEF AddsVersion, base, DraftInvariant
      <4> QED
        BY <1>1, <1>2, <2>5, <2>7, <2>12, <2>13, <4>1, NobodysHead, VersionGrows
           DEF DraftInvariant
    <3> QED
      BY <3>1, <3>2
  <2>15. DraftKept
    BY <2>13 DEF DraftKept
  <2>16. ProposalsSound'
    BY <1>1, <1>2, <2>14, <2>15, ProposalsStay DEF DraftInvariant, ProposalsSound
  <2>17. RequestsSound'
    <3>1. CASE milestone
      BY <1>1, <1>2, <2>3, <2>14, <2>15, <3>1, RequestDone DEF DraftInvariant
    <3>2. CASE ~milestone
      <4>1. PICK new : new = [req[r] EXCEPT !.pc = "pruneRead", !.saved = n,
                                            !.rows = <<>>, !.doc = [current |-> 0]]
        OBVIOUS
      <4>2. req' = [req EXCEPT ![r] = new]
        BY <2>3, <3>2, <4>1 DEF DraftInvariant, RequestsSound, Idle
      <4>3. [current |-> 0] \in Docs \cup [current : Nat]
        OBVIOUS
      <4>4. /\ new \in RequestRows /\ new.pc = "pruneRead" /\ new.op = req[r].op
            /\ new.base = req[r].base /\ new.target = req[r].target
        BY <1>2, <2>5, <4>1, <4>3, NoFiles DEF RequestRows, Steps
      <4>5. new.target \in Nat /\ new.target <= doc.current
        BY <1>2, <4>4 DEF RequestSound, RequestRows
      <4>6. new.target <= doc'.current
        BY <2>5, <2>12, <4>5
      <4>7. new.op \in {"restore", "switch"} => Formal(new.base)'
        <5>1. new.op \in {"restore", "switch"} => Formal(new.base)
          BY <1>2, <4>4 DEF RequestSound
        <5>2. Visible(new.base) => new.base \in Numbers
          BY DEF Visible, LiveVersion
        <5> QED
          BY <2>14, <5>1, <5>2 DEF Formal, Onward
      <4>8. RequestSound(new)'
        BY <4>4, <4>6, <4>7 DEF RequestSound
      <4> QED
        BY <1>1, <1>2, <2>14, <2>15, <4>2, <4>8, RequestStep DEF DraftInvariant
    <3> QED
      BY <3>1, <3>2
  <2> QED
    BY <1>1, <1>2, <2>12, <2>14, <2>16, <2>17 DEF DraftInvariant, DraftRows
<1> QED
  BY <1>3, <1>4

(* Prune and pin relabel versions without touching the tree.               *)
LEMMA Relabelled ==
  ASSUME DraftInvariant, UNCHANGED <<files, doc, proposals>>,
         versions' \in [1 .. doc.current -> VersionRows],
         \A n \in Numbers : /\ versions'[n].parent = versions[n].parent
                            /\ versions'[n].kind = versions[n].kind
                            /\ versions'[n].head = versions[n].head
                            /\ Visible(n) => versions'[n].live
  PROVE  Onward /\ DraftKept /\ VersionsSound' /\ ProposalsSound' /\ doc \in Docs
<1>1. doc \in Docs /\ files \in [Paths -> Rows]
  BY DEF DraftInvariant, DraftRows
<1>2. Numbers = 1 .. doc.current /\ Numbers' = Numbers
  BY DEF DraftInvariant, VersionsSound, Numbers
<1>3. \A n : Visible(n) => Visible(n)'
  BY <1>2 DEF Visible, LiveVersion
<1>4. Onward
  BY <1>1, <1>2, <1>3 DEF Onward, Docs
<1>5. DraftKept
  BY DEF DraftKept, Draft
<1>6. HeadsAreTips'
  BY <1>2 DEF DraftInvariant, VersionsSound, HeadsAreTips
<1>7. BaseIsFormal'
  <2>1. PICK b : b = doc.base
    OBVIOUS
  <2>2. b # 0 => Visible(b)'
    BY <1>3, <2>1 DEF DraftInvariant, VersionsSound, BaseIsFormal
  <2> QED
    BY <2>1, <2>2 DEF BaseIsFormal, Visible, LiveVersion
<1>8. VersionsSound'
  BY <1>2, <1>6, <1>7 DEF DraftInvariant, VersionsSound
<1>9. ProposalsSound'
  BY <1>1, <1>4, <1>5, ProposalsStay DEF DraftInvariant, ProposalsSound
<1> QED
  BY <1>1, <1>4, <1>5, <1>8, <1>9

LEMMA PruneStep ==
  ASSUME DraftInvariant, NEW r \in Requests, Prune(r)
  PROVE  DraftInvariant'
<1>1. UNCHANGED <<files, doc, lock, proposals, calls>> /\ req[r].pc = "prune"
      /\ Leave(r, AfterPrune(r))
  BY DEF Prune, At
<1>2. \A n \in req[r].stale : n \in Numbers /\ versions[n].kind = "recovery"
  BY <1>1 DEF DraftInvariant, RequestsSound, RequestSound
<1>3. Numbers = 1 .. doc.current /\ \A n \in Numbers : versions[n] \in VersionRows
  BY DEF DraftInvariant, VersionsSound, Numbers
<1>4. \A row \in VersionRows : /\ [row EXCEPT !.live = FALSE] \in VersionRows
                               /\ [row EXCEPT !.live = FALSE].parent = row.parent
                               /\ [row EXCEPT !.live = FALSE].kind = row.kind
                               /\ [row EXCEPT !.live = FALSE].head = row.head
  BY DEF VersionRows
<1>5. versions' = [n \in Numbers |-> IF n \in req[r].stale
                                       THEN [versions[n] EXCEPT !.live = FALSE]
                                       ELSE versions[n]]
  BY DEF Prune
<1>6. versions' \in [1 .. doc.current -> VersionRows]
  BY <1>3, <1>4, <1>5
<1>7. \A n \in Numbers : /\ versions'[n].parent = versions[n].parent
                         /\ versions'[n].kind = versions[n].kind
                         /\ versions'[n].head = versions[n].head
                         /\ Visible(n) => versions'[n].live
  BY <1>2, <1>3, <1>4, <1>5 DEF Visible, LiveVersion
<1>8. Onward /\ DraftKept /\ VersionsSound' /\ ProposalsSound' /\ doc \in Docs
  BY <1>1, <1>6, <1>7, Relabelled
<1>9. RequestsSound'
  BY <1>1, <1>8, LeaveGoes DEF DraftInvariant
<1> QED
  BY <1>1, <1>8, <1>9 DEF DraftInvariant, DraftRows

LEMMA LabelPinnedStep ==
  ASSUME DraftInvariant, NEW r \in Requests, LabelPinned(r)
  PROVE  DraftInvariant'
<1>1. UNCHANGED <<files, doc, lock, proposals, calls>> /\ req[r].pc = "label"
      /\ Goto(r, "pruneRead")
  BY DEF LabelPinned, At
<1>2. Numbers = 1 .. doc.current /\ \A n \in Numbers : versions[n] \in VersionRows
  BY DEF DraftInvariant, VersionsSound, Numbers
<1> DEFINE t == req[r].target
<1>3. PICK pinned : /\ t \in Numbers => pinned \in BOOLEAN
                    /\ versions' = [versions EXCEPT ![t].pinned = pinned]
  <2> DEFINE pinned == IF req[r].op = "pin" /\ ~req[r].primary THEN TRUE
                       ELSE IF req[r].op = "unpin" /\ req[r].primary THEN FALSE
                       ELSE versions[t].pinned
  <2>1. t \in Numbers => pinned \in BOOLEAN
    BY <1>2 DEF VersionRows
  <2>2. versions' = [versions EXCEPT ![t].pinned = pinned]
    BY DEF LabelPinned
  <2> QED
    BY <2>1, <2>2
<1>4. ASSUME NEW row \in VersionRows, pinned \in BOOLEAN
      PROVE  /\ [row EXCEPT !.pinned = pinned] \in VersionRows
             /\ [row EXCEPT !.pinned = pinned].parent = row.parent
             /\ [row EXCEPT !.pinned = pinned].kind = row.kind
             /\ [row EXCEPT !.pinned = pinned].head = row.head
             /\ [row EXCEPT !.pinned = pinned].live = row.live
  BY <1>4 DEF VersionRows
<1>5. /\ versions' = [n \in Numbers |-> versions'[n]]
      /\ \A n \in Numbers : versions'[n] = IF n = t THEN [versions[n] EXCEPT !.pinned = pinned]
                                           ELSE versions[n]
  BY <1>3 DEF DraftInvariant, VersionsSound, Numbers
<1>6. \A n \in Numbers : /\ versions'[n] \in VersionRows
                         /\ versions'[n].parent = versions[n].parent
                         /\ versions'[n].kind = versions[n].kind
                         /\ versions'[n].head = versions[n].head
                         /\ versions'[n].live = versions[n].live
  BY <1>2, <1>3, <1>4, <1>5
<1>7. versions' \in [1 .. doc.current -> VersionRows]
  BY <1>2, <1>5, <1>6
<1>8. \A n \in Numbers : Visible(n) => versions'[n].live
  BY <1>6 DEF Visible, LiveVersion
<1>9. Onward /\ DraftKept /\ VersionsSound' /\ ProposalsSound' /\ doc \in Docs
  BY <1>1, <1>6, <1>7, <1>8, Relabelled
<1>10. RequestsSound'
  BY <1>1, <1>9, RequestGoes DEF DraftInvariant, Steps
<1> QED
  BY <1>1, <1>9, <1>10 DEF DraftInvariant, DraftRows

LEMMA BranchStep ==
  ASSUME DraftInvariant, NEW r \in Requests, Branch(r)
  PROVE  DraftInvariant'
<1>1. UNCHANGED <<files, lock, proposals, calls>> /\ req[r].pc = "branch"
  BY DEF Branch, At
<1>2. req[r] \in RequestRows /\ RequestSound(req[r]) /\ doc \in Docs
      /\ files \in [Paths -> Rows]
  BY DEF DraftInvariant, DraftRows, RequestsSound, RequestSound
<1>3. CASE UNCHANGED <<versions, doc>> /\ Done(r)
  <2>1. Onward /\ DraftKept /\ VersionsSound' /\ ProposalsSound'
    BY <1>1, <1>3, QuietRows
  <2>2. RequestsSound'
    BY <1>1, <1>2, <1>3, <2>1, RequestDone DEF DraftInvariant
  <2> QED
    BY <1>1, <1>3, <2>1, <2>2 DEF DraftInvariant, DraftRows
<1>4. CASE ~(UNCHANGED <<versions, doc>> /\ Done(r))
  <2>1. doc.current \in Nat /\ Numbers = 1 .. doc.current /\ doc.base <= doc.current
        /\ doc.base \in Nat
    BY BaseNumber DEF DraftInvariant, VersionsSound, Numbers
  <2>2. req[r].doc.current = doc.current
    <3>1. req[r].doc.current + 1 \notin Numbers
      BY <1>4 DEF Branch
    <3>2. req[r].doc.current \in Nat /\ req[r].doc.current <= doc.current
      BY <1>1, <1>2 DEF RequestSound
    <3> QED
      BY <2>1, <3>1, <3>2
  <2>3. PICK n \in Nat : n = doc.current + 1
    BY <2>1
  <2>4. /\ versions' = WithVersion(NoLongerHead(req[r].target), n,
                                   NewVersion(req[r].snapshot, "milestone", req[r].target))
        /\ doc' = [doc EXCEPT !.current = n, !.revision = @ + 1]
        /\ req' = [req EXCEPT ![r].pc = "draft", ![r].base = n, ![r].doc = Idle.doc]
    BY <1>4, <2>2, <2>3 DEF Branch
  <2>5. req[r].target \in Nat /\ req[r].target <= doc.current
        /\ req[r].snapshot \in Snapshots
    BY <1>2 DEF RequestSound, RequestRows
  <2>6. PICK v : v = NewVersion(req[r].snapshot, "milestone", req[r].target)
    OBVIOUS
  <2>7. /\ v \in VersionRows /\ v.parent = req[r].target /\ v.live
        /\ v.kind = "milestone" /\ v.head
    BY <2>5, <2>6, NewVersionTyped
  <2> DEFINE numbered == [doc EXCEPT !.current = n]
  <2>8. /\ numbered \in Docs /\ numbered.draftRevision = doc.draftRevision
        /\ numbered.revision = doc.revision /\ numbered.current = n
        /\ numbered.base = doc.base
    BY <1>2 DEF Docs
  <2>9. doc' = [numbered EXCEPT !.revision = @ + 1]
    BY <1>2, <2>4 DEF Docs
  <2> HIDE DEF numbered
  <2>10. /\ doc' \in Docs /\ doc'.draftRevision = doc.draftRevision
         /\ doc'.revision = doc.revision + 1 /\ doc'.current = n /\ doc'.base = doc.base
    BY <2>8, <2>9 DEF Docs
  <2>11. /\ doc.draftRevision <= doc'.draftRevision /\ doc.revision <= doc'.revision
         /\ doc.current <= doc'.current
    BY <1>2, <2>1, <2>3, <2>10 DEF Docs
  <2>12. AddsVersion(req[r].target, v)
    BY <2>3, <2>4, <2>6 DEF AddsVersion
  <2>13. Onward /\ VersionsSound'
    BY <1>1, <1>2, <2>3, <2>5, <2>7, <2>10, <2>11, <2>12, VersionGrows
  <2>14. DraftKept
    BY <1>1 DEF DraftKept, Draft
  <2>15. ProposalsSound'
    BY <1>1, <1>2, <2>13, <2>14, ProposalsStay DEF DraftInvariant, ProposalsSound
  <2>16. Visible(n)'
    <3>1. versions'[n] = v /\ n \in Numbers'
      BY <1>2, <2>3, <2>5, <2>7, <2>10, <2>12, VersionAdded DEF DraftInvariant
    <3> QED
      BY <2>7, <3>1 DEF Visible, LiveVersion
  <2>17. RequestsSound'
    <3>1. PICK new : new = [req[r] EXCEPT !.pc = "draft", !.base = n,
                                          !.doc = [current |-> 0]]
      OBVIOUS
    <3>2. req' = [req EXCEPT ![r] = new]
      BY <2>4, <3>1 DEF DraftInvariant, RequestsSound, Idle
    <3>3. [current |-> 0] \in Docs \cup [current : Nat]
      OBVIOUS
    <3>4. /\ new \in RequestRows /\ new.pc = "draft" /\ new.base = n
          /\ new.target = req[r].target
      BY <1>2, <3>1, <3>3 DEF RequestRows, Steps
    <3>5. new.target <= doc'.current
      BY <2>1, <2>3, <2>5, <2>10, <3>4
    <3>6. Formal(new.base)'
      BY <2>16, <3>4 DEF Formal
    <3>7. RequestSound(new)'
      BY <3>4, <3>5, <3>6 DEF RequestSound
    <3> QED
      BY <1>1, <1>2, <2>13, <2>14, <3>2, <3>7, RequestStep DEF DraftInvariant
  <2> QED
    BY <1>1, <1>2, <2>10, <2>13, <2>15, <2>17 DEF DraftInvariant, DraftRows
<1> QED
  BY <1>3, <1>4

(* Applying a proposal leaves rows of files and shows a content.           *)
LEMMA AppliedRows ==
  ASSUME DraftInvariant, NEW r \in Requests, NEW s \in Proposals, Apply(r, s)
  PROVE  \E c \in Contents : /\ files' \in [Paths -> Rows]
                            /\ doc' = WithCheckpoint(DocumentShows(doc, c))
<1>1. proposals[s].status = "pending"
  BY DEF Apply
<1>2. doc \in Docs /\ files \in [Paths -> Rows] /\ \A p \in Paths : files[p] \in Rows
  BY DEF DraftInvariant, DraftRows
<1>3. PICK m : m = proposals[s]
  OBVIOUS
<1>4. ProposalSound(m) /\ m \in ProposalRows
  BY <1>1, <1>3 DEF DraftInvariant, ProposalsSound, ProposalSound
<1>5. m.path \in Paths /\ m.next \in Contents
      /\ m.operation \in {"update", "delete", "create"}
  BY <1>4 DEF ProposalRows
<1>6. PICK rows \in [Paths -> Rows] : rows = Patched(m)
  <2>1. PICK row \in Rows : row = [Touch(files[m.path]) EXCEPT !.content = m.next]
    BY <1>2, <1>5, RowEdits
  <2>2. PICK gone \in Rows : gone = [Touch(files[m.path]) EXCEPT !.status = "deleted"]
    BY <1>2, <1>5, RowEdits
  <2>3. PICK made \in Rows : made = [status |-> "live", content |-> m.next,
                                     revision |-> 1, primary |-> FALSE]
    BY <1>5 DEF Rows
  <2>4. Patched(m) \in {[files EXCEPT ![m.path] = row], [files EXCEPT ![m.path] = gone],
                        [files EXCEPT ![m.path] = made]}
    BY <1>2, <1>5, <2>1, <2>2, <2>3 DEF Patched
  <2> QED
    BY <1>2, <2>4
<1> QED
  <2>1. CASE LiveIn(rows) = {}
    <3>1. files' = rows /\ doc' = WithCheckpoint(DocumentShows(doc, Initial))
      BY <1>3, <1>6, <2>1 DEF Apply
    <3> QED
      BY <3>1, DraftAssumption
  <2>2. CASE LiveIn(rows) # {}
    <3>1. PICK p \in Replacements(rows) :
            /\ \/ files' = rows
               \/ files' = [rows EXCEPT ![p] = [Touch(@) EXCEPT !.primary = TRUE]]
            /\ doc' = WithCheckpoint(DocumentShows(doc, rows[p].content))
      BY <1>3, <1>6, <2>2 DEF Apply
    <3>2. p \in Paths
      BY DEF Replacements, LiveIn
    <3>3. rows[p] \in Rows /\ rows[p].content \in Contents
      BY <3>2 DEF Rows
    <3>4. PICK primary \in Rows : primary = [Touch(rows[p]) EXCEPT !.primary = TRUE]
      BY <3>3, RowEdits
    <3>5. files' = rows \/ files' = [rows EXCEPT ![p] = primary]
      BY <3>1, <3>2, <3>4
    <3> QED
      BY <3>1, <3>3, <3>5
  <2> QED
    BY <2>1, <2>2

(* A proposal is applied: the draft before it becomes a recovery point.    *)
LEMMA ApplyStep ==
  ASSUME DraftInvariant, NEW r \in Requests, NEW s \in Proposals, Apply(r, s)
  PROVE  DraftInvariant'
<1>1. /\ UNCHANGED <<req, calls>> /\ lock' = [user |-> UserOf[r], live |-> TRUE]
      /\ proposals' = [proposals EXCEPT ![s].status = "applied"]
      /\ versions' = WithVersion(versions, doc.current + 1,
                                 NewVersion(Draft, "recovery", doc.base))
      /\ proposals[s].status = "pending"
  BY DEF Apply
<1>2. doc \in Docs /\ files \in [Paths -> Rows] /\ \A p \in Paths : files[p] \in Rows
  BY DEF DraftInvariant, DraftRows
<1>3. PICK m : m = proposals[s]
  OBVIOUS
<1>4. ProposalSound(m) /\ m \in ProposalRows
  BY <1>1, <1>3 DEF DraftInvariant, ProposalsSound, ProposalSound
<1>5. PICK c \in Contents : /\ files' \in [Paths -> Rows]
                            /\ doc' = WithCheckpoint(DocumentShows(doc, c))
  BY AppliedRows
<1> DEFINE shows == DocumentShows(doc, c)
<1>6. /\ shows \in Docs /\ shows.draftRevision = doc.draftRevision + 1
      /\ shows.revision = doc.revision + 1 /\ shows.base = doc.base
      /\ shows.current = doc.current
  BY <1>2, DocTyped
<1> HIDE DEF shows
<1>7. doc' = [shows EXCEPT !.current = @ + 1]
  BY <1>5 DEF WithCheckpoint, shows
<1>8. /\ doc' \in Docs /\ doc'.draftRevision = shows.draftRevision
       /\ doc'.revision = shows.revision /\ doc'.base = shows.base
       /\ doc'.current = doc.current + 1
  BY <1>6, <1>7 DEF Docs
<1>9. /\ doc.draftRevision < doc'.draftRevision
       /\ doc.draftRevision <= doc'.draftRevision /\ doc.revision <= doc'.revision
  BY <1>2, <1>6, <1>8 DEF Docs
<1>10. PICK v : v = NewVersion(Draft, "recovery", doc.base)
  OBVIOUS
<1>11. /\ v \in VersionRows /\ v.parent = doc.base /\ v.live /\ v.kind = "recovery"
       /\ ~v.head /\ doc.base <= doc.current
  <2>1. Draft \in Snapshots
    BY <1>2, DraftTyped DEF Draft
  <2>2. doc.base \in Nat /\ doc.base <= doc.current
    BY BaseNumber
  <2> QED
    BY <1>10, <2>1, <2>2, NewVersionTyped
<1>12. AddsVersion(0, v) /\ 0 \notin Numbers
  BY <1>1, <1>10, NobodysHead DEF AddsVersion, DraftInvariant
<1>13. Onward /\ VersionsSound'
  BY <1>5, <1>6, <1>8, <1>9, <1>11, <1>12, VersionGrows
<1>14. DraftKept
  BY <1>9 DEF DraftKept
<1>15. RequestsSound'
  BY <1>1, <1>2, <1>13, <1>14, RequestsStay DEF DraftInvariant
<1>16. /\ DOMAIN proposals' = Proposals
       /\ proposals' = [t \in Proposals |-> proposals'[t]]
       /\ \A t \in Proposals : proposals'[t].status = "pending" =>
                               proposals'[t] = proposals[t]
  <2>1. proposals'[s] = [m EXCEPT !.status = "applied"]
    BY <1>1, <1>3 DEF DraftInvariant, ProposalsSound
  <2>2. proposals'[s].status = "applied"
    BY <1>4, <2>1 DEF ProposalRows
  <2> QED
    BY <1>1, <2>2 DEF DraftInvariant, ProposalsSound
<1>17. ProposalsSound'
  BY <1>2, <1>13, <1>14, <1>16, ProposalsStay DEF DraftInvariant
<1>18. DraftRows'
  BY <1>1, <1>5, <1>8 DEF DraftInvariant, DraftRows, Users
<1> QED
  BY <1>13, <1>15, <1>17, <1>18 DEF DraftInvariant

-----------------------------------------------------------------------------
(* The invariant holds.                                                    *)
LEMMA DraftStarts ==
  ASSUME Init
  PROVE  DraftInvariant
<1>1. files \in [Paths -> Rows]
  BY DraftAssumption DEF Init, Rows, NoRow
<1>2. doc \in Docs /\ doc.current = 0 /\ doc.base = 0
  BY DraftAssumption DEF Init, Docs
<1>3. DraftRows
  <2>1. lock \in [user : Users \cup {NoUser}, live : BOOLEAN]
    BY DEF Init
  <2>2. calls \in 0 .. MaxCalls
    BY DraftAssumption DEF Init
  <2> QED
    BY <1>1, <1>2, <2>1, <2>2 DEF DraftRows
<1>4. versions = <<>> /\ Numbers = {} /\ 1 .. doc.current = {}
  BY <1>2 DEF Init, Numbers
<1>5. versions \in [{} -> VersionRows]
  BY <1>4
<1>6. VersionsSound
  BY <1>2, <1>4, <1>5 DEF VersionsSound, HeadsAreTips, BaseIsFormal
<1>7. Idle \in RequestRows /\ Idle.op = "none" /\ Idle.pc = "idle" /\ Idle.target = 0
  BY NoFiles, DraftAssumption DEF Idle, RequestRows, Steps
<1>8. RequestSound(Idle)
  BY <1>2, <1>7 DEF RequestSound
<1>9. RequestsSound
  BY <1>8 DEF Init, RequestsSound
<1>10. ProposalsSound
  BY DEF Init, ProposalsSound, NoProposal
<1> QED
  BY <1>3, <1>6, <1>9, <1>10 DEF DraftInvariant

LEMMA DraftStays ==
  ASSUME DraftInvariant, UNCHANGED vars
  PROVE  DraftInvariant'
<1>1. UNCHANGED <<files, doc, versions, lock, proposals, req, calls>>
  BY DEF vars
<1>2. Onward /\ DraftKept /\ VersionsSound' /\ ProposalsSound' /\ doc \in Docs
  BY <1>1, QuietRows
<1> QED
  BY <1>1, <1>2, RequestsStay DEF DraftInvariant, DraftRows

LEMMA DraftStep ==
  ASSUME DraftInvariant, [Next]_vars
  PROVE  DraftInvariant'
<1>1. ASSUME NEW r \in Requests,
             \/ Start(r) \/ Check(r) \/ Acquire(r)
             \/ ReadFile(r) \/ Edit(r) \/ SetPrimary(r) \/ Create(r) \/ Delete(r)
             \/ PatchRead(r) \/ PatchFile(r) \/ PatchDocument(r)
      PROVE  DraftInvariant'
  BY <1>1, StartStep, LockStep, ReadFileStep, EditStep, CreateStep, PatchReadStep,
     PatchFileStep, PatchDocumentStep
<1>2. ASSUME NEW r \in Requests,
             \/ ReadVersion(r) \/ ReadDocument(r) \/ ReadFiles(r) \/ CommitVersion(r)
             \/ PruneRead(r) \/ Prune(r) \/ CountPinned(r) \/ LabelPinned(r)
             \/ ReadNumber(r) \/ Branch(r) \/ ReadDraft(r) \/ Replace(r)
      PROVE  DraftInvariant'
  BY <1>2, ReadVersionStep, ReadDocumentStep, ReadFilesStep, CommitVersionStep,
     PruneReadStep, PruneStep, CountPinnedStep, LabelPinnedStep, BranchStep,
     ReadDraftStep, ReplaceStep
<1>3. ASSUME NEW s \in Proposals, NEW r \in Requests, Apply(r, s)
      PROVE  DraftInvariant'
  BY <1>3, ApplyStep
<1>4. ASSUME NEW s \in Proposals, NEW operation \in {"update", "delete", "create"},
             NEW p \in Paths, NEW c \in Contents, Propose(s, operation, p, c)
      PROVE  DraftInvariant'
  BY <1>4, ProposeStep
<1> QED
  BY <1>1, <1>2, <1>3, <1>4, LockExpiresStep, DiscardStep, DraftStays DEF Next

LEMMA DraftHolds ==
  ASSUME DraftInvariant
  PROVE  VersionsFormTree
<1>1. doc.current \in Nat /\ Numbers = 1 .. doc.current
  BY DEF DraftInvariant, DraftRows, VersionsSound, Numbers, Docs
<1>2. TypeOK
  <2>1. \A n \in Numbers : versions[n] \in VersionRows
    BY <1>1 DEF DraftInvariant, VersionsSound
  <2> QED
    BY <2>1 DEF DraftInvariant, DraftRows, RequestsSound, ProposalsSound, TypeOK, Rows,
                Docs, VersionRows
<1>3. CurrentIsNewest
  <2> DEFINE S == Numbers \cup {0}
  <2>1. doc.current \in S /\ \A n \in S : doc.current >= n /\ n \in Nat
    BY <1>1
  <2>2. \A x \in S : (\A n \in S : x >= n) => x = doc.current
    BY <1>1, <2>1
  <2> HIDE DEF S
  <2>3. (CHOOSE x \in S : \A n \in S : x >= n) = doc.current
    BY <2>1, <2>2
  <2> QED
    BY <2>3 DEF CurrentIsNewest, Max, S
<1> QED
  BY <1>2, <1>3 DEF DraftInvariant, VersionsSound, VersionsFormTree

(* A version a step adds is the draft, or of a branch.                     *)
LEMMA AddedIsDraft ==
  ASSUME DraftInvariant, [Next]_vars, NEW n \in DOMAIN versions' \ Numbers
  PROVE  \/ versions'[n].files = Draft
         \/ HalfPatched
         \/ \E r \in Requests : At(r, "branch") /\ ~At(r, "branch")'
<1>1. ASSUME NEW r \in Requests, CommitVersion(r)
      PROVE  versions'[n].files = Draft \/ HalfPatched
  <2>1. PICK vs, kind, read :
          /\ read = req[r].doc /\ DOMAIN vs = Numbers
          /\ versions' = WithVersion(vs, read.current + 1,
                                     NewVersion(req[r].rows, kind, read.base))
          /\ StillAsRead(read)
    BY <1>1 DEF CommitVersion, NoLongerHead, Numbers
  <2>2. versions'[n] = NewVersion(req[r].rows, kind, read.base)
    BY <2>1 DEF WithVersion
  <2>3. versions'[n].files = req[r].rows
    BY <2>2 DEF NewVersion
  <2>4. req[r].pc = "commit" /\ RequestSound(req[r])
    BY <1>1 DEF CommitVersion, At, DraftInvariant, RequestsSound
  <2>5. req[r].rows = Draft \/ HalfPatched
    BY <2>1, <2>4 DEF RequestSound, StillAsRead
  <2> QED
    BY <2>3, <2>5
<1>2. ASSUME NEW r \in Requests, Branch(r)
      PROVE  At(r, "branch") /\ ~At(r, "branch")'
  <2>1. req' = [req EXCEPT ![r].pc = "draft", ![r].base = req[r].doc.current + 1,
                           ![r].doc = Idle.doc]
    BY <1>2 DEF Branch, Numbers
  <2>2. req[r] \in RequestRows /\ DOMAIN req = Requests
    BY DEF DraftInvariant, RequestsSound, RequestSound
  <2>3. req'[r].pc = "draft"
    BY <2>1, <2>2 DEF RequestRows
  <2> QED
    BY <1>2, <2>3 DEF Branch, At
<1>3. ASSUME NEW r \in Requests, NEW s \in Proposals, Apply(r, s)
      PROVE  versions'[n].files = Draft
  <2>1. versions' = WithVersion(versions, doc.current + 1,
                                NewVersion(Draft, "recovery", doc.base))
    BY <1>3 DEF Apply
  <2>2. versions'[n] = NewVersion(Draft, "recovery", doc.base)
    BY <2>1 DEF WithVersion, Numbers
  <2> QED
    BY <2>2 DEF NewVersion
<1>4. ASSUME NEW r \in Requests,
             \/ Start(r) \/ Check(r) \/ Acquire(r)
             \/ ReadFile(r) \/ Edit(r) \/ SetPrimary(r) \/ Create(r) \/ Delete(r)
             \/ PatchRead(r) \/ PatchFile(r) \/ PatchDocument(r)
             \/ ReadVersion(r) \/ ReadDocument(r) \/ ReadFiles(r)
             \/ PruneRead(r) \/ CountPinned(r) \/ ReadNumber(r) \/ ReadDraft(r)
             \/ Replace(r)
      PROVE  versions' = versions
  <2>1. CASE Start(r)
    BY <2>1 DEF Start, Call
  <2>2. CASE ~Start(r)
    BY <1>4, <2>2 DEF Check, Acquire, ReadFile, Edit, SetPrimary, Create, Delete,
         PatchRead, PatchFile, PatchDocument, ReadVersion, ReadDocument, ReadFiles,
         PruneRead, CountPinned, ReadNumber, ReadDraft, Replace
  <2> QED
    BY <2>1, <2>2
<1>5. ASSUME NEW r \in Requests, Prune(r) \/ LabelPinned(r)
      PROVE  DOMAIN versions' = Numbers
  BY <1>5 DEF Prune, LabelPinned, Numbers
<1>6. ASSUME NEW s \in Proposals, NEW operation, NEW p, NEW c,
             Propose(s, operation, p, c) \/ Discard(s)
      PROVE  versions' = versions
  BY <1>6 DEF Propose, Discard
<1>7. LockExpires \/ UNCHANGED vars => versions' = versions
  BY DEF LockExpires, vars
<1> QED
  BY <1>1, <1>2, <1>3, <1>4, <1>5, <1>6, <1>7 DEF Next, Numbers

(* The step that applies a proposal finds the draft its author saw.        *)
LEMMA AppliedIsExact ==
  ASSUME DraftInvariant, [Next]_vars, NEW s \in Proposals,
         proposals[s].status = "pending", proposals'[s].status = "applied"
  PROVE  /\ AsSeen(proposals[s])
         /\ doc'.current \notin Numbers
         /\ versions'[doc'.current].files = Draft
<1>1. \E r \in Requests : Apply(r, s)
  <2>1. /\ DOMAIN proposals = Proposals
        /\ proposals = [t \in Proposals |-> proposals[t]]
    BY DEF DraftInvariant, ProposalsSound
  <2>2. ASSUME NEW t \in Proposals, NEW r \in Requests, Apply(r, t)
        PROVE  t = s
    <3>1. proposals' = [proposals EXCEPT ![t].status = "applied"]
      BY <2>2 DEF Apply
    <3> QED
      BY <2>1, <3>1
  <2>3. ASSUME NEW t \in Proposals, NEW operation, NEW p, NEW c,
               Propose(t, operation, p, c) \/ Discard(t)
        PROVE  FALSE
    <3>1. proposals'[s].status \in {"pending", "discarded"}
      <4>1. CASE Discard(t)
        BY <2>1, <4>1 DEF Discard
      <4>2. CASE Propose(t, operation, p, c)
        <5>1. t # s
          BY <4>2 DEF Propose
        <5> QED
          BY <2>1, <4>2, <5>1 DEF Propose
      <4> QED
        BY <2>3, <4>1, <4>2
    <3> QED
      BY <3>1
  <2>4. ASSUME NEW r \in Requests, PatchFile(r)
        PROVE  FALSE
    <3>1. proposals'[s] = [proposals[s] EXCEPT !.patched = @ \cup {req[r].path}]
      BY <2>4 DEF PatchFile
    <3>2. proposals[s] \in ProposalRows
      BY DEF DraftInvariant, ProposalsSound, ProposalSound
    <3>3. proposals'[s].status = "pending"
      BY <3>1, <3>2 DEF ProposalRows
    <3> QED
      BY <3>3
  <2>5. ASSUME NEW r \in Requests,
               \/ Start(r) \/ Check(r) \/ Acquire(r)
               \/ ReadFile(r) \/ Edit(r) \/ SetPrimary(r) \/ Create(r) \/ Delete(r)
               \/ PatchRead(r) \/ PatchDocument(r)
               \/ ReadVersion(r) \/ ReadDocument(r) \/ ReadFiles(r) \/ CommitVersion(r)
               \/ PruneRead(r) \/ Prune(r) \/ CountPinned(r) \/ LabelPinned(r)
               \/ ReadNumber(r) \/ Branch(r) \/ ReadDraft(r) \/ Replace(r)
        PROVE  FALSE
    <3>1. proposals' = proposals
      <4>1. CASE Start(r)
        BY <4>1 DEF Start, Call
      <4>2. CASE ~Start(r)
        BY <2>5, <4>2 DEF Check, Acquire, ReadFile, Edit, SetPrimary, Create, Delete,
             PatchRead, PatchDocument, ReadVersion, ReadDocument, ReadFiles,
             CommitVersion, PruneRead, Prune, CountPinned, LabelPinned, ReadNumber,
             Branch, ReadDraft, Replace
      <4> QED
        BY <4>1, <4>2
    <3> QED
      BY <3>1
  <2>6. LockExpires \/ UNCHANGED vars => FALSE
    BY DEF LockExpires, vars
  <2> QED
    BY <2>2, <2>3, <2>4, <2>5, <2>6 DEF Next
<1>2. PICK r \in Requests : Apply(r, s)
  BY <1>1
<1>3. ProposalSound(proposals[s]) /\ Fits(proposals[s])
  BY <1>2 DEF Apply, DraftInvariant, ProposalsSound
<1>4. AsSeen(proposals[s])
  <2>1. PICK m : m = proposals[s]
    OBVIOUS
  <2>2. ProposalSound(m) /\ Fits(m) /\ m \in ProposalRows
    BY <1>3, <2>1 DEF ProposalSound
  <2>3. ASSUME m.seen # <<>>
        PROVE  /\ DOMAIN Draft = DOMAIN m.seen
               /\ \A p \in DOMAIN Draft :
                    \/ Draft[p] = m.seen[p]
                    \/ p \in m.patched /\ Draft[p].primary = m.seen[p].primary
    BY <2>2, <2>3 DEF ProposalSound, Fits
  <2>4. ASSUME m.seen # <<>>, m.path \in DOMAIN Draft
        PROVE  Draft[m.path] = m.seen[m.path]
    <3>1. files \in [Paths -> Rows]
      BY DEF DraftInvariant, DraftRows
    <3>2. DOMAIN Draft = LiveIn(files) /\ Draft \in Snapshots
          /\ Draft[m.path] = [content |-> files[m.path].content,
                              primary |-> files[m.path].primary]
      BY <2>4, <3>1, DraftTyped DEF Draft
    <3>3. m.operation # "create"
      <4>1. files[m.path].status = "live"
        BY <2>4, <3>2 DEF LiveIn
      <4> QED
        BY <2>2, <4>1 DEF Fits, PreimageHolds
    <3>4. m.preimage = [revision |-> files[m.path].revision,
                        content |-> files[m.path].content]
      BY <2>2, <3>3 DEF Fits, PreimageHolds
    <3>5. m.seen[m.path].content = files[m.path].content
      BY <2>2, <3>3, <3>4 DEF ProposalSound
    <3>6. m.seen[m.path] \in StoredFile /\ Draft[m.path] \in StoredFile
      <4>1. m.seen \in Snapshots /\ DOMAIN Draft = DOMAIN m.seen
        BY <2>2, <2>3, <2>4 DEF ProposalRows
      <4> QED
        BY <2>4, <3>2, <4>1, SnapshotHas
    <3>7. Draft[m.path].primary = m.seen[m.path].primary
      BY <2>3, <2>4
    <3>8. Draft[m.path].content = m.seen[m.path].content
      BY <3>2, <3>5
    <3> QED
      BY <3>6, <3>7, <3>8 DEF StoredFile
  <2> HIDE DEF Draft
  <2> QED
    BY <2>1, <2>3, <2>4 DEF AsSeen
<1>5. doc'.current = doc.current + 1 /\ doc.current + 1 \notin Numbers
  <2>1. PICK c \in Contents : doc' = WithCheckpoint(DocumentShows(doc, c))
    BY <1>2, AppliedRows
  <2> DEFINE shows == DocumentShows(doc, c)
  <2>2. shows \in Docs /\ shows.current = doc.current
    BY DocTyped DEF DraftInvariant, DraftRows
  <2> HIDE DEF shows
  <2>3. doc' = [shows EXCEPT !.current = @ + 1]
    BY <2>1 DEF WithCheckpoint, shows
  <2>4. doc'.current = doc.current + 1
    BY <2>2, <2>3 DEF Docs
  <2>5. doc.current + 1 \notin Numbers
    BY <1>2 DEF Apply
  <2> QED
    BY <2>4, <2>5
<1>6. versions'[doc.current + 1].files = Draft
  <2>1. versions' = WithVersion(versions, doc.current + 1,
                                NewVersion(Draft, "recovery", doc.base))
    BY <1>2 DEF Apply
  <2>2. versions'[doc.current + 1] = NewVersion(Draft, "recovery", doc.base)
    BY <2>1 DEF WithVersion
  <2> QED
    BY <2>2 DEF NewVersion
<1> QED
  BY <1>4, <1>5, <1>6

-----------------------------------------------------------------------------
(* The draft, its versions and its proposals, for any number of requests,  *)
(* paths, proposals and calls.                                             *)

(* In every state of the draft DraftInvariant holds: the rows are typed,   *)
(* the versions are the numbers up to the document's, their parents are    *)
(* older, only milestones nobody continued are heads; what a request read  *)
(* is still so, or the document tells; and what a proposal saw is the      *)
(* draft as long as the revision it carries is the draft's.                *)
LEMMA DraftInvariantHolds == Spec => []DraftInvariant
<1>1. Init => DraftInvariant
  BY DraftStarts
<1>2. DraftInvariant /\ [Next]_vars => DraftInvariant'
  BY DraftStep
<1> QED
  BY <1>1, <1>2, PTL DEF Spec

(* Whatever sequences of awaits interleave, the document's version number  *)
(* is the newest version's, exactly the milestones nobody continued are    *)
(* heads, and the base of the draft is a milestone that was not deleted    *)
(* (createWorkspaceVersion, continueWorkspaceFromVersion, restore, switch, *)
(* prune and the apply of a proposal in the workspace's service).          *)
THEOREM DraftVersions == Spec => []VersionsFormTree
<1>1. DraftInvariant => VersionsFormTree
  BY DraftHolds
<1> QED
  BY <1>1, DraftInvariantHolds, PTL

(* createWorkspaceVersion reads the document and the files before the      *)
(* transaction that writes the version: its comparison of the document's   *)
(* revisions is enough for the version to hold the draft of that moment,   *)
(* but for a PATCH of the document between its two writes.                 *)
THEOREM VersionsAreDrafts == Spec => VersionIsDraft
<1>1. DraftInvariant /\ [Next]_vars =>
        [\A n \in DOMAIN versions' \ Numbers :
           \/ versions'[n].files = Draft
           \/ HalfPatched
           \/ \E r \in Requests : At(r, "branch") /\ ~At(r, "branch")']_vars
  BY AddedIsDraft
<1> QED
  BY <1>1, DraftInvariantHolds, PTL DEF Spec, VersionIsDraft

(* The revision and the preimage applyStagedChangeSetInTransaction         *)
(* compares are enough for a proposal to change only the draft its author  *)
(* saw, and the recovery point it writes is that draft.                    *)
THEOREM AppliesAreExact == Spec => ApplyIsExact
<1>1. DraftInvariant /\ [Next]_vars =>
        [\A s \in Proposals :
           proposals[s].status = "pending" /\ proposals'[s].status = "applied" =>
             /\ AsSeen(proposals[s])
             /\ doc'.current \notin Numbers
             /\ versions'[doc'.current].files = Draft]_vars
  BY AppliedIsExact
<1> QED
  BY <1>1, DraftInvariantHolds, PTL DEF Spec, ApplyIsExact

-----------------------------------------------------------------------------
(* The two instances of the runs, with what is proved of them.  The        *)
(* definitions are the same, once instanced with their proofs and once     *)
(* without.                                                                *)
P == INSTANCE WorkspaceRunProofs WITH
  Previews <- {p1, p2}, Commands <- {}, Saves <- {}, Stops <- {t1},
  Lists <- {l1}, MaxCrashes <- 1

M == INSTANCE WorkspaceRunProofs WITH
  Previews <- {p1}, Commands <- {k1}, Saves <- {s1}, Stops <- {},
  Lists <- {}, MaxCrashes <- 1

LEMMA ProcessesAssumption == Processes!RequestsAssumption => P!RequestsAssumption
BY Zenon
  DEF P!RequestsAssumption, P!Runs, P!Calls, P!IsFiniteSet,
      Processes!RequestsAssumption, Processes!Runs, Processes!Calls,
      Processes!IsFiniteSet

LEMMA ProcessesInit == Processes!Init => P!Init
BY Zenon
  DEF P!Init, P!Runs, P!Calls, Processes!Init, Processes!Runs,
      Processes!Calls

LEMMA ProcessesNext == Processes!Next => P!Next
BY Zenon
  DEF P!Next, P!Serve, P!Start, P!FindActive, P!Kill, P!MarkStopped,
      P!Stopped, P!BeginCommand, P!Save, P!Enqueue, P!ReadFiles,
      P!EmptyMirror, P!WriteMirror, P!MirrorFails, P!Probe, P!MarkStale,
      P!NoTarget, P!CreateRun, P!Spawn, P!MarkRunning, P!MarkRunningFails,
      P!Track, P!ChildExits, P!RecordExit, P!Crash, P!ActivePreviews,
      P!Active, P!Ended, P!Over, P!Files, P!Dequeue, P!Untracked, P!Runs,
      P!Calls, P!At, P!Move, P!process, P!disk, Processes!Next,
      Processes!Serve, Processes!Start, Processes!FindActive,
      Processes!Kill, Processes!MarkStopped, Processes!Stopped,
      Processes!BeginCommand, Processes!Save, Processes!Enqueue,
      Processes!ReadFiles, Processes!EmptyMirror, Processes!WriteMirror,
      Processes!MirrorFails, Processes!Probe, Processes!MarkStale,
      Processes!NoTarget, Processes!CreateRun, Processes!Spawn,
      Processes!MarkRunning, Processes!MarkRunningFails, Processes!Track,
      Processes!ChildExits, Processes!RecordExit, Processes!Crash,
      Processes!ActivePreviews, Processes!Active, Processes!Ended,
      Processes!Over, Processes!Files, Processes!Dequeue,
      Processes!Untracked, Processes!Runs, Processes!Calls, Processes!At,
      Processes!Move, Processes!process, Processes!disk

LEMMA ProcessesCounts == ASSUME NEW S PROVE P!Cardinality(S) = Processes!Cardinality(S)
BY Zenon
  DEF P!Cardinality, Processes!Cardinality

LEMMA ProcessesTypes == P!TypeOK => Processes!TypeOK
BY ProcessesCounts, Zenon
  DEF P!TypeOK, P!RequestRecords, P!Active, P!Ended, P!Over, P!Sources,
      P!Drafts, P!Runs, P!Calls, Processes!TypeOK,
      Processes!RequestRecords, Processes!Active, Processes!Ended,
      Processes!Over, Processes!Sources, Processes!Drafts, Processes!Runs,
      Processes!Calls

LEMMA ProcessesSound == P!NoOrphanProcess => Processes!NoOrphanProcess
BY Zenon
  DEF P!NoOrphanProcess, P!Runs, Processes!NoOrphanProcess, Processes!Runs

LEMMA MirrorAssumption == Mirror!RequestsAssumption => M!RequestsAssumption
BY Zenon
  DEF M!RequestsAssumption, M!Runs, M!Calls, M!IsFiniteSet,
      Mirror!RequestsAssumption, Mirror!Runs, Mirror!Calls,
      Mirror!IsFiniteSet

LEMMA MirrorInit == Mirror!Init => M!Init
BY Zenon
  DEF M!Init, M!Runs, M!Calls, Mirror!Init, Mirror!Runs, Mirror!Calls

LEMMA MirrorNext == Mirror!Next => M!Next
BY Zenon
  DEF M!Next, M!Serve, M!Start, M!FindActive, M!Kill, M!MarkStopped,
      M!Stopped, M!BeginCommand, M!Save, M!Enqueue, M!ReadFiles,
      M!EmptyMirror, M!WriteMirror, M!MirrorFails, M!Probe, M!MarkStale,
      M!NoTarget, M!CreateRun, M!Spawn, M!MarkRunning, M!MarkRunningFails,
      M!Track, M!ChildExits, M!RecordExit, M!Crash, M!ActivePreviews,
      M!Active, M!Ended, M!Over, M!Files, M!Dequeue, M!Untracked, M!Runs,
      M!Calls, M!At, M!Move, M!process, M!disk, Mirror!Next, Mirror!Serve,
      Mirror!Start, Mirror!FindActive, Mirror!Kill, Mirror!MarkStopped,
      Mirror!Stopped, Mirror!BeginCommand, Mirror!Save, Mirror!Enqueue,
      Mirror!ReadFiles, Mirror!EmptyMirror, Mirror!WriteMirror,
      Mirror!MirrorFails, Mirror!Probe, Mirror!MarkStale, Mirror!NoTarget,
      Mirror!CreateRun, Mirror!Spawn, Mirror!MarkRunning,
      Mirror!MarkRunningFails, Mirror!Track, Mirror!ChildExits,
      Mirror!RecordExit, Mirror!Crash, Mirror!ActivePreviews,
      Mirror!Active, Mirror!Ended, Mirror!Over, Mirror!Files,
      Mirror!Dequeue, Mirror!Untracked, Mirror!Runs, Mirror!Calls,
      Mirror!At, Mirror!Move, Mirror!process, Mirror!disk

LEMMA MirrorCounts == ASSUME NEW S PROVE M!Cardinality(S) = Mirror!Cardinality(S)
BY Zenon
  DEF M!Cardinality, Mirror!Cardinality

LEMMA MirrorTypes == M!TypeOK => Mirror!TypeOK
BY MirrorCounts, Zenon
  DEF M!TypeOK, M!RequestRecords, M!Active, M!Ended, M!Over, M!Sources,
      M!Drafts, M!Runs, M!Calls, Mirror!TypeOK, Mirror!RequestRecords,
      Mirror!Active, Mirror!Ended, Mirror!Over, Mirror!Sources,
      Mirror!Drafts, Mirror!Runs, Mirror!Calls

LEMMA MirrorCurrent == M!MirrorIsCurrent => Mirror!MirrorIsCurrent
BY MirrorCounts, Zenon
  DEF M!MirrorIsCurrent, M!Runs, M!Calls, Mirror!MirrorIsCurrent,
      Mirror!Runs, Mirror!Calls


(* The part of a behaviour keeps the invariant of its instance.            *)
RunsInvariant ==
  /\ part \in {"draft", "processes", "mirror"}
  /\ part = "processes" => P!RunsInvariant
  /\ part = "mirror" => M!RunsInvariant

LEMMA RunsKept ==
  ASSUME RunsInvariant, [WorkspaceNext]_<<part, vars, runVars>>
  PROVE  RunsInvariant'
<1>1. part' = part
  BY DEF WorkspaceNext
<1>2. ASSUME part = "processes"
      PROVE  P!RunsInvariant'
  <2>1. [Processes!Next]_runVars
    BY <1>2 DEF WorkspaceNext
  <2>2. [P!Next]_runVars
    BY <2>1, ProcessesNext
  <2>3. P!RequestsAssumption
    BY ProcessesAssumption, WorkspaceAssumption
  <2> QED
    BY <1>2, <2>2, <2>3, P!RunsStep DEF RunsInvariant, P!vars, runVars
<1>3. ASSUME part = "mirror"
      PROVE  M!RunsInvariant'
  <2>1. [Mirror!Next]_runVars
    BY <1>3 DEF WorkspaceNext
  <2>2. [M!Next]_runVars
    BY <2>1, MirrorNext
  <2>3. M!RequestsAssumption
    BY MirrorAssumption, WorkspaceAssumption
  <2> QED
    BY <1>3, <2>2, <2>3, M!RunsStep DEF RunsInvariant, M!vars, runVars
<1> QED
  BY <1>1, <1>2, <1>3 DEF RunsInvariant

(* In every behaviour of the run Workspace the processes are all within    *)
(* reach and the mirror is of one request and current in the end: the two  *)
(* parts that concern the runs are instances for which this is proved for  *)
(* any requests.                                                           *)
THEOREM WorkspaceRunsSound == WorkspaceSpec => []RunsSound
<1>1. WorkspaceInit => RunsInvariant
  <2>1. ASSUME Processes!Init
        PROVE  P!RunsInvariant
    BY <2>1, ProcessesInit, ProcessesAssumption, WorkspaceAssumption, P!RunsStart
  <2>2. ASSUME Mirror!Init
        PROVE  M!RunsInvariant
    BY <2>2, MirrorInit, MirrorAssumption, WorkspaceAssumption, M!RunsStart
  <2> QED
    BY <2>1, <2>2 DEF WorkspaceInit, RunsInvariant
<1>2. RunsInvariant /\ [WorkspaceNext]_<<part, vars, runVars>> => RunsInvariant'
  BY RunsKept
<1>3. RunsInvariant => RunsSound
  <2>1. P!RunsInvariant => Processes!TypeOK /\ Processes!NoOrphanProcess
    BY P!RunsHold, ProcessesTypes, ProcessesSound
  <2>2. M!RunsInvariant => Mirror!TypeOK /\ Mirror!MirrorIsCurrent
    BY M!RunsHold, MirrorTypes, MirrorCurrent
  <2> QED
    BY <2>1, <2>2 DEF RunsInvariant, RunsSound
<1> QED
  BY <1>1, <1>2, <1>3, PTL DEF WorkspaceSpec
=============================================================================
