---------------------------- MODULE LocalConnection ----------------------------
(* The libSQL adapter of a local database: one connection per process, its   *)
(* queue of operations, the transaction that may hold it, and what happens   *)
(* when BEGIN, a statement, COMMIT, ROLLBACK or the cleanup after them fails.*)
(* Callers run one transaction or one statement and repeat it when the       *)
(* database was busy.  The processes share the write lock of the file.       *)
(* Abstracted: the statements (one write each) and what they read.           *)
EXTENDS Integers, Sequences, FiniteSets

CONSTANTS
  Connections,   \* connections to the file, one per process
  NoConnection,  \* the owner of a write lock that is free
  Callers,       \* commands that use a connection
  NoCaller,      \* no transaction
  Disposer,      \* the place of dispose() in the queue of a connection
  MaxTries,      \* retries of a command that found the database busy
  MaxErrors      \* bound on failures of the driver

(* What the parameters must be; the instances assume it.                   *)
ConnectionAssumption ==
  /\ NoConnection \notin Connections
  /\ NoCaller \notin Callers /\ Disposer \notin Callers
  /\ MaxTries \in Nat /\ MaxErrors \in Nat

VARIABLES
  call,     \* of each caller: where it is, its connection, its outcome
  tx,       \* of each caller: its transaction object and the operation on it
  lock,     \* of each connection: who holds it, and who waits, in order
  conn,     \* of each connection: state, initialized, transaction, dispose
  handle,   \* of each connection: the native handle
  writer,   \* the connection that holds the write lock of the file
  applied,  \* how often the write of a caller has been committed
  errors    \* failures of the driver so far

vars == <<call, tx, lock, conn, handle, writer, applied, errors>>

-----------------------------------------------------------------------------
FreshHandle == [open |-> FALSE, writes |-> {}, pragmas |-> FALSE,
                usable |-> TRUE]
NoTransaction == [state |-> "none", step |-> "none", by |-> "nobody",
                  error |-> "none"]
Failures == {"busy", "error"}

Init ==
  /\ call \in [Callers -> [pc: {"idle"}, kind: {"transaction", "statement"},
                           at: Connections, tries: {0}, outcome: {"none"}]]
  /\ tx = [c \in Callers |-> NoTransaction]
  /\ lock = [k \in Connections |-> <<>>]
  /\ conn = [k \in Connections |->
               [state |-> "open", initialized |-> FALSE, active |-> NoCaller,
                dispose |-> "none"]]
  /\ handle = [k \in Connections |-> FreshHandle]
  /\ writer = NoConnection
  /\ applied = [c \in Callers |-> 0]
  /\ errors = 0

At(c) == call[c].at
Goto(c, pc) == call' = [call EXCEPT ![c].pc = pc]
TxMoves(c, state, step, by, error) ==
  tx' = [tx EXCEPT ![c] =
          [state |-> state, step |-> step, by |-> by, error |-> error]]
TxGoto(c, step) == TxMoves(c, tx[c].state, step, tx[c].by, tx[c].error)
Holds(k, who) == lock[k] # <<>> /\ Head(lock[k]) = who
Release(k) == lock' = [lock EXCEPT ![k] = Tail(@)]

(* A command that found the database busy is repeated from its start; any   *)
(* other failure is its outcome.                                            *)
Answer(c, outcome) ==
  call' = [call EXCEPT ![c] =
    IF outcome = "busy" /\ @.tries < MaxTries
      THEN [@ EXCEPT !.pc = "idle", !.tries = call[c].tries + 1]
      ELSE [@ EXCEPT !.pc = "done", !.outcome = outcome]]

(* The driver fails for a reason of its own.                                *)
Fault == errors < MaxErrors /\ errors' = errors + 1
Refused(k) == ~handle[k].usable /\ errors' = errors

-----------------------------------------------------------------------------
(* The native handle.                                                       *)

FileFree(k) == writer \in {NoConnection, k}
UndoneHandle(k) == [handle[k] EXCEPT !.open = FALSE, !.writes = {}]
LeaveFile(k) == writer' = IF writer = k THEN NoConnection ELSE writer
Undo(k) == handle' = [handle EXCEPT ![k] = UndoneHandle(k)] /\ LeaveFile(k)

-----------------------------------------------------------------------------
(* Taking the connection: the queue, the pragmas, BEGIN IMMEDIATE.          *)

Enqueue(c) ==
  /\ call[c].pc = "idle"
  /\ lock' = [lock EXCEPT ![At(c)] = Append(@, c)]
  /\ tx' = [tx EXCEPT ![c] = NoTransaction]
  /\ Goto(c, "queued")
  /\ UNCHANGED <<conn, handle, writer, applied, errors>>

KeepsConnection(c, outcome) ==                           \* mutant of GiveUp
  /\ Answer(c, outcome)
  /\ UNCHANGED <<tx, lock, conn, handle, writer, applied>>

GiveUp(c, outcome) ==
  /\ Answer(c, outcome)
  /\ Release(At(c))
  /\ UNCHANGED <<tx, conn, handle, writer, applied>>

Ready(c) ==
  IF call[c].kind = "transaction" THEN "begin" ELSE "single"

Initialized(k) == conn[k].initialized

(* assertOpen, then the pragmas unless the handle has them.                 *)
Acquire(c) ==
  /\ call[c].pc = "queued" /\ Holds(At(c), c)
  /\ LET k == At(c) IN
     \/ /\ conn[k].state # "open"
        /\ GiveUp(c, "error") /\ errors' = errors
     \/ /\ conn[k].state = "open" /\ Initialized(k)
        /\ Goto(c, Ready(c))
        /\ UNCHANGED <<tx, lock, conn, handle, writer, applied, errors>>
     \/ /\ conn[k].state = "open" /\ ~Initialized(k) /\ handle[k].usable
        /\ handle' = [handle EXCEPT ![k].pragmas = TRUE]
        /\ conn' = [conn EXCEPT ![k].initialized = TRUE]
        /\ Goto(c, Ready(c))
        /\ UNCHANGED <<tx, lock, writer, applied, errors>>
     \/ /\ conn[k].state = "open" /\ ~Initialized(k)
        /\ Fault \/ Refused(k)
        /\ \E outcome \in Failures : GiveUp(c, outcome)

(* BEGIN waits for the file and reports that it is busy in the end.         *)
Begin(c) ==
  /\ call[c].pc = "begin"
  /\ LET k == At(c) IN
     \/ /\ conn[k].state # "open"
        /\ GiveUp(c, "error") /\ errors' = errors
     \/ /\ conn[k].state = "open" /\ handle[k].usable /\ ~handle[k].open
        /\ FileFree(k)
        /\ handle' = [handle EXCEPT ![k].open = TRUE]
        /\ writer' = k
        /\ Goto(c, "begun")
        /\ UNCHANGED <<tx, lock, conn, applied, errors>>
     \/ /\ conn[k].state = "open" /\ ~FileFree(k)
        /\ GiveUp(c, "busy") /\ errors' = errors
     \/ /\ conn[k].state = "open"
        /\ Fault \/ Refused(k) \/ (handle[k].open /\ errors' = errors)
        /\ GiveUp(c, "error")

(* The transaction object; dispose() that came during BEGIN cancels it.     *)
Begun(c) ==
  /\ call[c].pc = "begun"
  /\ LET k == At(c)
         cancelled == conn[k].state # "open" IN
     /\ conn' = [conn EXCEPT ![k].active = c]
     /\ IF cancelled THEN TxMoves(c, "terminating", "undo", "caller", "error")
                     ELSE TxMoves(c, "active", "none", "nobody", "none")
     /\ Goto(c, IF cancelled THEN "ending" ELSE "open")
  /\ UNCHANGED <<lock, handle, writer, applied, errors>>

(* A statement outside a transaction commits by itself, unless the handle   *)
(* has one open.                                                            *)
Single(c) ==
  /\ call[c].pc = "single"
  /\ LET k == At(c)
         joins == handle[k].open IN
     \/ /\ conn[k].state = "open" /\ handle[k].usable /\ FileFree(k)
        /\ handle' = IF joins THEN [handle EXCEPT ![k].writes = @ \cup {c}]
                              ELSE handle
        /\ applied' = IF joins THEN applied ELSE [applied EXCEPT ![c] = @ + 1]
        /\ Answer(c, "ok") /\ Release(k)
        /\ UNCHANGED <<tx, conn, writer, errors>>
     \/ /\ conn[k].state = "open" /\ ~FileFree(k)
        /\ GiveUp(c, "busy") /\ errors' = errors
     \/ /\ conn[k].state # "open"
        /\ GiveUp(c, "error") /\ errors' = errors
     \/ /\ conn[k].state = "open"
        /\ Fault \/ Refused(k)
        /\ GiveUp(c, "error")

-----------------------------------------------------------------------------
(* Operations on a transaction.  Its own lock lets one run at a time; a     *)
(* transaction that is closed refuses statements and ignores the rest.      *)

TxFree(c) == tx[c].by = "nobody"
Wrote(c) == c \in handle[At(c)].writes

Run(c, step, by) ==
  TxMoves(c, IF step = "statement" THEN tx[c].state ELSE "terminating",
          step, by, tx[c].error)

IssueStatement(c) ==
  /\ call[c].pc = "open" /\ TxFree(c)
  /\ ~Wrote(c)
  /\ IF tx[c].state = "closed"
       THEN Answer(c, "error") /\ tx' = tx
       ELSE Run(c, "statement", "caller") /\ UNCHANGED call
  /\ UNCHANGED <<lock, conn, handle, writer, applied, errors>>

IssueCommit(c) ==
  /\ call[c].pc = "open" /\ TxFree(c)
  /\ IF tx[c].state = "closed"
       THEN Answer(c, "ok") /\ tx' = tx
       ELSE Wrote(c) /\ Run(c, "commit", "caller") /\ Goto(c, "ending")
  /\ UNCHANGED <<lock, conn, handle, writer, applied, errors>>

(* The callback of the caller throws, or its time is over.                  *)
IssueRollback(c) ==
  /\ call[c].pc = "open" /\ TxFree(c)
  /\ IF tx[c].state = "closed"
       THEN Answer(c, "error") /\ tx' = tx
       ELSE /\ TxMoves(c, "terminating", "undo", "caller", "error")
            /\ Goto(c, "ending")
  /\ UNCHANGED <<lock, conn, handle, writer, applied, errors>>

Statement(c) ==
  /\ tx[c].step = "statement"
  /\ LET k == At(c) IN
     \/ /\ handle[k].usable
        /\ IF handle[k].open
             THEN /\ handle' = [handle EXCEPT ![k].writes = @ \cup {c}]
                  /\ applied' = applied
             ELSE /\ applied' = [applied EXCEPT ![c] = @ + 1]
                  /\ handle' = handle
        /\ TxMoves(c, tx[c].state, "none", "nobody", tx[c].error)
        /\ UNCHANGED <<call, writer, errors>>
     \/ /\ Fault \/ Refused(k)
        /\ TxMoves(c, "terminating", "undo", tx[c].by, "error")
        /\ Goto(c, "ending")
        /\ \/ UNCHANGED <<handle, writer>>
           \/ Undo(k)                      \* SQLite rolls back by itself
        /\ UNCHANGED applied
  /\ UNCHANGED <<lock, conn>>

Commit(c) ==
  /\ tx[c].step = "commit"
  /\ LET k == At(c) IN
     \/ /\ handle[k].usable /\ handle[k].open
        /\ applied' = [d \in Callers |->
             applied[d] + IF d \in handle[k].writes THEN 1 ELSE 0]
        /\ Undo(k)
        /\ TxGoto(c, "finish")
        /\ errors' = errors
     \/ /\ Fault \/ Refused(k) \/ (~handle[k].open /\ errors' = errors)
        /\ \E kind \in Failures :
             TxMoves(c, tx[c].state, "undoCommit", tx[c].by, kind)
        /\ \/ UNCHANGED <<handle, writer>>
           \/ Undo(k)
        /\ UNCHANGED applied
  /\ UNCHANGED <<call, lock, conn>>

FinishesFirst(c, failed) == "finish"                     \* mutant of AfterUndo

(* After a failed COMMIT the handle is replaced even when ROLLBACK worked.  *)
AfterUndo(c, failed) ==
  IF failed \/ tx[c].step = "undoCommit" THEN "recover" ELSE "finish"

Rollback(c) ==
  /\ tx[c].step \in {"undo", "undoCommit"}
  /\ LET k == At(c) IN
     \/ /\ handle[k].usable /\ handle[k].open
        /\ Undo(k)
        /\ TxGoto(c, AfterUndo(c, FALSE))
        /\ errors' = errors
     \/ /\ Fault \/ Refused(k) \/ (~handle[k].open /\ errors' = errors)
        /\ TxGoto(c, AfterUndo(c, TRUE))
        /\ UNCHANGED <<handle, writer>>
  /\ UNCHANGED <<call, lock, conn, applied>>

Forgotten(k) == conn' = [conn EXCEPT ![k].initialized = FALSE]

(* reconnect() closes the old handle whatever happens; the new one may fail *)
(* to open.                                                                 *)
Recover(c) ==
  /\ tx[c].step = "recover"
  /\ LET k == At(c) IN
     /\ \/ handle' = [handle EXCEPT ![k] = FreshHandle] /\ errors' = errors
        \/ /\ Fault
           /\ handle' = [handle EXCEPT ![k] =
                [FreshHandle EXCEPT !.usable = FALSE]]
     /\ LeaveFile(k)
     /\ Forgotten(k)
  /\ TxGoto(c, "finish")
  /\ UNCHANGED <<call, lock, applied>>

LastError(c) == IF tx[c].error = "none" THEN "ok" ELSE tx[c].error

Finish(c) ==
  /\ tx[c].step = "finish"
  /\ TxMoves(c, "closed", "none", "nobody", tx[c].error)
  /\ LET k == At(c) IN
     /\ Release(k)
     /\ conn' = [conn EXCEPT ![k].active = IF @ = c THEN NoCaller ELSE @]
  /\ IF tx[c].by = "caller" THEN Answer(c, LastError(c)) ELSE call' = call
  /\ UNCHANGED <<handle, writer, applied, errors>>

-----------------------------------------------------------------------------
(* dispose(): cancel the transaction, wait for the connection, close it.    *)

Dispose(k) ==
  /\ conn[k].state = "open"
  /\ conn' = [conn EXCEPT ![k] = [@ EXCEPT !.state = "disposing",
                !.dispose = IF conn[k].active = NoCaller THEN "enqueue"
                                   ELSE "cancel"]]
  /\ UNCHANGED <<call, tx, lock, handle, writer, applied, errors>>

CancelNeeded(k) == conn[k].active # NoCaller

DisposeCancels(k) ==
  /\ conn[k].dispose = "cancel"
  /\ \/ /\ CancelNeeded(k) /\ TxFree(conn[k].active)
        /\ Run(conn[k].active, "undo", "dispose")
     \/ ~CancelNeeded(k) /\ tx' = tx
  /\ conn' = [conn EXCEPT ![k].dispose = "enqueue"]
  /\ UNCHANGED <<call, lock, handle, writer, applied, errors>>

DisposeEnqueues(k) ==
  /\ conn[k].dispose = "enqueue"
  /\ ~\E c \in Callers : At(c) = k /\ tx[c].by = "dispose"
  /\ lock' = [lock EXCEPT ![k] = Append(@, Disposer)]
  /\ conn' = [conn EXCEPT ![k].dispose = "queued"]
  /\ UNCHANGED <<call, tx, handle, writer, applied, errors>>

DisposeCloses(k) ==
  /\ conn[k].dispose = "queued" /\ Holds(k, Disposer)
  /\ handle' = [handle EXCEPT ![k] = [FreshHandle EXCEPT !.usable = FALSE]]
  /\ LeaveFile(k)
  /\ conn' = [conn EXCEPT ![k] = [@ EXCEPT !.state = "disposed",
                                           !.dispose = "done"]]
  /\ Release(k)
  /\ UNCHANGED <<call, tx, applied, errors>>

-----------------------------------------------------------------------------
Transaction(c) ==
  \/ Statement(c) \/ Commit(c) \/ Rollback(c) \/ Recover(c) \/ Finish(c)
Issue(c) == IssueStatement(c) \/ IssueCommit(c) \/ IssueRollback(c)
Caller(c) ==
  \/ Enqueue(c) \/ Acquire(c) \/ Begin(c) \/ Begun(c) \/ Single(c)
  \/ Issue(c) \/ Transaction(c)
Disposal(k) == DisposeCancels(k) \/ DisposeEnqueues(k) \/ DisposeCloses(k)

Next ==
  \/ \E c \in Callers : Caller(c)
  \/ \E k \in Connections : Dispose(k) \/ Disposal(k)

Spec == Init /\ [][Next]_vars

(* Promises settle: the driver answers every call, Prisma ends a            *)
(* transaction whose time is over.                                          *)
FairSpec ==
  /\ Spec
  /\ \A c \in Callers : WF_vars(Caller(c))
  /\ \A k \in Connections : WF_vars(Disposal(k))

-----------------------------------------------------------------------------
TypeOK ==
  /\ call \in [Callers ->
       [pc: {"idle", "queued", "begin", "begun", "single", "open", "ending",
             "done"},
        kind: {"transaction", "statement"}, at: Connections,
        tries: 0 .. MaxTries, outcome: {"none", "ok"} \cup Failures]]
  /\ tx \in [Callers ->
       [state: {"none", "active", "terminating", "closed"},
        step: {"none", "statement", "commit", "undo", "undoCommit", "recover",
               "finish"},
        by: {"nobody", "caller", "dispose"}, error: {"none"} \cup Failures]]
  /\ lock \in [Connections -> Seq(Callers \cup {Disposer})]
  /\ conn \in [Connections ->
       [state: {"open", "disposing", "disposed"}, initialized: BOOLEAN,
        active: Callers \cup {NoCaller},
        dispose: {"none", "cancel", "enqueue", "queued", "done"}]]
  /\ handle \in [Connections ->
       [open: BOOLEAN, writes: SUBSET Callers, pragmas: BOOLEAN,
        usable: BOOLEAN]]
  /\ writer \in Connections \cup {NoConnection}
  /\ applied \in [Callers -> Nat]
  /\ errors \in 0 .. MaxErrors

(* A native transaction, and with it the write lock of the file, is only    *)
(* ever open while its caller holds the connection: no failure of BEGIN,    *)
(* COMMIT, ROLLBACK or dispose leaves one behind.                           *)
NoOrphanTransaction ==
  \A k \in Connections :
    handle[k].open \/ writer = k =>
      /\ lock[k] # <<>> /\ Head(lock[k]) \in Callers
      /\ call[Head(lock[k])].kind = "transaction"
      /\ handle[k].writes \subseteq {Head(lock[k])}

(* A command takes effect at most once over its retries: it took effect     *)
(* when it is told so, unless its connection was disposed under it, and it  *)
(* did not when it is told that it failed.                                  *)
AppliedIfTold ==
  \A c \in Callers :
    /\ applied[c] <= 1
    /\ call[c].outcome \in Failures \/ call[c].pc = "idle" => applied[c] = 0
    /\ call[c].outcome = "ok" /\ conn[At(c)].state = "open" => applied[c] = 1

(* Every handle that a statement runs on has its pragmas set: foreign keys  *)
(* are enforced again after a handle was replaced.                          *)
KeysEnforced ==
  \A c \in Callers :
    tx[c].step = "statement" \/ call[c].pc \in {"begin", "single"} =>
      handle[At(c)].pragmas \/ ~handle[At(c)].usable

(* Every command is answered, over busy files, failing cleanups and a       *)
(* dispose, and dispose ends.                                               *)
EveryCallAnswered == \A c \in Callers : <>(call[c].pc = "done")
DisposeEnds ==
  \A k \in Connections : [](conn[k].state = "disposing" =>
                              <>(conn[k].state = "disposed"))
=============================================================================
