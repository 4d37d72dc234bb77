---------------------------- MODULE KnowledgeDB ----------------------------
(***************************************************************************)
(* The embedded store's connection wrapper, KnowledgeDB (db.py), shared by *)
(* every embedded adapter of one process and driven by several threads:    *)
(* the event loop that runs the tools and the watcher's Timer threads.     *)
(* Several processes may open the same database file; SQLite's WAL mode    *)
(* lets one connection at a time hold the write lock.                      *)
(*                                                                         *)
(* A storage call is an operation: a fixed sequence of write statements.   *)
(*  - an operation of TxOps runs inside transaction(), possibly nested     *)
(*    (every mirrored mutation, import_rules, restore_rules, reconcile);   *)
(*  - an operation of PlainOps calls execute_write for each statement and  *)
(*    then commit(), taking the lock anew for each call (counter           *)
(*    increments, insert_relation, insert_session, insert_snapshot, ...).  *)
(* A write is the pair <<operation, position>>.                            *)
(***************************************************************************)
EXTENDS Integers, FiniteSets

CONSTANTS
    Procs,      \* processes, each with one shared connection
    Threads,    \* threads of those processes
    ProcOf,     \* the process of a thread
    TxOps,      \* operations run inside transaction()
    PlainOps,   \* operations that call execute_write ... commit
    Length,     \* number of write statements of an operation
    MaxDepth,   \* bound: nesting depth of transaction() blocks
    MaxFaults,  \* bound: readonly, constraint and application errors
    MaxCrashes, \* bound: process crashes
    NoThread, NoOp

Ops == TxOps \cup PlainOps

ASSUME ProcAssumption ==
    ProcOf \in [Threads -> Procs] /\ NoThread \notin Threads
ASSUME OpAssumption ==
    /\ TxOps \cap PlainOps = {}
    /\ NoOp \notin Ops
    /\ Length \in [Ops -> Nat \ {0}]
ASSUME BoundAssumption ==
    MaxDepth \in Nat \ {0} /\ MaxFaults \in Nat /\ MaxCrashes \in Nat

VARIABLES
    durable,  \* the writes committed to the database file
    pending,  \* per process: the writes of its connection's open transaction
    inTxn,    \* per process: the connection has an open (write) transaction
    holder,   \* per process: the thread that keeps _lock between two steps
    txDepth,  \* per process: _tx_depth
    pc,       \* per thread: where its call is
    op,       \* per thread: the operation it runs
    pos,      \* per thread: position of the next write statement
    seen,     \* per thread: the writes its last read returned
    outcome,  \* per operation: what its caller knows of it
    faults, crashes

vars == <<durable, pending, inTxn, holder, txDepth, pc, op, pos, seen,
          outcome, faults, crashes>>

dbVars == <<durable, pending, inTxn>>
lockVars == <<holder, txDepth>>

WritesOf(o) == {<<o, i>> : i \in 1..Length[o]}
AllWrites == UNION {WritesOf(o) : o \in Ops}

PC == {"idle", "plain", "retry", "tx", "unwind", "done", "raising"}
Outcome == {"none", "running", "ok", "failed", "crashed"}

TypeOK ==
    /\ durable \subseteq AllWrites
    /\ pending \in [Procs -> SUBSET AllWrites]
    /\ inTxn \in [Procs -> BOOLEAN]
    /\ holder \in [Procs -> Threads \cup {NoThread}]
    /\ txDepth \in [Procs -> Nat]
    /\ pc \in [Threads -> PC]
    /\ op \in [Threads -> Ops \cup {NoOp}]
    /\ pos \in [Threads -> Nat \ {0}]
    /\ seen \in [Threads -> SUBSET AllWrites]
    /\ outcome \in [Ops -> Outcome]
    /\ faults \in 0..MaxFaults
    /\ crashes \in 0..MaxCrashes

Init ==
    /\ durable = {}
    /\ pending = [p \in Procs |-> {}]
    /\ inTxn = [p \in Procs |-> FALSE]
    /\ holder = [p \in Procs |-> NoThread]
    /\ txDepth = [p \in Procs |-> 0]
    /\ pc = [t \in Threads |-> "idle"]
    /\ op = [t \in Threads |-> NoOp]
    /\ pos = [t \in Threads |-> 1]
    /\ seen = [t \in Threads |-> {}]
    /\ outcome = [o \in Ops |-> "none"]
    /\ faults = 0
    /\ crashes = 0

----------------------------------------------------------------------------
(* The lock, the write lock of the file, and the connection.               *)

\* The thread can take _lock: nobody keeps it, or the thread itself does.
LockFree(t) == holder[ProcOf[t]] = NoThread

\* Mutant: the file's write lock excludes nobody.
CanWriteAlways(p) == TRUE

\* SQLite lets the connection write: no other one has an open transaction.
CanWrite(p) == \A q \in Procs \ {p} : ~inTxn[q]

\* Every statement of the running operation has been executed.
Finished(t) == pos[t] > Length[op[t]]

Fault == faults < MaxFaults /\ faults' = faults + 1

\* The next statement succeeds on the process's connection.
ExecuteStatement(t) ==
    LET p == ProcOf[t] IN
    /\ ~Finished(t)
    /\ CanWrite(p)
    /\ pending' = [pending EXCEPT ![p] = @ \cup {<<op[t], pos[t]>>}]
    /\ inTxn' = [inTxn EXCEPT ![p] = TRUE]
    /\ pos' = [pos EXCEPT ![t] = @ + 1]
    /\ UNCHANGED durable

\* The connection loses what it had not committed: _reconnect closes it, or
\* it is rolled back.
DropPending(p) ==
    /\ pending' = [pending EXCEPT ![p] = {}]
    /\ inTxn' = [inTxn EXCEPT ![p] = FALSE]
    /\ UNCHANGED durable

\* The connection's open transaction, whoever wrote into it, becomes durable.
CommitPending(p) ==
    /\ durable' = durable \cup pending[p]
    /\ pending' = [pending EXCEPT ![p] = {}]
    /\ inTxn' = [inTxn EXCEPT ![p] = FALSE]

Goto(t, label) == pc' = [pc EXCEPT ![t] = label]

----------------------------------------------------------------------------
(* Calls outside transaction(): each execute_write and each commit takes   *)
(* the lock for itself, so each is one step that needs the lock free.      *)

Start(t, o) ==
    /\ pc[t] = "idle"
    /\ outcome[o] = "none"
    /\ op' = [op EXCEPT ![t] = o]
    /\ pos' = [pos EXCEPT ![t] = 1]
    /\ outcome' = [outcome EXCEPT ![o] = "running"]

StartPlain(t, o) ==
    /\ o \in PlainOps
    /\ Start(t, o)
    /\ Goto(t, "plain")
    /\ UNCHANGED <<dbVars, lockVars, seen, faults, crashes>>

\* Mutant: execute_write does not take _lock.
PlainWriteUnlocked(t) ==
    /\ pc[t] = "plain"
    /\ ExecuteStatement(t)
    /\ UNCHANGED <<lockVars, pc, op, seen, outcome, faults, crashes>>

PlainWrite(t) ==
    /\ pc[t] = "plain"
    /\ LockFree(t)
    /\ ExecuteStatement(t)
    /\ UNCHANGED <<lockVars, pc, op, seen, outcome, faults, crashes>>

\* "locked": another connection kept the write lock past busy_timeout.
\* "readonly": the connection went stale. Either way the wrapper reconnects,
\* dropping the connection's uncommitted writes, and keeps the lock to retry.
PlainWriteReconnects(t) ==
    LET p == ProcOf[t] IN
    /\ pc[t] = "plain"
    /\ LockFree(t)
    /\ ~Finished(t)
    /\ \/ ~CanWrite(p) /\ UNCHANGED faults
       \/ Fault
    /\ DropPending(p)
    /\ holder' = [holder EXCEPT ![p] = t]
    /\ Goto(t, "retry")
    /\ UNCHANGED <<txDepth, op, pos, seen, outcome, crashes>>

RetrySucceeds(t) ==
    /\ pc[t] = "retry"
    /\ ExecuteStatement(t)
    /\ holder' = [holder EXCEPT ![ProcOf[t]] = NoThread]
    /\ Goto(t, "plain")
    /\ UNCHANGED <<txDepth, op, seen, outcome, faults, crashes>>

\* Mutant: the retry waits for the write lock without a timeout.
RetryWaits(t) ==
    /\ pc[t] = "retry"
    /\ Fault
    /\ holder' = [holder EXCEPT ![ProcOf[t]] = NoThread]
    /\ Goto(t, "raising")
    /\ UNCHANGED <<dbVars, txDepth, op, pos, seen, outcome, crashes>>

RetryRaises(t) ==
    LET p == ProcOf[t] IN
    /\ pc[t] = "retry"
    /\ \/ ~CanWrite(p) /\ UNCHANGED faults
       \/ Fault
    /\ holder' = [holder EXCEPT ![p] = NoThread]
    /\ Goto(t, "raising")
    /\ UNCHANGED <<dbVars, txDepth, op, pos, seen, outcome, crashes>>

\* A constraint error (insert_relation on an existing edge): the statement
\* has opened the implicit transaction and the call leaves without commit
\* or rollback.
PlainWriteRejected(t) ==
    LET p == ProcOf[t] IN
    /\ pc[t] = "plain"
    /\ LockFree(t)
    /\ ~Finished(t)
    /\ CanWrite(p)
    /\ Fault
    /\ inTxn' = [inTxn EXCEPT ![p] = TRUE]
    /\ Goto(t, "raising")
    /\ UNCHANGED <<durable, pending, lockVars, op, pos, seen, outcome,
                   crashes>>

\* Mutant: commit does not take _lock.
PlainCommitUnlocked(t) ==
    /\ pc[t] = "plain"
    /\ Finished(t)
    /\ CommitPending(ProcOf[t])
    /\ Goto(t, "done")
    /\ UNCHANGED <<lockVars, op, pos, seen, outcome, faults, crashes>>

PlainCommit(t) ==
    /\ pc[t] = "plain"
    /\ LockFree(t)
    /\ Finished(t)
    /\ CommitPending(ProcOf[t])
    /\ Goto(t, "done")
    /\ UNCHANGED <<lockVars, op, pos, seen, outcome, faults, crashes>>

\* Mutant: commit swallows the error after it reconnected.
PlainCommitFailsSilently(t) ==
    /\ pc[t] = "plain"
    /\ LockFree(t)
    /\ Finished(t)
    /\ Fault
    /\ DropPending(ProcOf[t])
    /\ Goto(t, "done")
    /\ UNCHANGED <<lockVars, op, pos, seen, outcome, crashes>>

\* commit() on a stale connection: reconnect and re-raise.
PlainCommitFails(t) ==
    /\ pc[t] = "plain"
    /\ LockFree(t)
    /\ Finished(t)
    /\ inTxn[ProcOf[t]]
    /\ Fault
    /\ DropPending(ProcOf[t])
    /\ Goto(t, "raising")
    /\ UNCHANGED <<lockVars, op, pos, seen, outcome, crashes>>

----------------------------------------------------------------------------
(* transaction(): the lock is kept for the whole block.                    *)

EnterTransaction(t, o) ==
    LET p == ProcOf[t] IN
    /\ o \in TxOps
    /\ LockFree(t)
    /\ Start(t, o)
    /\ holder' = [holder EXCEPT ![p] = t]
    /\ txDepth' = [txDepth EXCEPT ![p] = @ + 1]
    /\ Goto(t, "tx")
    /\ UNCHANGED <<dbVars, seen, faults, crashes>>

EnterNested(t) ==
    LET p == ProcOf[t] IN
    /\ pc[t] = "tx"
    /\ ~Finished(t)
    /\ txDepth[p] < MaxDepth
    /\ txDepth' = [txDepth EXCEPT ![p] = @ + 1]
    /\ UNCHANGED <<dbVars, holder, pc, op, pos, seen, outcome, faults, crashes>>

\* Mutant: execute_write reconnects and retries inside a block too.
TxWriteReconnects(t) ==
    LET p == ProcOf[t] IN
    /\ pc[t] = "tx"
    /\ \/ ExecuteStatement(t) /\ UNCHANGED faults
       \/ /\ ~Finished(t) /\ Fault
          /\ pending' = [pending EXCEPT ![p] = {<<op[t], pos[t]>>}]
          /\ pos' = [pos EXCEPT ![t] = @ + 1]
          /\ UNCHANGED <<durable, inTxn>>
    /\ UNCHANGED <<lockVars, pc, op, seen, outcome, crashes>>

TxWrite(t) ==
    /\ pc[t] = "tx"
    /\ ExecuteStatement(t)
    /\ UNCHANGED <<lockVars, pc, op, seen, outcome, faults, crashes>>

\* The body raises: a lock timeout (no reconnect inside a block), a stale
\* connection or an application error, or a constraint error, which leaves
\* the implicit transaction open.
TxBodyRaises(t) ==
    LET p == ProcOf[t] IN
    /\ pc[t] = "tx"
    /\ \/ ~Finished(t) /\ ~CanWrite(p) /\ UNCHANGED <<inTxn, faults>>
       \/ Fault /\ UNCHANGED inTxn
       \/ ~Finished(t) /\ CanWrite(p) /\ Fault
          /\ inTxn' = [inTxn EXCEPT ![p] = TRUE]
    /\ Goto(t, "unwind")
    /\ UNCHANGED <<durable, pending, lockVars, op, pos, seen, outcome,
                   crashes>>

\* end_transaction of an inner block only decrements the depth, whether the
\* block returned or raised.
LeaveNested(t) ==
    LET p == ProcOf[t] IN
    /\ pc[t] \in {"tx", "unwind"}
    /\ txDepth[p] > 1
    /\ txDepth' = [txDepth EXCEPT ![p] = @ - 1]
    /\ UNCHANGED <<dbVars, holder, pc, op, pos, seen, outcome, faults, crashes>>

LeaveOutermost(t, label) ==
    LET p == ProcOf[t] IN
    /\ txDepth[p] = 1
    /\ txDepth' = [txDepth EXCEPT ![p] = 0]
    /\ holder' = [holder EXCEPT ![p] = NoThread]
    /\ Goto(t, label)

TxCommit(t) ==
    /\ pc[t] = "tx"
    /\ Finished(t)
    /\ LeaveOutermost(t, "done")
    /\ CommitPending(ProcOf[t])
    /\ UNCHANGED <<op, pos, seen, outcome, faults, crashes>>

\* Mutant: a failed commit of the block is reported as a success.
TxCommitFailsSilently(t) ==
    /\ pc[t] = "tx"
    /\ Finished(t)
    /\ Fault
    /\ LeaveOutermost(t, "done")
    /\ DropPending(ProcOf[t])
    /\ UNCHANGED <<op, pos, seen, outcome, crashes>>

TxCommitFails(t) ==
    /\ pc[t] = "tx"
    /\ Finished(t)
    /\ Fault
    /\ LeaveOutermost(t, "raising")
    /\ DropPending(ProcOf[t])
    /\ UNCHANGED <<op, pos, seen, outcome, crashes>>

TxRollback(t) ==
    /\ pc[t] = "unwind"
    /\ LeaveOutermost(t, "raising")
    /\ DropPending(ProcOf[t])
    /\ UNCHANGED <<op, pos, seen, outcome, faults, crashes>>

----------------------------------------------------------------------------
(* Returns, reads, crashes.                                                *)

\* The call hands its result, or its exception, to the caller.
Return(t) ==
    /\ pc[t] \in {"done", "raising"}
    /\ outcome' = [outcome EXCEPT ![op[t]] =
                      IF pc[t] = "done" THEN "ok" ELSE "failed"]
    /\ op' = [op EXCEPT ![t] = NoOp]
    /\ Goto(t, "idle")
    /\ UNCHANGED <<dbVars, lockVars, pos, seen, faults, crashes>>

\* Mutant: a read does not take _lock.
ReadUnlocked(t) ==
    /\ pc[t] = "idle"
    /\ seen' = [seen EXCEPT ![t] = durable \cup pending[ProcOf[t]]]
    /\ UNCHANGED <<dbVars, lockVars, pc, op, pos, outcome, faults, crashes>>

\* execute(): a read goes through the same connection, so it sees the file
\* and whatever that connection has not committed yet.
Read(t) ==
    /\ pc[t] = "idle"
    /\ LockFree(t)
    /\ seen' = [seen EXCEPT ![t] = durable \cup pending[ProcOf[t]]]
    /\ UNCHANGED <<dbVars, lockVars, pc, op, pos, outcome, faults, crashes>>

\* The process dies and is started again with a new connection.
Crash(p) ==
    LET dead == {t \in Threads : ProcOf[t] = p} IN
    /\ crashes < MaxCrashes
    /\ crashes' = crashes + 1
    /\ DropPending(p)
    /\ holder' = [holder EXCEPT ![p] = NoThread]
    /\ txDepth' = [txDepth EXCEPT ![p] = 0]
    /\ pc' = [t \in Threads |-> IF t \in dead THEN "idle" ELSE pc[t]]
    /\ op' = [t \in Threads |-> IF t \in dead THEN NoOp ELSE op[t]]
    /\ seen' = [t \in Threads |-> IF t \in dead THEN {} ELSE seen[t]]
    /\ outcome' = [o \in Ops |-> IF \E t \in dead : op[t] = o
                                 THEN "crashed" ELSE outcome[o]]
    /\ UNCHANGED <<pos, faults>>

PlainStep(t) ==
    \/ PlainWrite(t) \/ PlainWriteReconnects(t) \/ RetrySucceeds(t)
    \/ RetryRaises(t) \/ PlainWriteRejected(t)
    \/ PlainCommit(t) \/ PlainCommitFails(t)

TxStep(t) ==
    \/ EnterNested(t) \/ TxWrite(t) \/ TxBodyRaises(t) \/ LeaveNested(t)
    \/ TxCommit(t) \/ TxCommitFails(t) \/ TxRollback(t)

Next ==
    \/ \E t \in Threads :
          \/ \E o \in Ops : StartPlain(t, o) \/ EnterTransaction(t, o)
          \/ PlainStep(t) \/ TxStep(t) \/ Return(t) \/ Read(t)
    \/ \E p \in Procs : Crash(p)

Spec == Init /\ [][Next]_vars

\* A thread that runs a call keeps taking its steps: Python schedules every
\* runnable thread and a blocked statement times out after busy_timeout. The
\* body of a block executes its statements however it nests blocks around
\* them; it is never obliged to open one.
BodyProgress(t) == TxWrite(t) \/ TxBodyRaises(t)

CallProgress(t) ==
    \/ PlainStep(t) \/ Return(t) \/ LeaveNested(t)
    \/ TxCommit(t) \/ TxCommitFails(t) \/ TxRollback(t)

FairSpec ==
    /\ Spec
    /\ \A t \in Threads : WF_vars(BodyProgress(t)) /\ WF_vars(CallProgress(t))

----------------------------------------------------------------------------
(* What the wrapper promises.                                              *)

Running(o) == outcome[o] = "running"

\* A batch written inside transaction() is all in the file or not there at
\* all, whatever other threads, reconnects, nested blocks and crashes do.
TxAtomic == \A o \in TxOps : durable \cap WritesOf(o) \in {{}, WritesOf(o)}

\* What the caller of a batch is told is what the file holds: an
\* acknowledged batch is durable and stays so, one that raised left nothing.
TxHonest ==
    \A o \in TxOps :
        /\ outcome[o] = "ok" => WritesOf(o) \subseteq durable
        /\ outcome[o] = "failed" => WritesOf(o) \cap durable = {}

\* A thread never reads a part of another thread's open batch, nor a batch
\* that is rolled back later: reads wait for the lock the block keeps.
NoDirtyBatchRead ==
    \A t \in Threads, o \in TxOps :
        seen[t] \cap WritesOf(o) # {} => WritesOf(o) \subseteq durable

\* While a thread is inside a block, no step of another thread of its
\* process commits, drops or extends the connection's open transaction.
BlockIsolated ==
    [][\A t \in Threads :
          (pc[t] \in {"tx", "unwind"} /\ pc'[t] = pc[t] /\ pos'[t] = pos[t])
             => pending'[ProcOf[t]] = pending[ProcOf[t]]]_vars

\* The write lock of the file has one owner, and uncommitted writes exist
\* only on the connection that owns it.
OneWriter ==
    /\ \A p, q \in Procs : inTxn[p] /\ inTxn[q] => p = q
    /\ \A p \in Procs : pending[p] # {} => inTxn[p]

\* Every call returns, with a result or an exception, unless its process
\* crashes: no lock, retry or left-over transaction blocks it forever.
EveryCallReturns == \A o \in Ops : Running(o) ~> ~Running(o)

\* A call of one statement followed by commit(), once acknowledged, is
\* durable: "a sibling write must not be folded into -- and lost with -- a
\* transaction that later rolls back". It holds while every process has one
\* thread, and not when a second thread shares the connection.
SiblingWriteNotLost ==
    \A o \in PlainOps :
        outcome[o] = "ok" /\ Length[o] = 1 => WritesOf(o) \subseteq durable

----------------------------------------------------------------------------
(* transaction() implements atomic batches.                                *)

CommittedBatches == {o \in TxOps : WritesOf(o) \subseteq durable}

Batches == INSTANCE AtomicBatches WITH
    Batch <- TxOps,
    committed <- CommittedBatches,
    status <- [o \in TxOps |-> outcome[o]]

\* Seen through its transaction() calls only, the wrapper is a store whose
\* batches take effect at one instant, between their call and their return.
ImplementsAtomicBatches == Batches!Spec
============================================================================
