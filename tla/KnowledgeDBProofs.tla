-------------------------- MODULE KnowledgeDBProofs --------------------------
(***************************************************************************)
(* Proofs about KnowledgeDB: batches written inside transaction() are      *)
(* atomic and honestly reported, for every set of processes, threads and   *)
(* operations, every nesting depth and every number of faults and crashes; *)
(* and the wrapper implements AtomicBatches.                               *)
(***************************************************************************)
EXTENDS KnowledgeDB, TLAPS

\* A thread inside a block of transaction().
InBlock(t) == pc[t] \in {"tx", "unwind"}

\* Between two steps _lock is kept exactly by the threads inside a block and
\* by the one that is about to retry a statement.
LockInv ==
    /\ \A t \in Threads :
          pc[t] \in {"tx", "unwind", "retry"} <=> holder[ProcOf[t]] = t
    /\ \A p \in Procs : holder[p] # NoThread => ProcOf[holder[p]] = p
    /\ \A t \in Threads : InBlock(t) => txDepth[ProcOf[t]] > 0

\* A running operation is run by one thread, in the way its kind is run.
CallInv ==
    /\ \A t \in Threads : pc[t] = "idle" <=> op[t] = NoOp
    /\ \A t \in Threads : pc[t] # "idle" => outcome[op[t]] = "running"
    /\ \A t \in Threads : InBlock(t) => op[t] \in TxOps
    /\ \A t \in Threads : pc[t] \in {"plain", "retry"} => op[t] \in PlainOps
    /\ \A t, u \in Threads : op[t] = op[u] /\ op[t] # NoOp => t = u
    /\ \A o \in Ops : outcome[o] = "running" => \E t \in Threads : op[t] = o

\* The uncommitted writes of a batch belong to a thread inside its block, and
\* while the body runs they are the statements executed so far.
PendingInv ==
    \A o \in TxOps, i \in Nat :
        /\ \A p \in Procs : <<o, i>> \in pending[p] =>
              \E t \in Threads : op[t] = o /\ ProcOf[t] = p /\ InBlock(t)
        /\ \A t \in Threads :
              op[t] = o /\ pc[t] = "tx" /\ i \in 1..(pos[t] - 1)
                 => <<o, i>> \in pending[ProcOf[t]]

NoneDurable(o) == \A i \in 1..Length[o] : <<o, i>> \notin durable
AllDurable(o) == \A i \in 1..Length[o] : <<o, i>> \in durable

\* What the file holds of a batch, by what its call has come to.
DurableInv ==
    \A o \in TxOps :
        /\ outcome[o] \in {"none", "failed"} => NoneDurable(o)
        /\ outcome[o] = "ok" => AllDurable(o)
        /\ outcome[o] = "crashed" => NoneDurable(o) \/ AllDurable(o)
        /\ \A t \in Threads : op[t] = o =>
              IF pc[t] = "done" THEN AllDurable(o) ELSE NoneDurable(o)

IInv == TypeOK /\ LockInv /\ CallInv /\ PendingInv /\ DurableInv

----------------------------------------------------------------------------
(* Each part of IInv is preserved by every step, one proof step per action. *)

LEMMA TypeStep == TypeOK /\ CallInv /\ [Next]_vars => TypeOK'
<1> SUFFICES ASSUME TypeOK /\ CallInv, [Next]_vars PROVE TypeOK'
  OBVIOUS
<1> USE ProcAssumption, OpAssumption, BoundAssumption
        DEF TypeOK, PC, Outcome, CallInv, InBlock, Ops
<1>w. ASSUME NEW t \in Threads, op[t] \in Ops, ~Finished(t)
      PROVE  <<op[t], pos[t]>> \in AllWrites
  <2>1. pos[t] \in 1..Length[op[t]]
    BY <1>w DEF TypeOK, Finished
  <2>2. <<op[t], pos[t]>> \in WritesOf(op[t])
    BY <2>1 DEF WritesOf
  <2> QED BY <2>2, <1>w DEF AllWrites
<1>1. ASSUME NEW t \in Threads, NEW o \in Ops, StartPlain(t, o)
      PROVE  TypeOK'
  BY <1>1, <1>w DEF StartPlain, Start, Goto, dbVars, lockVars
<1>2. ASSUME NEW t \in Threads, NEW o \in Ops, EnterTransaction(t, o)
      PROVE  TypeOK'
  BY <1>2, <1>w DEF EnterTransaction, Start, LockFree, Goto, dbVars
<1>3. ASSUME NEW t \in Threads, PlainWrite(t)
      PROVE  TypeOK'
  BY <1>3, <1>w DEF PlainWrite, ExecuteStatement, lockVars, LockFree
<1>4. ASSUME NEW t \in Threads, PlainWriteReconnects(t)
      PROVE  TypeOK'
  BY <1>4, <1>w DEF PlainWriteReconnects, DropPending, Goto, Fault, LockFree
<1>5. ASSUME NEW t \in Threads, RetrySucceeds(t)
      PROVE  TypeOK'
  BY <1>5, <1>w DEF RetrySucceeds, ExecuteStatement, Goto
<1>6. ASSUME NEW t \in Threads, RetryRaises(t)
      PROVE  TypeOK'
  BY <1>6, <1>w DEF RetryRaises, Goto, Fault, dbVars
<1>7. ASSUME NEW t \in Threads, PlainWriteRejected(t)
      PROVE  TypeOK'
  BY <1>7, <1>w DEF PlainWriteRejected, Goto, Fault, lockVars, LockFree
<1>8. ASSUME NEW t \in Threads, PlainCommit(t)
      PROVE  TypeOK'
  BY <1>8, <1>w DEF PlainCommit, CommitPending, Goto, lockVars, LockFree
<1>9. ASSUME NEW t \in Threads, PlainCommitFails(t)
      PROVE  TypeOK'
  BY <1>9, <1>w DEF PlainCommitFails, DropPending, Goto, Fault, lockVars, LockFree
<1>10. ASSUME NEW t \in Threads, EnterNested(t)
      PROVE  TypeOK'
  BY <1>10, <1>w DEF EnterNested, dbVars
<1>11. ASSUME NEW t \in Threads, TxWrite(t)
      PROVE  TypeOK'
  <2>1. op[t] \in Ops /\ ~Finished(t)
    BY <1>11 DEF TxWrite, ExecuteStatement
  <2>2. <<op[t], pos[t]>> \in AllWrites
    BY <2>1, <1>w
  <2> QED BY <1>11, <2>2 DEF TxWrite, ExecuteStatement, lockVars
<1>12. ASSUME NEW t \in Threads, TxBodyRaises(t)
      PROVE  TypeOK'
  <2>1. inTxn' = inTxn \/ inTxn' = [inTxn EXCEPT ![ProcOf[t]] = TRUE]
    BY <1>12 DEF TxBodyRaises
  <2>2. faults' = faults \/ (faults < MaxFaults /\ faults' = faults + 1)
    BY <1>12 DEF TxBodyRaises, Fault
  <2>3. inTxn' \in [Procs -> BOOLEAN]
    BY <2>1, ZenonT(60)
  <2>4. faults' \in 0..MaxFaults
    BY <2>2
  <2>5. pc' \in [Threads -> PC]
    BY <1>12 DEF TxBodyRaises, Goto
  <2> QED BY <1>12, <2>3, <2>4, <2>5 DEF TxBodyRaises, lockVars
<1>13. ASSUME NEW t \in Threads, LeaveNested(t)
      PROVE  TypeOK'
  BY <1>13, <1>w DEF LeaveNested, dbVars
<1>14. ASSUME NEW t \in Threads, TxCommit(t)
      PROVE  TypeOK'
  BY <1>14, <1>w DEF TxCommit, CommitPending, LeaveOutermost, Goto, Finished
<1>15. ASSUME NEW t \in Threads, TxCommitFails(t)
      PROVE  TypeOK'
  BY <1>15, <1>w DEF TxCommitFails, DropPending, LeaveOutermost, Goto, Fault, Finished
<1>16. ASSUME NEW t \in Threads, TxRollback(t)
      PROVE  TypeOK'
  BY <1>16, <1>w DEF TxRollback, DropPending, LeaveOutermost, Goto
<1>17. ASSUME NEW t \in Threads, Return(t)
      PROVE  TypeOK'
  BY <1>17, <1>w DEF Return, Goto, dbVars, lockVars
<1>18. ASSUME NEW t \in Threads, Read(t)
      PROVE  TypeOK'
  BY <1>18, <1>w DEF Read, dbVars, lockVars
<1>19. ASSUME NEW p \in Procs, Crash(p)
      PROVE  TypeOK'
  BY <1>19, <1>w DEF Crash, DropPending
<1>20. CASE UNCHANGED vars
  BY <1>20 DEF vars
<1> QED
    BY <1>1, <1>2, <1>3, <1>4, <1>5, <1>6, <1>7, <1>8, <1>9, <1>10,
     <1>11, <1>12, <1>13, <1>14, <1>15, <1>16, <1>17, <1>18, <1>19, <1>20
     DEF Next, PlainStep, TxStep

LEMMA LockStep == TypeOK /\ LockInv /\ [Next]_vars => LockInv'
<1> SUFFICES ASSUME TypeOK /\ LockInv, [Next]_vars PROVE LockInv'
  OBVIOUS
<1> USE ProcAssumption, OpAssumption, BoundAssumption
        DEF TypeOK, LockInv, InBlock
<1>1. ASSUME NEW t \in Threads, NEW o \in Ops, StartPlain(t, o)
      PROVE  LockInv'
  BY <1>1 DEF StartPlain, Start, Goto, dbVars, lockVars
<1>2. ASSUME NEW t \in Threads, NEW o \in Ops, EnterTransaction(t, o)
      PROVE  LockInv'
  BY <1>2 DEF EnterTransaction, Start, LockFree, Goto, dbVars
<1>3. ASSUME NEW t \in Threads, PlainWrite(t)
      PROVE  LockInv'
  BY <1>3 DEF PlainWrite, ExecuteStatement, lockVars, LockFree
<1>4. ASSUME NEW t \in Threads, PlainWriteReconnects(t)
      PROVE  LockInv'
  BY <1>4 DEF PlainWriteReconnects, DropPending, Goto, Fault, LockFree
<1>5. ASSUME NEW t \in Threads, RetrySucceeds(t)
      PROVE  LockInv'
  BY <1>5 DEF RetrySucceeds, ExecuteStatement, Goto
<1>6. ASSUME NEW t \in Threads, RetryRaises(t)
      PROVE  LockInv'
  BY <1>6 DEF RetryRaises, Goto, Fault, dbVars
<1>7. ASSUME NEW t \in Threads, PlainWriteRejected(t)
      PROVE  LockInv'
  BY <1>7 DEF PlainWriteRejected, Goto, Fault, lockVars, LockFree
<1>8. ASSUME NEW t \in Threads, PlainCommit(t)
      PROVE  LockInv'
  BY <1>8 DEF PlainCommit, CommitPending, Goto, lockVars, LockFree
<1>9. ASSUME NEW t \in Threads, PlainCommitFails(t)
      PROVE  LockInv'
  BY <1>9 DEF PlainCommitFails, DropPending, Goto, Fault, lockVars, LockFree
<1>10. ASSUME NEW t \in Threads, EnterNested(t)
      PROVE  LockInv'
  BY <1>10 DEF EnterNested, dbVars
<1>11. ASSUME NEW t \in Threads, TxWrite(t)
      PROVE  LockInv'
  BY <1>11 DEF TxWrite, ExecuteStatement, lockVars
<1>12. ASSUME NEW t \in Threads, TxBodyRaises(t)
      PROVE  LockInv'
  BY <1>12 DEF TxBodyRaises, Goto, Fault, lockVars
<1>13. ASSUME NEW t \in Threads, LeaveNested(t)
      PROVE  LockInv'
  BY <1>13 DEF LeaveNested, dbVars
<1>14. ASSUME NEW t \in Threads, TxCommit(t)
      PROVE  LockInv'
  BY <1>14 DEF TxCommit, CommitPending, LeaveOutermost, Goto, Finished
<1>15. ASSUME NEW t \in Threads, TxCommitFails(t)
      PROVE  LockInv'
  BY <1>15 DEF TxCommitFails, DropPending, LeaveOutermost, Goto, Fault, Finished
<1>16. ASSUME NEW t \in Threads, TxRollback(t)
      PROVE  LockInv'
  BY <1>16 DEF TxRollback, DropPending, LeaveOutermost, Goto
<1>17. ASSUME NEW t \in Threads, Return(t)
      PROVE  LockInv'
  BY <1>17 DEF Return, Goto, dbVars, lockVars
<1>18. ASSUME NEW t \in Threads, Read(t)
      PROVE  LockInv'
  BY <1>18 DEF Read, dbVars, lockVars
<1>19. ASSUME NEW p \in Procs, Crash(p)
      PROVE  LockInv'
  BY <1>19 DEF Crash, DropPending
<1>20. CASE UNCHANGED vars
  BY <1>20 DEF vars
<1> QED
    BY <1>1, <1>2, <1>3, <1>4, <1>5, <1>6, <1>7, <1>8, <1>9, <1>10,
     <1>11, <1>12, <1>13, <1>14, <1>15, <1>16, <1>17, <1>18, <1>19, <1>20
     DEF Next, PlainStep, TxStep

LEMMA CallStep == TypeOK /\ CallInv /\ [Next]_vars => CallInv'
<1> SUFFICES ASSUME TypeOK /\ CallInv, [Next]_vars PROVE CallInv'
  OBVIOUS
<1> USE ProcAssumption, OpAssumption, BoundAssumption
        DEF TypeOK, CallInv, InBlock, Ops
<1>1. ASSUME NEW t \in Threads, NEW o \in Ops, StartPlain(t, o)
      PROVE  CallInv'
  BY <1>1 DEF StartPlain, Start, Goto, dbVars, lockVars
<1>2. ASSUME NEW t \in Threads, NEW o \in Ops, EnterTransaction(t, o)
      PROVE  CallInv'
  BY <1>2 DEF EnterTransaction, Start, LockFree, Goto, dbVars
<1>3. ASSUME NEW t \in Threads, PlainWrite(t)
      PROVE  CallInv'
  BY <1>3 DEF PlainWrite, ExecuteStatement, lockVars, LockFree
<1>4. ASSUME NEW t \in Threads, PlainWriteReconnects(t)
      PROVE  CallInv'
  BY <1>4 DEF PlainWriteReconnects, DropPending, Goto, Fault, LockFree
<1>5. ASSUME NEW t \in Threads, RetrySucceeds(t)
      PROVE  CallInv'
  BY <1>5 DEF RetrySucceeds, ExecuteStatement, Goto
<1>6. ASSUME NEW t \in Threads, RetryRaises(t)
      PROVE  CallInv'
  BY <1>6 DEF RetryRaises, Goto, Fault, dbVars
<1>7. ASSUME NEW t \in Threads, PlainWriteRejected(t)
      PROVE  CallInv'
  BY <1>7 DEF PlainWriteRejected, Goto, Fault, lockVars, LockFree
<1>8. ASSUME NEW t \in Threads, PlainCommit(t)
      PROVE  CallInv'
  BY <1>8 DEF PlainCommit, CommitPending, Goto, lockVars, LockFree
<1>9. ASSUME NEW t \in Threads, PlainCommitFails(t)
      PROVE  CallInv'
  BY <1>9 DEF PlainCommitFails, DropPending, Goto, Fault, lockVars, LockFree
<1>10. ASSUME NEW t \in Threads, EnterNested(t)
      PROVE  CallInv'
  BY <1>10 DEF EnterNested, dbVars
<1>11. ASSUME NEW t \in Threads, TxWrite(t)
      PROVE  CallInv'
  BY <1>11 DEF TxWrite, ExecuteStatement, lockVars
<1>12. ASSUME NEW t \in Threads, TxBodyRaises(t)
      PROVE  CallInv'
  BY <1>12 DEF TxBodyRaises, Goto, Fault, lockVars
<1>13. ASSUME NEW t \in Threads, LeaveNested(t)
      PROVE  CallInv'
  BY <1>13 DEF LeaveNested, dbVars
<1>14. ASSUME NEW t \in Threads, TxCommit(t)
      PROVE  CallInv'
  BY <1>14 DEF TxCommit, CommitPending, LeaveOutermost, Goto, Finished
<1>15. ASSUME NEW t \in Threads, TxCommitFails(t)
      PROVE  CallInv'
  BY <1>15 DEF TxCommitFails, DropPending, LeaveOutermost, Goto, Fault, Finished
<1>16. ASSUME NEW t \in Threads, TxRollback(t)
      PROVE  CallInv'
  BY <1>16 DEF TxRollback, DropPending, LeaveOutermost, Goto
<1>17. ASSUME NEW t \in Threads, Return(t)
      PROVE  CallInv'
  BY <1>17 DEF Return, Goto, dbVars, lockVars
<1>18. ASSUME NEW t \in Threads, Read(t)
      PROVE  CallInv'
  BY <1>18 DEF Read, dbVars, lockVars
<1>19. ASSUME NEW p \in Procs, Crash(p)
      PROVE  CallInv'
  BY <1>19 DEF Crash, DropPending
<1>20. CASE UNCHANGED vars
  BY <1>20 DEF vars
<1> QED
    BY <1>1, <1>2, <1>3, <1>4, <1>5, <1>6, <1>7, <1>8, <1>9, <1>10,
     <1>11, <1>12, <1>13, <1>14, <1>15, <1>16, <1>17, <1>18, <1>19, <1>20
     DEF Next, PlainStep, TxStep

LEMMA PendingStep == TypeOK /\ LockInv /\ CallInv /\ PendingInv /\ [Next]_vars => PendingInv'
<1> SUFFICES ASSUME TypeOK /\ LockInv /\ CallInv /\ PendingInv, [Next]_vars PROVE PendingInv'
  OBVIOUS
<1> USE ProcAssumption, OpAssumption, BoundAssumption
        DEF TypeOK, LockInv, CallInv, PendingInv, InBlock, Ops
<1>1. ASSUME NEW t \in Threads, NEW o \in Ops, StartPlain(t, o)
      PROVE  PendingInv'
  BY <1>1 DEF StartPlain, Start, Goto, dbVars, lockVars
<1>2. ASSUME NEW t \in Threads, NEW o \in Ops, EnterTransaction(t, o)
      PROVE  PendingInv'
  BY <1>2 DEF EnterTransaction, Start, LockFree, Goto, dbVars
<1>3. ASSUME NEW t \in Threads, PlainWrite(t)
      PROVE  PendingInv'
  BY <1>3 DEF PlainWrite, ExecuteStatement, lockVars, LockFree
<1>4. ASSUME NEW t \in Threads, PlainWriteReconnects(t)
      PROVE  PendingInv'
  BY <1>4 DEF PlainWriteReconnects, DropPending, Goto, Fault, LockFree
<1>5. ASSUME NEW t \in Threads, RetrySucceeds(t)
      PROVE  PendingInv'
  BY <1>5 DEF RetrySucceeds, ExecuteStatement, Goto
<1>6. ASSUME NEW t \in Threads, RetryRaises(t)
      PROVE  PendingInv'
  BY <1>6 DEF RetryRaises, Goto, Fault, dbVars
<1>7. ASSUME NEW t \in Threads, PlainWriteRejected(t)
      PROVE  PendingInv'
  BY <1>7 DEF PlainWriteRejected, Goto, Fault, lockVars, LockFree
<1>8. ASSUME NEW t \in Threads, PlainCommit(t)
      PROVE  PendingInv'
  BY <1>8 DEF PlainCommit, CommitPending, Goto, lockVars, LockFree
<1>9. ASSUME NEW t \in Threads, PlainCommitFails(t)
      PROVE  PendingInv'
  BY <1>9 DEF PlainCommitFails, DropPending, Goto, Fault, lockVars, LockFree
<1>10. ASSUME NEW t \in Threads, EnterNested(t)
      PROVE  PendingInv'
  BY <1>10 DEF EnterNested, dbVars
<1>11. ASSUME NEW t \in Threads, TxWrite(t)
      PROVE  PendingInv'
  BY <1>11 DEF TxWrite, ExecuteStatement, lockVars
<1>12. ASSUME NEW t \in Threads, TxBodyRaises(t)
      PROVE  PendingInv'
  BY <1>12 DEF TxBodyRaises, Goto, Fault, lockVars
<1>13. ASSUME NEW t \in Threads, LeaveNested(t)
      PROVE  PendingInv'
  BY <1>13 DEF LeaveNested, dbVars
<1>14. ASSUME NEW t \in Threads, TxCommit(t)
      PROVE  PendingInv'
  BY <1>14 DEF TxCommit, CommitPending, LeaveOutermost, Goto, Finished
<1>15. ASSUME NEW t \in Threads, TxCommitFails(t)
      PROVE  PendingInv'
  BY <1>15 DEF TxCommitFails, DropPending, LeaveOutermost, Goto, Fault, Finished
<1>16. ASSUME NEW t \in Threads, TxRollback(t)
      PROVE  PendingInv'
  BY <1>16 DEF TxRollback, DropPending, LeaveOutermost, Goto
<1>17. ASSUME NEW t \in Threads, Return(t)
      PROVE  PendingInv'
  BY <1>17 DEF Return, Goto, dbVars, lockVars
<1>18. ASSUME NEW t \in Threads, Read(t)
      PROVE  PendingInv'
  BY <1>18 DEF Read, dbVars, lockVars
<1>19. ASSUME NEW p \in Procs, Crash(p)
      PROVE  PendingInv'
  BY <1>19 DEF Crash, DropPending
<1>20. CASE UNCHANGED vars
  BY <1>20 DEF vars
<1> QED
    BY <1>1, <1>2, <1>3, <1>4, <1>5, <1>6, <1>7, <1>8, <1>9, <1>10,
     <1>11, <1>12, <1>13, <1>14, <1>15, <1>16, <1>17, <1>18, <1>19, <1>20
     DEF Next, PlainStep, TxStep

\* The same threads have done what they were called for.
SameDone == \A t \in Threads : pc'[t] = "done" <=> pc[t] = "done"

\* A step that commits nothing, ends no call and hands out no result.
LEMMA DurableKept ==
  ASSUME DurableInv, SameDone, durable' = durable, outcome' = outcome, op' = op
  PROVE  DurableInv'
<1> SUFFICES ASSUME NEW o \in TxOps
             PROVE  /\ outcome[o] \in {"none", "failed"} => NoneDurable(o)
                    /\ outcome[o] = "ok" => AllDurable(o)
                    /\ outcome[o] = "crashed" => NoneDurable(o) \/ AllDurable(o)
                    /\ \A t \in Threads : op[t] = o =>
                          IF pc'[t] = "done" THEN AllDurable(o) ELSE NoneDurable(o)
  BY DEF DurableInv, NoneDurable, AllDurable
<1> QED
  BY DEF DurableInv, SameDone

LEMMA DurableStep == IInv /\ [Next]_vars => DurableInv'
<1> SUFFICES ASSUME IInv, [Next]_vars PROVE DurableInv'
  OBVIOUS
<1> USE ProcAssumption, OpAssumption, BoundAssumption
        DEF IInv, TypeOK, LockInv, CallInv, PendingInv, DurableInv,
        InBlock, Ops, NoneDurable, AllDurable
<1>1. ASSUME NEW t \in Threads, NEW o \in Ops, StartPlain(t, o)
      PROVE  DurableInv'
  BY <1>1 DEF StartPlain, Start, Goto, dbVars, lockVars
<1>2. ASSUME NEW t \in Threads, NEW o \in Ops, EnterTransaction(t, o)
      PROVE  DurableInv'
  <2>1. durable' = durable /\ op' = [op EXCEPT ![t] = o]
    BY <1>2 DEF EnterTransaction, Start, dbVars
  <2>2. pc[t] = "idle" /\ pc' = [pc EXCEPT ![t] = "tx"]
    BY <1>2 DEF EnterTransaction, Start, Goto
  <2>3. outcome[o] = "none" /\ outcome' = [outcome EXCEPT ![o] = "running"]
    BY <1>2 DEF EnterTransaction, Start
  <2>4. \A b \in TxOps : NoneDurable(b)' = NoneDurable(b) /\ AllDurable(b)' = AllDurable(b)
    BY <2>1
  <2>5. \A u \in Threads : op[u] # o
    BY <2>3
  <2> HIDE DEF NoneDurable, AllDurable
  <2> QED BY <2>1, <2>2, <2>3, <2>4, <2>5
<1>3. ASSUME NEW t \in Threads, PlainWrite(t)
      PROVE  DurableInv'
  <2>1. durable' = durable /\ outcome' = outcome /\ op' = op /\ SameDone
    BY <1>3 DEF SameDone, PlainWrite, ExecuteStatement
  <2> QED BY <2>1, DurableKept
<1>4. ASSUME NEW t \in Threads, PlainWriteReconnects(t)
      PROVE  DurableInv'
  <2>1. durable' = durable /\ outcome' = outcome /\ op' = op /\ SameDone
    BY <1>4 DEF SameDone, PlainWriteReconnects, DropPending, Goto
  <2> QED BY <2>1, DurableKept
<1>5. ASSUME NEW t \in Threads, RetrySucceeds(t)
      PROVE  DurableInv'
  <2>1. durable' = durable /\ outcome' = outcome /\ op' = op /\ SameDone
    BY <1>5 DEF SameDone, RetrySucceeds, ExecuteStatement, Goto
  <2> QED BY <2>1, DurableKept
<1>6. ASSUME NEW t \in Threads, RetryRaises(t)
      PROVE  DurableInv'
  <2>1. durable' = durable /\ outcome' = outcome /\ op' = op /\ SameDone
    BY <1>6 DEF SameDone, RetryRaises, Goto, dbVars
  <2> QED BY <2>1, DurableKept
<1>7. ASSUME NEW t \in Threads, PlainWriteRejected(t)
      PROVE  DurableInv'
  <2>1. durable' = durable /\ outcome' = outcome /\ op' = op /\ SameDone
    BY <1>7 DEF SameDone, PlainWriteRejected, Goto
  <2> QED BY <2>1, DurableKept
<1>8. ASSUME NEW t \in Threads, PlainCommit(t)
      PROVE  DurableInv'
  BY SMTT(30), <1>8 DEF PlainCommit, CommitPending, Goto, lockVars, LockFree
<1>9. ASSUME NEW t \in Threads, PlainCommitFails(t)
      PROVE  DurableInv'
  <2>1. durable' = durable /\ outcome' = outcome /\ op' = op /\ SameDone
    BY <1>9 DEF SameDone, PlainCommitFails, DropPending, Goto
  <2> QED BY <2>1, DurableKept
<1>10. ASSUME NEW t \in Threads, EnterNested(t)
      PROVE  DurableInv'
  <2>1. durable' = durable /\ outcome' = outcome /\ op' = op /\ SameDone
    BY <1>10 DEF SameDone, EnterNested, dbVars
  <2> QED BY <2>1, DurableKept
<1>11. ASSUME NEW t \in Threads, TxWrite(t)
      PROVE  DurableInv'
  <2>1. durable' = durable /\ outcome' = outcome /\ op' = op /\ SameDone
    BY <1>11 DEF SameDone, TxWrite, ExecuteStatement
  <2> QED BY <2>1, DurableKept
<1>12. ASSUME NEW t \in Threads, TxBodyRaises(t)
      PROVE  DurableInv'
  <2>1. durable' = durable /\ outcome' = outcome /\ op' = op /\ SameDone
    BY <1>12 DEF SameDone, TxBodyRaises, Goto
  <2> QED BY <2>1, DurableKept
<1>13. ASSUME NEW t \in Threads, LeaveNested(t)
      PROVE  DurableInv'
  <2>1. durable' = durable /\ outcome' = outcome /\ op' = op /\ SameDone
    BY <1>13 DEF SameDone, LeaveNested, dbVars
  <2> QED BY <2>1, DurableKept
<1>14. ASSUME NEW t \in Threads, TxCommit(t)
      PROVE  DurableInv'
  <2> DEFINE p == ProcOf[t]
  <2>1. p \in Procs /\ op[t] \in TxOps /\ holder[p] = t
    BY <1>14 DEF TxCommit
  <2>2. durable' = durable \cup pending[p]
    BY <1>14 DEF TxCommit, CommitPending
  <2>3. outcome' = outcome /\ op' = op /\ pc' = [pc EXCEPT ![t] = "done"]
    BY <1>14 DEF TxCommit, LeaveOutermost, Goto
  <2>4. \A i \in 1..Length[op[t]] : <<op[t], i>> \in pending[p]
    <3>1. Length[op[t]] \in Nat /\ pos[t] \in Nat /\ pos[t] > Length[op[t]]
      BY <1>14, <2>1 DEF TxCommit, Finished
    <3>2. pc[t] = "tx"
      BY <1>14 DEF TxCommit
    <3> QED BY <2>1, <3>1, <3>2
  <2>5. ASSUME NEW o \in TxOps, o # op[t], NEW i \in Nat
        PROVE  <<o, i>> \notin pending[p]
    BY <2>1, <2>5
  <2>6. ASSUME NEW o \in TxOps, o # op[t]
        PROVE  (NoneDurable(o) => NoneDurable(o)') /\ (AllDurable(o) => AllDurable(o)')
    BY <2>2, <2>5, <2>6
  <2>7. AllDurable(op[t])'
    BY <2>2, <2>3, <2>4
  <2>8. ASSUME NEW o \in TxOps, o # op[t]
        PROVE  \A u \in Threads : op[u] = o => pc'[u] = pc[u]
    BY <2>3, <2>8
  <2>9. outcome[op[t]] = "running"
    BY <2>1
  <2>10. ASSUME NEW u \in Threads, op[u] = op[t]
         PROVE  u = t /\ pc'[u] = "done"
    BY <2>1, <2>3, <2>10
  <2> HIDE DEF NoneDurable, AllDurable, p
  <2> QED BY <2>3, <2>6, <2>7, <2>8, <2>9, <2>10
<1>15. ASSUME NEW t \in Threads, TxCommitFails(t)
      PROVE  DurableInv'
  <2>1. durable' = durable /\ outcome' = outcome /\ op' = op /\ SameDone
    BY <1>15 DEF SameDone, TxCommitFails, DropPending, LeaveOutermost, Goto
  <2> QED BY <2>1, DurableKept
<1>16. ASSUME NEW t \in Threads, TxRollback(t)
      PROVE  DurableInv'
  <2>1. durable' = durable /\ outcome' = outcome /\ op' = op /\ SameDone
    BY <1>16 DEF SameDone, TxRollback, DropPending, LeaveOutermost, Goto
  <2> QED BY <2>1, DurableKept
<1>17. ASSUME NEW t \in Threads, Return(t)
      PROVE  DurableInv'
  BY <1>17 DEF Return, Goto, dbVars, lockVars
<1>18. ASSUME NEW t \in Threads, Read(t)
      PROVE  DurableInv'
  BY <1>18 DEF Read, dbVars, lockVars
<1>19. ASSUME NEW p \in Procs, Crash(p)
      PROVE  DurableInv'
  BY SMTT(30), <1>19 DEF Crash, DropPending
<1>20. CASE UNCHANGED vars
  BY <1>20 DEF vars
<1> QED
    BY <1>1, <1>2, <1>3, <1>4, <1>5, <1>6, <1>7, <1>8, <1>9, <1>10,
     <1>11, <1>12, <1>13, <1>14, <1>15, <1>16, <1>17, <1>18, <1>19, <1>20
     DEF Next, PlainStep, TxStep

LEMMA InitInv == Init => IInv
BY ProcAssumption, OpAssumption, BoundAssumption
   DEF Init, IInv, TypeOK, LockInv, CallInv, PendingInv, DurableInv, InBlock,
       Ops, PC, Outcome, NoneDurable, AllDurable

LEMMA IInvStep == IInv /\ [Next]_vars => IInv'
BY TypeStep, LockStep, CallStep, PendingStep, DurableStep DEF IInv

\* IInv holds throughout every behaviour of the wrapper: the inductive
\* invariant behind every other result of this module.
THEOREM Invariant == Spec => []IInv
<1> QED BY InitInv, IInvStep, PTL DEF Spec

----------------------------------------------------------------------------
(* The safety properties.                                                  *)

LEMMA BatchFacts ==
    ASSUME NEW o \in TxOps
    PROVE  /\ NoneDurable(o) <=> durable \cap WritesOf(o) = {}
           /\ AllDurable(o) <=> WritesOf(o) \subseteq durable
           /\ ~(NoneDurable(o) /\ AllDurable(o))
<1>1. Length[o] \in Nat \ {0}
  BY OpAssumption DEF Ops
<1>2. 1 \in 1..Length[o]
  BY <1>1
<1> QED BY <1>2 DEF NoneDurable, AllDurable, WritesOf

\* The file holds a batch entirely or not at all: db.py's promise that a
\* transaction() block is "one atomic unit", whatever threads, reconnects,
\* nested blocks, errors and crashes do.
THEOREM BatchesAreAtomic == Spec => []TxAtomic
<1>1. IInv => TxAtomic
  <2> SUFFICES ASSUME IInv, NEW o \in TxOps
               PROVE  durable \cap WritesOf(o) \in {{}, WritesOf(o)}
    BY DEF TxAtomic
  <2>1. NoneDurable(o) \/ AllDurable(o)
    <3>1. outcome[o] \in Outcome
      BY DEF IInv, TypeOK, Ops
    <3>2. CASE outcome[o] = "running"
      <4>1. PICK t \in Threads : op[t] = o
        BY <3>2 DEF IInv, CallInv, Ops
      <4> QED BY <4>1 DEF IInv, DurableInv
    <3>3. CASE outcome[o] # "running"
      BY <3>1, <3>3 DEF IInv, DurableInv, Outcome
    <3> QED BY <3>2, <3>3
  <2> QED BY <2>1, BatchFacts
<1> QED BY <1>1, Invariant, PTL

\* The caller of a transaction() block is told the truth: what was
\* acknowledged is in the file, what raised has left nothing there.
THEOREM BatchesAreHonest == Spec => []TxHonest
<1>1. IInv => TxHonest
  BY BatchFacts DEF IInv, DurableInv, TxHonest
<1> QED BY <1>1, Invariant, PTL

\* Only one connection of the file ever has an open transaction, and only it
\* has uncommitted writes.
THEOREM WriteLockIsExclusive == Spec => []OneWriter
<1>1. Init => OneWriter
  BY DEF Init, OneWriter
<1>2. IInv /\ OneWriter /\ [Next]_vars => OneWriter'
  <2> SUFFICES ASSUME IInv, OneWriter, [Next]_vars PROVE OneWriter'
    OBVIOUS
  <2> USE ProcAssumption DEF IInv, TypeOK, OneWriter
  <2>1. ASSUME NEW t \in Threads, PlainWrite(t)
        PROVE  OneWriter'
    BY <2>1 DEF PlainWrite, ExecuteStatement, CanWrite
  <2>2. ASSUME NEW t \in Threads, RetrySucceeds(t)
        PROVE  OneWriter'
    BY <2>2 DEF RetrySucceeds, ExecuteStatement, CanWrite
  <2>3. ASSUME NEW t \in Threads, TxWrite(t)
        PROVE  OneWriter'
    BY <2>3 DEF TxWrite, ExecuteStatement, CanWrite
  <2>4. ASSUME NEW t \in Threads, PlainWriteRejected(t)
        PROVE  OneWriter'
    BY <2>4 DEF PlainWriteRejected, CanWrite
  <2>5. ASSUME NEW t \in Threads, TxBodyRaises(t)
        PROVE  OneWriter'
    BY <2>5 DEF TxBodyRaises, CanWrite
  <2>6. ASSUME NEW t \in Threads, PlainWriteReconnects(t)
        PROVE  OneWriter'
    BY <2>6 DEF PlainWriteReconnects, DropPending
  <2>7. ASSUME NEW t \in Threads, PlainCommitFails(t)
        PROVE  OneWriter'
    BY <2>7 DEF PlainCommitFails, DropPending
  <2>8. ASSUME NEW t \in Threads, TxCommitFails(t)
        PROVE  OneWriter'
    BY <2>8 DEF TxCommitFails, DropPending
  <2>9. ASSUME NEW t \in Threads, TxRollback(t)
        PROVE  OneWriter'
    BY <2>9 DEF TxRollback, DropPending
  <2>10. ASSUME NEW t \in Threads, PlainCommit(t)
        PROVE  OneWriter'
    BY <2>10 DEF PlainCommit, CommitPending
  <2>11. ASSUME NEW t \in Threads, TxCommit(t)
        PROVE  OneWriter'
    BY <2>11 DEF TxCommit, CommitPending
  <2>12. ASSUME NEW p \in Procs, Crash(p)
        PROVE  OneWriter'
    BY <2>12 DEF Crash, DropPending
  <2>13. CASE UNCHANGED dbVars
    BY <2>13 DEF dbVars
  <2> QED
        BY <2>1, <2>2, <2>3, <2>4, <2>5, <2>6, <2>7, <2>8, <2>9, <2>10,
       <2>11, <2>12, <2>13
       DEF Next, PlainStep, TxStep, StartPlain, EnterTransaction, RetryRaises,
           EnterNested, LeaveNested, Return, Read, dbVars, vars
<1> QED BY <1>1, <1>2, Invariant, PTL DEF Spec

\* Outside a block the connection holds no write of a batch.
LEMMA NoBatchPending ==
    ASSUME IInv, NEW t \in Threads, LockFree(t), NEW o \in TxOps, NEW i \in Nat
    PROVE  <<o, i>> \notin pending[ProcOf[t]]
BY ProcAssumption DEF LockFree, IInv, TypeOK, LockInv, PendingInv, InBlock

\* A read never returns a part of another thread's open batch: whatever it
\* saw of a batch, the whole batch is durable.
THEOREM ReadsSeeWholeBatches == Spec => []NoDirtyBatchRead
<1> DEFINE SeenInv == \A t \in Threads, o \in TxOps, i \in Nat :
                         <<o, i>> \in seen[t] /\ i \in 1..Length[o] => AllDurable(o)
<1>1. Init => SeenInv
  BY DEF Init
<1>2. TypeOK /\ [Next]_vars => durable \subseteq durable'
  BY DEF Next, vars, StartPlain, EnterTransaction, PlainStep, TxStep,
     PlainWrite, PlainWriteReconnects, RetrySucceeds, RetryRaises,
     PlainWriteRejected, PlainCommit, PlainCommitFails, EnterNested, TxWrite,
     TxBodyRaises, LeaveNested, TxCommit, TxCommitFails, TxRollback, Return,
     Read, Crash, ExecuteStatement, DropPending, CommitPending, dbVars
<1>3. [Next]_vars => \A t \in Threads :
         \/ seen' = seen
         \/ \E u \in Threads : Read(u)
         \/ \E p \in Procs : Crash(p)
  BY DEF Next, vars, StartPlain, EnterTransaction, PlainStep, TxStep,
     PlainWrite, PlainWriteReconnects, RetrySucceeds, RetryRaises,
     PlainWriteRejected, PlainCommit, PlainCommitFails, EnterNested, TxWrite,
     TxBodyRaises, LeaveNested, TxCommit, TxCommitFails, TxRollback, Return
<1>4. IInv /\ SeenInv /\ [Next]_vars => SeenInv'
  <2> SUFFICES ASSUME IInv, SeenInv, [Next]_vars PROVE SeenInv'
    OBVIOUS
  <2>1. \A o \in TxOps : AllDurable(o) => AllDurable(o)'
    BY <1>2 DEF AllDurable, IInv
  <2>2. CASE seen' = seen
    BY <2>1, <2>2
  <2>3. ASSUME NEW u \in Threads, Read(u) PROVE SeenInv'
    <3>1. ASSUME NEW o \in TxOps, NEW i \in Nat
          PROVE  <<o, i>> \notin pending[ProcOf[u]]
      BY <2>3, NoBatchPending DEF Read
    <3>2. ASSUME NEW o \in TxOps, NEW i \in 1..Length[o], <<o, i>> \in durable
          PROVE  AllDurable(o)
      <4>1. ~NoneDurable(o)
        BY <3>2 DEF NoneDurable
      <4>2. outcome[o] \in Outcome
        BY DEF IInv, TypeOK, Ops
      <4>3. CASE outcome[o] = "running"
        <5>1. PICK t \in Threads : op[t] = o
          BY <4>3 DEF IInv, CallInv, Ops
        <5> QED BY <5>1, <4>1 DEF IInv, DurableInv
      <4>4. CASE outcome[o] # "running"
        BY <4>1, <4>2, <4>4 DEF IInv, DurableInv, Outcome
      <4> QED BY <4>3, <4>4
    <3>3. seen' = [seen EXCEPT ![u] = durable \cup pending[ProcOf[u]]]
      BY <2>3 DEF Read
    <3>4. seen \in [Threads -> SUBSET AllWrites]
      BY DEF IInv, TypeOK
    <3> HIDE DEF AllDurable
    <3> QED BY <2>1, <3>1, <3>2, <3>3, <3>4
  <2>4. ASSUME NEW p \in Procs, Crash(p) PROVE SeenInv'
    <3>1. \A t \in Threads : seen'[t] = {} \/ seen'[t] = seen[t]
      BY <2>4 DEF Crash
    <3> QED BY <2>1, <3>1
  <2> QED BY <2>2, <2>3, <2>4, <1>3
<1>5. SeenInv => NoDirtyBatchRead
  <2> SUFFICES ASSUME SeenInv, NEW t \in Threads, NEW o \in TxOps,
                      seen[t] \cap WritesOf(o) # {}
               PROVE  WritesOf(o) \subseteq durable
    BY DEF NoDirtyBatchRead
  <2>1. PICK i \in 1..Length[o] : <<o, i>> \in seen[t]
    BY DEF WritesOf
  <2>2. Length[o] \in Nat
    BY OpAssumption DEF Ops
  <2>3. i \in Nat
    BY <2>2
  <2>4. AllDurable(o)
    BY <2>1, <2>3
  <2> QED BY <2>4, BatchFacts
<1> QED BY <1>1, <1>4, <1>5, Invariant, PTL DEF Spec

----------------------------------------------------------------------------
(* The refinement of AtomicBatches.                                        *)

LEMMA CommittedFact ==
    ASSUME NEW o \in TxOps
    PROVE  o \in CommittedBatches <=> AllDurable(o)
BY BatchFacts DEF CommittedBatches

\* A step that commits nothing of a batch leaves the committed set alone.
LEMMA SameCommitted ==
    ASSUME \A o \in TxOps, i \in Nat : <<o, i>> \in durable' <=> <<o, i>> \in durable
    PROVE  CommittedBatches' = CommittedBatches
<1>1. \A o \in TxOps : Length[o] \in Nat
  BY OpAssumption DEF Ops
<1>2. \A o \in TxOps : WritesOf(o) \subseteq durable' <=> WritesOf(o) \subseteq durable
  BY <1>1 DEF WritesOf
<1> QED BY <1>2 DEF CommittedBatches

LEMMA RefinementStep ==
    IInv /\ [Next]_vars => [Batches!Next]_(Batches!batchVars)
<1> SUFFICES ASSUME IInv, [Next]_vars
             PROVE  [Batches!Next]_(Batches!batchVars)
  OBVIOUS
<1> DEFINE status == [o \in TxOps |-> outcome[o]]
<1>st. ASSUME CommittedBatches' = CommittedBatches,
              \A o \in TxOps : outcome'[o] = outcome[o]
       PROVE  [Batches!Next]_(Batches!batchVars)
  BY <1>st DEF Batches!batchVars
<1>1. ASSUME NEW t \in Threads, NEW o \in Ops, StartPlain(t, o)
      PROVE  [Batches!Next]_(Batches!batchVars)
  <2>1. CommittedBatches' = CommittedBatches
    BY <1>1, SameCommitted DEF StartPlain, dbVars
  <2>2. \A b \in TxOps : outcome'[b] = outcome[b]
    BY <1>1, OpAssumption DEF StartPlain, Start, IInv, TypeOK, Ops
  <2> QED BY <2>1, <2>2, <1>st
<1>2. ASSUME NEW t \in Threads, NEW o \in Ops, EnterTransaction(t, o)
      PROVE  [Batches!Next]_(Batches!batchVars)
  <2>1. CommittedBatches' = CommittedBatches
    BY <1>2, SameCommitted DEF EnterTransaction, dbVars
  <2>2. o \in TxOps /\ outcome[o] = "none"
    BY <1>2 DEF EnterTransaction, Start
  <2>3. outcome' = [outcome EXCEPT ![o] = "running"] /\ outcome \in [Ops -> Outcome]
    BY <1>2 DEF EnterTransaction, Start, IInv, TypeOK
  <2>4. [b \in TxOps |-> outcome'[b]] = [status EXCEPT ![o] = "running"]
    BY <2>2, <2>3 DEF Ops
  <2>5. Batches!Begin(o)
    BY <2>1, <2>2, <2>4 DEF Batches!Begin
  <2> QED BY <2>2, <2>5 DEF Batches!Next
<1>3. ASSUME NEW t \in Threads, TxCommit(t)
      PROVE  [Batches!Next]_(Batches!batchVars)
  <2>0. PICK b \in TxOps : b = op[t]
    BY <1>3 DEF TxCommit, IInv, CallInv, InBlock
  <2>1. b \in TxOps /\ outcome[b] = "running" /\ outcome' = outcome
    BY <1>3, <2>0 DEF TxCommit, IInv, CallInv, InBlock
  <2>2. durable' = durable \cup pending[ProcOf[t]]
    BY <1>3 DEF TxCommit, CommitPending
  <2>3. AllDurable(b)'
    <3>1. IInv' /\ op' = op /\ pc'[t] = "done"
      BY <1>3, IInvStep DEF TxCommit, LeaveOutermost, Goto, IInv, TypeOK
    <3> QED BY <3>1, <2>0, <2>1 DEF IInv, DurableInv
  <2>4. ASSUME NEW o \in TxOps, o # b, NEW i \in Nat
        PROVE  <<o, i>> \in durable' <=> <<o, i>> \in durable
    <3>1. <<o, i>> \notin pending[ProcOf[t]]
      BY <1>3, <2>0, <2>4, ProcAssumption
         DEF TxCommit, IInv, TypeOK, LockInv, PendingInv, InBlock
    <3> QED BY <3>1, <2>2
  <2>5. ASSUME NEW o \in TxOps, o # b
        PROVE  o \in CommittedBatches' <=> o \in CommittedBatches
    <3>1. Length[o] \in Nat
      BY OpAssumption DEF Ops
    <3>2. WritesOf(o) \subseteq durable' <=> WritesOf(o) \subseteq durable
      BY <2>4, <2>5, <3>1 DEF WritesOf
    <3> QED BY <3>2 DEF CommittedBatches
  <2>6. b \in CommittedBatches'
    BY <2>1, <2>3 DEF CommittedBatches, AllDurable, WritesOf
  <2>7. CommittedBatches' = CommittedBatches \cup {b}
    BY <2>1, <2>5, <2>6 DEF CommittedBatches
  <2>8. Batches!Commit(b)
    BY <2>1, <2>7 DEF Batches!Commit
  <2> QED BY <2>1, <2>8 DEF Batches!Next
<1>4. ASSUME NEW t \in Threads, Return(t)
      PROVE  [Batches!Next]_(Batches!batchVars)
  <2>0. PICK b \in Ops : b = op[t]
    BY <1>4 DEF Return, IInv, TypeOK, CallInv
  <2>1. CommittedBatches' = CommittedBatches
    BY <1>4, SameCommitted DEF Return, dbVars
  <2>2. b \in Ops /\ outcome[b] = "running" /\ outcome \in [Ops -> Outcome]
    BY <1>4, <2>0 DEF Return, IInv, TypeOK, CallInv
  <2>3. outcome' = [outcome EXCEPT ![b] = IF pc[t] = "done" THEN "ok" ELSE "failed"]
    BY <1>4, <2>0 DEF Return
  <2>4. CASE b \notin TxOps
    BY <2>1, <2>2, <2>3, <2>4, <1>st DEF Ops
  <2>5. CASE b \in TxOps
    <3>1. pc[t] = "done" <=> b \in CommittedBatches
      BY <1>4, <2>0, <2>5, CommittedFact, BatchFacts DEF Return, IInv, DurableInv
    <3>2. [o \in TxOps |-> outcome'[o]]
             = [status EXCEPT ![b] = IF b \in CommittedBatches THEN "ok" ELSE "failed"]
      BY <2>2, <2>3, <2>5, <3>1 DEF Ops
    <3>3. Batches!Return(b)
      BY <2>1, <2>2, <2>5, <3>2 DEF Batches!Return
    <3> QED BY <2>5, <3>3 DEF Batches!Next
  <2> QED BY <2>4, <2>5
<1>5. ASSUME NEW p \in Procs, Crash(p)
      PROVE  [Batches!Next]_(Batches!batchVars)
  <2> DEFINE dead == {t \in Threads : ProcOf[t] = p}
  <2>0. PICK B \in SUBSET TxOps : B = {o \in TxOps : \E t \in dead : op[t] = o}
    OBVIOUS
  <2>1. CommittedBatches' = CommittedBatches
    BY <1>5, SameCommitted DEF Crash, DropPending
  <2>2. outcome' = [o \in Ops |-> IF \E t \in dead : op[t] = o
                                  THEN "crashed" ELSE outcome[o]]
    BY <1>5 DEF Crash
  <2>3. ASSUME NEW o \in B
        PROVE  outcome[o] = "running"
    <3>1. PICK t \in Threads : op[t] = o
      BY <2>0
    <3>2. op[t] # NoOp
      BY <3>1, OpAssumption DEF Ops
    <3> QED BY <3>1, <3>2 DEF IInv, CallInv
  <2>4. CASE B = {}
    <3>1. \A o \in TxOps : outcome'[o] = outcome[o]
      BY <2>0, <2>2, <2>4 DEF Ops
    <3> QED BY <2>1, <3>1, <1>st
  <2>5. CASE B # {}
    <3>1. [o \in TxOps |-> outcome'[o]]
             = [o \in TxOps |-> IF o \in B THEN "crashed" ELSE status[o]]
      BY <2>0, <2>2 DEF Ops
    <3>2. Batches!Die(B)
      BY <2>1, <2>3, <2>5, <3>1 DEF Batches!Die
    <3> QED BY <3>2 DEF Batches!Next
  <2> QED BY <2>4, <2>5
<1>6. ASSUME NEW t \in Threads, PlainCommit(t)
      PROVE  [Batches!Next]_(Batches!batchVars)
  <2>1. durable' = durable \cup pending[ProcOf[t]] /\ outcome' = outcome /\ LockFree(t)
    BY <1>6 DEF PlainCommit, CommitPending
  <2>2. CommittedBatches' = CommittedBatches
    BY <2>1, NoBatchPending, SameCommitted
  <2> QED BY <2>1, <2>2, <1>st
<1>7. ASSUME durable' = durable, outcome' = outcome
      PROVE  [Batches!Next]_(Batches!batchVars)
  <2>1. CommittedBatches' = CommittedBatches
    BY <1>7, SameCommitted
  <2> QED BY <1>7, <2>1, <1>st
<1> QED
  BY <1>1, <1>2, <1>3, <1>4, <1>5, <1>6, <1>7
     DEF Next, PlainStep, TxStep, PlainWrite, PlainWriteReconnects,
         RetrySucceeds, RetryRaises, PlainWriteRejected, PlainCommitFails,
         EnterNested, TxWrite, TxBodyRaises, LeaveNested, TxCommitFails,
         TxRollback, Read, ExecuteStatement, DropPending, dbVars, vars

\* transaction() implements the abstract store of atomic batches.
THEOREM Refinement == Spec => ImplementsAtomicBatches
<1>1. Init => Batches!Init
  <2> SUFFICES ASSUME Init PROVE Batches!Init
    OBVIOUS
  <2>1. CommittedBatches = {}
    <3>1. \A o \in TxOps : 1 \in 1..Length[o]
      BY OpAssumption DEF Ops
    <3> QED BY <3>1 DEF Init, CommittedBatches, WritesOf
  <2> QED BY <2>1 DEF Init, Batches!Init, Ops
<1> QED BY <1>1, RefinementStep, Invariant, PTL
        DEF Spec, ImplementsAtomicBatches, Batches!Spec

----------------------------------------------------------------------------
(* Isolation.                                                              *)

\* While a thread is inside a block, no step of another thread of its
\* process touches the uncommitted writes of the connection they share
\* (db.py, transaction() keeps _lock for the whole block).
THEOREM BlocksAreIsolated == Spec => BlockIsolated
<1> DEFINE Isolated ==
      \A t \in Threads :
          (pc[t] \in {"tx", "unwind"} /\ pc'[t] = pc[t] /\ pos'[t] = pos[t])
             => pending'[ProcOf[t]] = pending[ProcOf[t]]
<1>1. IInv /\ [Next]_vars => [Isolated]_vars
  <2> SUFFICES ASSUME IInv, Next,
                      NEW b \in Threads, pc[b] \in {"tx", "unwind"},
                      pc'[b] = pc[b], pos'[b] = pos[b]
               PROVE  pending'[ProcOf[b]] = pending[ProcOf[b]]
    OBVIOUS
  <2> USE ProcAssumption DEF IInv, TypeOK, LockInv
  <2>h. holder[ProcOf[b]] = b /\ b # NoThread
    OBVIOUS
  <2>1. ASSUME NEW t \in Threads, PlainWrite(t)
        PROVE  pending'[ProcOf[b]] = pending[ProcOf[b]]
    BY <2>h, <2>1 DEF PlainWrite, LockFree, ExecuteStatement, lockVars
  <2>2. ASSUME NEW t \in Threads, PlainWriteReconnects(t)
        PROVE  pending'[ProcOf[b]] = pending[ProcOf[b]]
    BY <2>h, <2>2 DEF PlainWriteReconnects, DropPending, Goto, Finished, LockFree
  <2>3. ASSUME NEW t \in Threads, RetrySucceeds(t)
        PROVE  pending'[ProcOf[b]] = pending[ProcOf[b]]
    BY <2>h, <2>3 DEF RetrySucceeds, ExecuteStatement, Goto
  <2>4. ASSUME NEW t \in Threads, PlainCommit(t)
        PROVE  pending'[ProcOf[b]] = pending[ProcOf[b]]
    BY <2>h, <2>4 DEF PlainCommit, CommitPending, Goto, Finished, LockFree
  <2>5. ASSUME NEW t \in Threads, PlainCommitFails(t)
        PROVE  pending'[ProcOf[b]] = pending[ProcOf[b]]
    BY <2>h, <2>5 DEF PlainCommitFails, DropPending, Goto, LockFree
  <2>6. ASSUME NEW t \in Threads, TxWrite(t)
        PROVE  pending'[ProcOf[b]] = pending[ProcOf[b]]
    BY <2>h, <2>6 DEF TxWrite, ExecuteStatement
  <2>7. ASSUME NEW t \in Threads, TxCommit(t)
        PROVE  pending'[ProcOf[b]] = pending[ProcOf[b]]
    BY <2>h, <2>7 DEF TxCommit, CommitPending, LeaveOutermost, Goto
  <2>8. ASSUME NEW t \in Threads, TxCommitFails(t)
        PROVE  pending'[ProcOf[b]] = pending[ProcOf[b]]
    BY <2>h, <2>8 DEF TxCommitFails, DropPending, LeaveOutermost, Goto
  <2>9. ASSUME NEW t \in Threads, TxRollback(t)
        PROVE  pending'[ProcOf[b]] = pending[ProcOf[b]]
    BY <2>h, <2>9 DEF TxRollback, DropPending, LeaveOutermost, Goto
  <2>10. ASSUME NEW p \in Procs, Crash(p)
        PROVE  pending'[ProcOf[b]] = pending[ProcOf[b]]
    BY <2>10 DEF Crash, DropPending
  <2>11. CASE pending' = pending
    BY <2>11
  <2> QED
    BY <2>1, <2>2, <2>3, <2>4, <2>5, <2>6, <2>7, <2>8, <2>9, <2>10, <2>11
       DEF Next, PlainStep, TxStep, StartPlain, EnterTransaction, RetryRaises,
           PlainWriteRejected, EnterNested, TxBodyRaises, LeaveNested, Return, Read,
           dbVars
<1> HIDE DEF Isolated
<1>2. Spec => [][Isolated]_vars
  BY <1>1, Invariant, PTL DEF Spec
<1> QED
  BY <1>2 DEF Isolated, BlockIsolated

\* Every process has one thread: an embedded store without a rules watcher,
\* or one that is used by its command line.
OneThreadEach == \A t, u \in Threads : ProcOf[t] = ProcOf[u] => t = u

\* The one statement of a call outside transaction(), from its execution on:
\* uncommitted on the connection nobody else uses, then in the file.
SingleKept(o) ==
    /\ outcome[o] = "ok" => <<o, 1>> \in durable
    /\ \A t \in Threads : op[t] = o =>
          /\ pc[t] = "done" => <<o, 1>> \in durable
          /\ pc[t] = "plain" /\ Finished(t) =>
                <<o, 1>> \in durable \cup pending[ProcOf[t]]
SingleInv == \A o \in PlainOps : Length[o] = 1 => SingleKept(o)

\* A statement that is executed is the call's first and only one.
LEMMA SingleExecuted ==
  ASSUME IInv, NEW s \in PlainOps, Length[s] = 1, SingleKept(s),
         NEW t \in Threads, ExecuteStatement(t), op' = op, outcome' = outcome,
         pc[t] # "done", pc' = pc \/ pc' = [pc EXCEPT ![t] = "plain"]
  PROVE  SingleKept(s)'
<1> USE ProcAssumption, OpAssumption DEF IInv, TypeOK
<1>1. /\ durable' = durable /\ ~Finished(t)
      /\ pending' = [pending EXCEPT ![ProcOf[t]] = @ \cup {<<op[t], pos[t]>>}]
      /\ pos' = [pos EXCEPT ![t] = @ + 1]
  BY DEF ExecuteStatement
<1>2. ASSUME NEW u \in Threads, op[u] = s
      PROVE  /\ pc'[u] = "done" => <<s, 1>> \in durable
             /\ pc'[u] = "plain" /\ pos'[u] > Length[op[u]] =>
                   <<s, 1>> \in durable \cup pending'[ProcOf[u]]
  <2>1. CASE u = t
    <3>1. pos[t] = 1
      BY <1>1, <1>2, <2>1 DEF Finished
    <3>2. <<s, 1>> \in pending'[ProcOf[t]]
      BY <1>1, <1>2, <2>1, <3>1
    <3>3. pc'[t] # "done"
      OBVIOUS
    <3> QED
      BY <2>1, <3>2, <3>3
  <2>2. CASE u # t
    <3>1. pc'[u] = pc[u] /\ pos'[u] = pos[u]
      BY <1>1, <2>2
    <3>2. pending[ProcOf[u]] \subseteq pending'[ProcOf[u]]
      BY <1>1
    <3> QED
      BY <1>2, <3>1, <3>2 DEF SingleKept, Finished
  <2> QED
    BY <2>1, <2>2
<1> QED
  BY <1>1, <1>2 DEF SingleKept, Finished

LEMMA SingleStep ==
  ASSUME OneThreadEach, IInv, SingleInv, [Next]_vars
  PROVE  SingleInv'
<1> SUFFICES ASSUME NEW s \in PlainOps, Length[s] = 1 PROVE SingleKept(s)'
  BY DEF SingleInv
<1>0. SingleKept(s)
  BY DEF SingleInv
<1> USE ProcAssumption, OpAssumption
        DEF IInv, TypeOK, CallInv, InBlock, Ops, SingleKept, OneThreadEach
<1>1. ASSUME NEW t \in Threads, NEW o \in Ops, StartPlain(t, o) PROVE SingleKept(s)'
  <2>1. /\ pc' = [pc EXCEPT ![t] = "plain"] /\ op' = [op EXCEPT ![t] = o]
        /\ pos' = [pos EXCEPT ![t] = 1]
        /\ outcome' = [outcome EXCEPT ![o] = "running"]
        /\ durable' = durable /\ pending' = pending
    BY <1>1 DEF StartPlain, Start, Goto, dbVars
  <2>2. outcome'[s] = "ok" => outcome[s] = "ok"
    BY <2>1
  <2>3. ASSUME NEW u \in Threads, op'[u] = s
        PROVE  /\ pc'[u] = "done" => <<s, 1>> \in durable
               /\ pc'[u] = "plain" /\ pos'[u] > Length[op'[u]] =>
                     <<s, 1>> \in durable \cup pending[ProcOf[u]]
    <3>1. CASE u = t
      BY <2>1, <2>3, <3>1
    <3>2. CASE u # t
      BY <1>0, <2>1, <2>3, <3>2 DEF Finished
    <3> QED
      BY <3>1, <3>2
  <2> QED
    BY <1>0, <2>1, <2>2, <2>3 DEF Finished
<1>2. ASSUME NEW t \in Threads, NEW o \in Ops, EnterTransaction(t, o) PROVE SingleKept(s)'
  BY SMTT(30), <1>0, <1>2 DEF EnterTransaction, Start, LockFree, Goto, dbVars, Finished
<1>3. ASSUME NEW t \in Threads, PlainWrite(t) PROVE SingleKept(s)'
  <2>1. /\ ExecuteStatement(t) /\ op' = op /\ outcome' = outcome
        /\ pc[t] # "done" /\ pc' = pc
    BY <1>3 DEF PlainWrite
  <2> QED
    BY <1>0, <2>1, SingleExecuted
<1>4. ASSUME NEW t \in Threads, PlainWriteReconnects(t) PROVE SingleKept(s)'
  BY SMTT(30), <1>0, <1>4 DEF PlainWriteReconnects, DropPending, Goto, Finished
<1>5. ASSUME NEW t \in Threads, RetrySucceeds(t) PROVE SingleKept(s)'
  <2>1. /\ ExecuteStatement(t) /\ op' = op /\ outcome' = outcome
        /\ pc[t] # "done" /\ pc' = [pc EXCEPT ![t] = "plain"]
    BY <1>5 DEF RetrySucceeds, Goto
  <2> QED
    BY <1>0, <2>1, SingleExecuted
<1>6. ASSUME NEW t \in Threads, RetryRaises(t) PROVE SingleKept(s)'
  BY <1>0, <1>6 DEF RetryRaises, Goto, dbVars, Finished
<1>7. ASSUME NEW t \in Threads, PlainWriteRejected(t) PROVE SingleKept(s)'
  BY <1>0, <1>7 DEF PlainWriteRejected, Goto, Finished
<1>8. ASSUME NEW t \in Threads, PlainCommit(t) PROVE SingleKept(s)'
  BY <1>0, <1>8 DEF PlainCommit, CommitPending, Goto, Finished
<1>9. ASSUME NEW t \in Threads, PlainCommitFails(t) PROVE SingleKept(s)'
  BY <1>0, <1>9 DEF PlainCommitFails, DropPending, Goto, Finished
<1>10. ASSUME NEW t \in Threads, EnterNested(t) PROVE SingleKept(s)'
  BY <1>0, <1>10 DEF EnterNested, dbVars, Finished
<1>11. ASSUME NEW t \in Threads, TxWrite(t) PROVE SingleKept(s)'
  <2>1. /\ ExecuteStatement(t) /\ op' = op /\ outcome' = outcome
        /\ pc[t] # "done" /\ pc' = pc
    BY <1>11 DEF TxWrite
  <2> QED
    BY <1>0, <2>1, SingleExecuted
<1>12. ASSUME NEW t \in Threads, TxBodyRaises(t) PROVE SingleKept(s)'
  BY <1>0, <1>12 DEF TxBodyRaises, Goto, Finished
<1>13. ASSUME NEW t \in Threads, LeaveNested(t) PROVE SingleKept(s)'
  BY <1>0, <1>13 DEF LeaveNested, dbVars, Finished
<1>14. ASSUME NEW t \in Threads, TxCommit(t) PROVE SingleKept(s)'
  BY <1>0, <1>14 DEF TxCommit, CommitPending, LeaveOutermost, Goto, Finished
<1>15. ASSUME NEW t \in Threads, TxCommitFails(t) PROVE SingleKept(s)'
  BY <1>0, <1>15 DEF TxCommitFails, DropPending, LeaveOutermost, Goto, Finished
<1>16. ASSUME NEW t \in Threads, TxRollback(t) PROVE SingleKept(s)'
  BY SMTT(30), <1>0, <1>16 DEF TxRollback, DropPending, LeaveOutermost, Goto, Finished
<1>17. ASSUME NEW t \in Threads, Return(t) PROVE SingleKept(s)'
  BY <1>0, <1>17 DEF Return, Goto, dbVars, Finished
<1>18. ASSUME NEW t \in Threads, Read(t) PROVE SingleKept(s)'
  BY <1>0, <1>18 DEF Read, dbVars, Finished
<1>19. ASSUME NEW p \in Procs, Crash(p) PROVE SingleKept(s)'
  BY <1>0, <1>19 DEF Crash, DropPending, Finished
<1>20. CASE UNCHANGED vars
  BY <1>0, <1>20 DEF vars, Finished
<1> QED
  BY <1>1, <1>2, <1>3, <1>4, <1>5, <1>6, <1>7, <1>8, <1>9, <1>10,
     <1>11, <1>12, <1>13, <1>14, <1>15, <1>16, <1>17, <1>18, <1>19, <1>20
     DEF Next, PlainStep, TxStep

\* With one thread to a process, a call of one statement that was acknowledged
\* is in the file: no rollback of a sibling can take it along (db.py,
\* execute_write and commit, "a sibling write must not be folded into").  With
\* two threads it is false, which is the finding of run kdb_folded.
THEOREM SiblingIsKept ==
  ASSUME OneThreadEach
  PROVE  Spec => []SiblingWriteNotLost
<1>1. Init => SingleInv
  BY DEF Init, SingleInv, SingleKept, Ops
<1>2. IInv /\ SingleInv /\ [Next]_vars => SingleInv'
  BY SingleStep
<1>3. SingleInv => SiblingWriteNotLost
  BY OpAssumption DEF SingleInv, SingleKept, SiblingWriteNotLost, WritesOf
<1> QED
  BY <1>1, <1>2, <1>3, Invariant, PTL DEF Spec
==============================================================================
