------------------------- MODULE RuleLifecycleProofs -------------------------
(***************************************************************************)
(* Proofs about RuleLifecycle, for every number of rows and files: its     *)
(* types with any number of servers; and with one server at a time, that   *)
(* supersession has no cycle and that the audit trail tells which rows are *)
(* archived.                                                               *)
(***************************************************************************)
EXTENDS RuleLifecycle, TLAPS

\* One server runs the tools, so a tool's check and its write are not
\* interleaved with another tool.
OneServer == \A c, d \in Callers : c = d

\* Rows not inserted yet have the default status, and a supersede that is
\* about to be written names two inserted rows, the successor not superseded.
SupersedeInv ==
    /\ \A r \in Ids \ Rules : status[r] = "active"
    /\ \A c \in Callers : pc[c] = "supersede" =>
          /\ old[c] \in Rules /\ new[c] \in Rules /\ old[c] # new[c]
          /\ status[new[c]] # "superseded"

\* Only inserted rows are archived, and a tool about to write a row names one.
RefInv ==
    /\ archived \subseteq Rules
    /\ \A c \in Callers :
          /\ pc[c] \in {"supersede", "unsupersede", "revive", "revived", "swept"}
                => old[c] \in Ids
          /\ pc[c] = "supersede" => new[c] \in Ids

\* The trail and the flags differ at most on the row whose event is due.
TrailInv ==
    /\ \A c \in Callers :
          /\ pc[c] = "revived" => old[c] \notin archived
          /\ pc[c] = "swept" => old[c] \in archived
    /\ \A r \in Ids : (r \in trail) # (r \in archived) =>
          \E c \in Callers : pc[c] \in {"revived", "swept"} /\ old[c] = r

Covered(f) == RowsOf(f) \ archived # {}
Syncing(c) == pc[c] \in {"index", "insert", "revive", "revived", "sweep",
                         "swept", "refused"}

\* During a sync with no change of the files, every file is still to come, in
\* hand, or has a live row; once the sweep has begun, the rows it has still to
\* archive are those whose file is missing.
ConvergeInv ==
    \A c \in Callers : calm[c] =>
        /\ Syncing(c)
        /\ pc[c] \in {"revive", "revived"} => old[c] \in Rules
        /\ pc[c] = "revived" => old[c] \notin archived
        /\ \A f \in disk :
              \/ Covered(f)
              \/ f \in todo[c]
              \/ pc[c] = "insert" /\ at[c] = f
              \/ pc[c] = "revive" /\ file[old[c]] = f
        /\ pc[c] \in {"sweep", "swept", "refused"} => todo[c] = {}
        /\ pc[c] \in {"sweep", "swept"} =>
              /\ Orphans \subseteq orphans[c]
              /\ \A r \in orphans[c] : file[r] \notin disk

----------------------------------------------------------------------------
(* Each invariant is preserved by every step, one proof step per action.   *)

LEMMA RulesInIds == TypeOK => Rules \subseteq Ids
  BY BoundAssumption DEF TypeOK, Rules, Ids

LEMMA TypeStep == TypeOK /\ RefInv /\ [Next]_vars => TypeOK'
<1> SUFFICES ASSUME TypeOK /\ RefInv, [Next]_vars PROVE TypeOK'
  OBVIOUS
<1> USE FileAssumption, BoundAssumption
       DEF TypeOK, RefInv, PC, Ids, Rules, NoRule, rowVars, callVars
<1>1. ASSUME NEW c \in Callers, SyncStarts(c) PROVE TypeOK'
  BY <1>1 DEF SyncStarts, Goto
<1>2. ASSUME NEW c \in Callers, SyncInserts(c) PROVE TypeOK'
  BY <1>2 DEF SyncInserts, Goto, Forget, InsertRule
<1>3. ASSUME NEW c \in Callers, SyncRestores(c) PROVE TypeOK'
  BY <1>3 DEF SyncRestores, Goto
<1>4. ASSUME NEW c \in Callers, SyncRestoredEvent(c) PROVE TypeOK'
  BY <1>4 DEF SyncRestoredEvent, Goto, Forget
<1>5. ASSUME NEW c \in Callers, SyncArchivedEvent(c) PROVE TypeOK'
  BY <1>5 DEF SyncArchivedEvent, Goto, Forget
<1>6. ASSUME NEW c \in Callers, SyncReturns(c) PROVE TypeOK'
  BY <1>6 DEF SyncReturns, SyncSwept
<1>7. ASSUME NEW c \in Callers, NEW f \in Files, SyncPasses(c, f) PROVE TypeOK'
  BY <1>7 DEF SyncPasses, Takes, RowsOf
<1>8. ASSUME NEW c \in Callers, NEW f \in Files, SyncFindsNone(c, f)
      PROVE TypeOK'
  BY <1>8 DEF SyncFindsNone, Goto, Takes, RowsOf
<1>9. ASSUME NEW c \in Callers, NEW f \in Files, NEW r \in Rules, SyncFindsArchived(c, f, r)
      PROVE TypeOK'
  BY <1>9 DEF SyncFindsArchived, Goto, Takes, RowsOf
<1>10. ASSUME NEW c \in Callers, NEW force \in BOOLEAN, SyncLists(c, force)
      PROVE TypeOK'
  <2>1. Orphans \subseteq Ids
    BY DEF Orphans, Managed
  <2>2. pc' \in [Callers -> PC]
    BY <1>10 DEF SyncLists, Goto
  <2> QED
    BY <1>10, <2>1, <2>2 DEF SyncLists
<1>11. ASSUME NEW c \in Callers, NEW r \in Rules, SyncArchives(c, r)
      PROVE TypeOK'
  BY <1>11 DEF SyncArchives, Goto
<1>12. ASSUME NEW c \in Callers, SupersedeWrites(c) PROVE TypeOK'
  BY <1>12 DEF SupersedeWrites, Goto, Forget
<1>13. ASSUME NEW c \in Callers, UnsupersedeWrites(c) PROVE TypeOK'
  BY <1>13 DEF UnsupersedeWrites, Goto, Forget
<1>14. ASSUME NEW c \in Callers, AddRuleInserts(c) PROVE TypeOK'
  BY <1>14 DEF AddRuleInserts, Goto, Forget, InsertRule
<1>15. ASSUME NEW c \in Callers, NEW o \in Rules, NEW n \in Rules, SupersedeReads(c, o, n)
      PROVE TypeOK'
  BY <1>15 DEF SupersedeReads, Goto
<1>16. ASSUME NEW c \in Callers, NEW r \in Rules, UnsupersedeReads(c, r)
      PROVE TypeOK'
  BY <1>16 DEF UnsupersedeReads, Goto
<1>17. ASSUME NEW c \in Callers, NEW r \in Rules, Recall(c, r) PROVE TypeOK'
  BY <1>17 DEF Recall
<1>18. ASSUME NEW c \in Callers, NEW rs \in SUBSET Rules, Restore(c, rs)
      PROVE TypeOK'
  BY <1>18 DEF Restore
<1>19. ASSUME NEW c \in Callers, NEW f \in Files, AddRuleWritesFile(c, f)
      PROVE TypeOK'
  BY <1>19 DEF AddRuleWritesFile, Goto
<1>20. ASSUME NEW c \in Callers, NEW f \in Files \cup {NoFile}, AddRuleIndexes(c, f)
      PROVE TypeOK'
  BY <1>20 DEF AddRuleIndexes, InsertRule
<1>21. ASSUME NEW c \in Callers, NEW r \in Rules, NEW f \in Files, AddRuleUpdates(c, r, f)
      PROVE TypeOK'
  BY <1>21 DEF AddRuleUpdates
<1>22. ASSUME NEW f \in Files, FilesChange(f) PROVE TypeOK'
  BY <1>22 DEF FilesChange
<1>23. CASE UNCHANGED vars
  BY <1>23 DEF vars
<1> QED
  BY <1>1, <1>2, <1>3, <1>4, <1>5, <1>6, <1>7, <1>8, <1>9, <1>10, <1>11,
     <1>12, <1>13, <1>14, <1>15, <1>16, <1>17, <1>18, <1>19, <1>20, <1>21, <1>22, <1>23
  DEF Next, SyncStep, RowStep

LEMMA RefStep == TypeOK /\ RefInv /\ [Next]_vars => RefInv'
<1> SUFFICES ASSUME TypeOK /\ RefInv, [Next]_vars PROVE RefInv'
  OBVIOUS
<1> USE FileAssumption, BoundAssumption
       DEF TypeOK, RefInv, PC, Ids, Rules, NoRule, rowVars, callVars
<1>1. ASSUME NEW c \in Callers, SyncStarts(c) PROVE RefInv'
  BY <1>1 DEF SyncStarts, Goto
<1>2. ASSUME NEW c \in Callers, SyncInserts(c) PROVE RefInv'
  BY <1>2 DEF SyncInserts, Goto, Forget, InsertRule
<1>3. ASSUME NEW c \in Callers, SyncRestores(c) PROVE RefInv'
  BY <1>3 DEF SyncRestores, Goto
<1>4. ASSUME NEW c \in Callers, SyncRestoredEvent(c) PROVE RefInv'
  BY <1>4 DEF SyncRestoredEvent, Goto, Forget
<1>5. ASSUME NEW c \in Callers, SyncArchivedEvent(c) PROVE RefInv'
  BY <1>5 DEF SyncArchivedEvent, Goto, Forget
<1>6. ASSUME NEW c \in Callers, SyncReturns(c) PROVE RefInv'
  BY <1>6 DEF SyncReturns, SyncSwept
<1>7. ASSUME NEW c \in Callers, NEW f \in Files, SyncPasses(c, f) PROVE RefInv'
  BY <1>7 DEF SyncPasses, Takes, RowsOf
<1>8. ASSUME NEW c \in Callers, NEW f \in Files, SyncFindsNone(c, f)
      PROVE RefInv'
  BY <1>8 DEF SyncFindsNone, Goto, Takes, RowsOf
<1>9. ASSUME NEW c \in Callers, NEW f \in Files, NEW r \in Rules, SyncFindsArchived(c, f, r)
      PROVE RefInv'
  BY <1>9 DEF SyncFindsArchived, Goto, Takes, RowsOf
<1>10. ASSUME NEW c \in Callers, NEW force \in BOOLEAN, SyncLists(c, force)
      PROVE RefInv'
  BY <1>10 DEF SyncLists, Goto, Orphans, Managed
<1>11. ASSUME NEW c \in Callers, NEW r \in Rules, SyncArchives(c, r)
      PROVE RefInv'
  BY <1>11 DEF SyncArchives, Goto
<1>12. ASSUME NEW c \in Callers, SupersedeWrites(c) PROVE RefInv'
  BY <1>12 DEF SupersedeWrites, Goto, Forget
<1>13. ASSUME NEW c \in Callers, UnsupersedeWrites(c) PROVE RefInv'
  BY <1>13 DEF UnsupersedeWrites, Goto, Forget
<1>14. ASSUME NEW c \in Callers, AddRuleInserts(c) PROVE RefInv'
  BY <1>14 DEF AddRuleInserts, Goto, Forget, InsertRule
<1>15. ASSUME NEW c \in Callers, NEW o \in Rules, NEW n \in Rules, SupersedeReads(c, o, n)
      PROVE RefInv'
  BY <1>15 DEF SupersedeReads, Goto
<1>16. ASSUME NEW c \in Callers, NEW r \in Rules, UnsupersedeReads(c, r)
      PROVE RefInv'
  BY <1>16 DEF UnsupersedeReads, Goto
<1>17. ASSUME NEW c \in Callers, NEW r \in Rules, Recall(c, r) PROVE RefInv'
  BY <1>17 DEF Recall
<1>18. ASSUME NEW c \in Callers, NEW rs \in SUBSET Rules, Restore(c, rs)
      PROVE RefInv'
  BY <1>18 DEF Restore
<1>19. ASSUME NEW c \in Callers, NEW f \in Files, AddRuleWritesFile(c, f)
      PROVE RefInv'
  BY <1>19 DEF AddRuleWritesFile, Goto
<1>20. ASSUME NEW c \in Callers, NEW f \in Files \cup {NoFile}, AddRuleIndexes(c, f)
      PROVE RefInv'
  BY <1>20 DEF AddRuleIndexes, InsertRule
<1>21. ASSUME NEW c \in Callers, NEW r \in Rules, NEW f \in Files, AddRuleUpdates(c, r, f)
      PROVE RefInv'
  BY <1>21 DEF AddRuleUpdates
<1>22. ASSUME NEW f \in Files, FilesChange(f) PROVE RefInv'
  BY <1>22 DEF FilesChange
<1>23. CASE UNCHANGED vars
  BY <1>23 DEF vars
<1> QED
  BY <1>1, <1>2, <1>3, <1>4, <1>5, <1>6, <1>7, <1>8, <1>9, <1>10, <1>11,
     <1>12, <1>13, <1>14, <1>15, <1>16, <1>17, <1>18, <1>19, <1>20, <1>21, <1>22, <1>23
  DEF Next, SyncStep, RowStep

LEMMA SupersedeStep ==
  OneServer /\ TypeOK /\ SupersedeInv /\ [Next]_vars => SupersedeInv'
<1> SUFFICES ASSUME OneServer /\ TypeOK /\ SupersedeInv, [Next]_vars
      PROVE SupersedeInv'
  OBVIOUS
<1> USE FileAssumption, BoundAssumption
       DEF OneServer, TypeOK, SupersedeInv, PC, Ids, Rules, NoRule, rowVars, callVars
<1>1. ASSUME NEW c \in Callers, SyncStarts(c) PROVE SupersedeInv'
  BY <1>1 DEF SyncStarts, Goto
<1>2. ASSUME NEW c \in Callers, SyncInserts(c) PROVE SupersedeInv'
  BY <1>2 DEF SyncInserts, Goto, Forget, InsertRule
<1>3. ASSUME NEW c \in Callers, SyncRestores(c) PROVE SupersedeInv'
  BY <1>3 DEF SyncRestores, Goto
<1>4. ASSUME NEW c \in Callers, SyncRestoredEvent(c) PROVE SupersedeInv'
  BY <1>4 DEF SyncRestoredEvent, Goto, Forget
<1>5. ASSUME NEW c \in Callers, SyncArchivedEvent(c) PROVE SupersedeInv'
  BY <1>5 DEF SyncArchivedEvent, Goto, Forget
<1>6. ASSUME NEW c \in Callers, SyncReturns(c) PROVE SupersedeInv'
  BY <1>6 DEF SyncReturns, SyncSwept
<1>7. ASSUME NEW c \in Callers, NEW f \in Files, SyncPasses(c, f)
      PROVE SupersedeInv'
  BY <1>7 DEF SyncPasses, Takes, RowsOf
<1>8. ASSUME NEW c \in Callers, NEW f \in Files, SyncFindsNone(c, f)
      PROVE SupersedeInv'
  BY <1>8 DEF SyncFindsNone, Goto, Takes, RowsOf
<1>9. ASSUME NEW c \in Callers, NEW f \in Files, NEW r \in Rules, SyncFindsArchived(c, f, r)
      PROVE SupersedeInv'
  BY <1>9 DEF SyncFindsArchived, Goto, Takes, RowsOf
<1>10. ASSUME NEW c \in Callers, NEW force \in BOOLEAN, SyncLists(c, force)
      PROVE SupersedeInv'
  BY <1>10 DEF SyncLists, Goto, Orphans, Managed
<1>11. ASSUME NEW c \in Callers, NEW r \in Rules, SyncArchives(c, r)
      PROVE SupersedeInv'
  BY <1>11 DEF SyncArchives, Goto
<1>12. ASSUME NEW c \in Callers, SupersedeWrites(c) PROVE SupersedeInv'
  BY <1>12 DEF SupersedeWrites, Goto, Forget
<1>13. ASSUME NEW c \in Callers, UnsupersedeWrites(c) PROVE SupersedeInv'
  BY <1>13 DEF UnsupersedeWrites, Goto, Forget
<1>14. ASSUME NEW c \in Callers, AddRuleInserts(c) PROVE SupersedeInv'
  BY <1>14 DEF AddRuleInserts, Goto, Forget, InsertRule
<1>15. ASSUME NEW c \in Callers, NEW o \in Rules, NEW n \in Rules, SupersedeReads(c, o, n)
      PROVE SupersedeInv'
  BY <1>15 DEF SupersedeReads, Goto
<1>16. ASSUME NEW c \in Callers, NEW r \in Rules, UnsupersedeReads(c, r)
      PROVE SupersedeInv'
  BY <1>16 DEF UnsupersedeReads, Goto
<1>17. ASSUME NEW c \in Callers, NEW r \in Rules, Recall(c, r)
      PROVE SupersedeInv'
  BY <1>17 DEF Recall
<1>18. ASSUME NEW c \in Callers, NEW rs \in SUBSET Rules, Restore(c, rs)
      PROVE SupersedeInv'
  BY <1>18 DEF Restore
<1>19. ASSUME NEW c \in Callers, NEW f \in Files, AddRuleWritesFile(c, f)
      PROVE SupersedeInv'
  BY <1>19 DEF AddRuleWritesFile, Goto
<1>20. ASSUME NEW c \in Callers, NEW f \in Files \cup {NoFile}, AddRuleIndexes(c, f)
      PROVE SupersedeInv'
  BY <1>20 DEF AddRuleIndexes, InsertRule
<1>21. ASSUME NEW c \in Callers, NEW r \in Rules, NEW f \in Files, AddRuleUpdates(c, r, f)
      PROVE SupersedeInv'
  BY <1>21 DEF AddRuleUpdates
<1>22. ASSUME NEW f \in Files, FilesChange(f) PROVE SupersedeInv'
  BY <1>22 DEF FilesChange
<1>23. CASE UNCHANGED vars
  BY <1>23 DEF vars
<1> QED
  BY <1>1, <1>2, <1>3, <1>4, <1>5, <1>6, <1>7, <1>8, <1>9, <1>10, <1>11,
     <1>12, <1>13, <1>14, <1>15, <1>16, <1>17, <1>18, <1>19, <1>20, <1>21, <1>22, <1>23
  DEF Next, SyncStep, RowStep

\* A step that supersedes nothing new and moves no successor makes no cycle.
LEMMA NothingSuperseded ==
  ASSUME NoSupersedeCycle, Superseded' \subseteq Superseded,
         \A r \in Superseded' : succ'[r] = succ[r]
  PROVE  NoSupersedeCycle'
<1> SUFFICES ASSUME NEW S \in SUBSET Superseded', S # {}
             PROVE  \E r \in S : succ'[r] \notin S
  BY DEF NoSupersedeCycle
<1>1. PICK r \in S : succ[r] \notin S
  BY DEF NoSupersedeCycle
<1> QED
  BY <1>1

\* The rule superseded is a way out of every set it belongs to: its successor
\* is not superseded.
LEMMA SupersedeWritesNoCycle ==
  ASSUME TypeOK, SupersedeInv, NoSupersedeCycle, NEW c \in Callers,
         SupersedeWrites(c)
  PROVE  NoSupersedeCycle'
<1> DEFINE o == old[c]
           n == new[c]
<1>1. /\ o \in Rules /\ n \in Rules /\ o # n /\ status[n] # "superseded"
      /\ status' = [status EXCEPT ![o] = "superseded"]
      /\ succ' = [succ EXCEPT ![o] = n]
      /\ count' = count
      /\ o \in Ids /\ n \in Ids
  BY RulesInIds DEF SupersedeWrites, Goto, SupersedeInv
<1>2. /\ status'[n] # "superseded" /\ succ'[o] = n
      /\ \A r \in Ids \ {o} : status'[r] = status[r] /\ succ'[r] = succ[r]
  BY <1>1 DEF TypeOK
<1>3. Superseded' \subseteq Superseded \cup {o} /\ n \notin Superseded'
  BY <1>1, <1>2, RulesInIds DEF Superseded, Rules
<1> HIDE DEF o, n
<1> SUFFICES ASSUME NEW S \in SUBSET Superseded', S # {}
             PROVE  \E r \in S : succ'[r] \notin S
  BY DEF NoSupersedeCycle
<1>4. CASE o \in S
  BY <1>2, <1>3, <1>4
<1>5. CASE o \notin S
  <2>1. S \in SUBSET Superseded
    BY <1>3, <1>5
  <2>2. PICK r \in S : succ[r] \notin S
    BY <2>1 DEF NoSupersedeCycle
  <2>3. r \in Ids \ {o}
    BY <2>1, <1>5, RulesInIds DEF Superseded
  <2> QED
    BY <1>2, <2>2, <2>3
<1> QED
  BY <1>4, <1>5

LEMMA CycleStep ==
  TypeOK /\ SupersedeInv /\ NoSupersedeCycle /\ [Next]_vars => NoSupersedeCycle'
<1> SUFFICES ASSUME TypeOK /\ SupersedeInv /\ NoSupersedeCycle, [Next]_vars
      PROVE NoSupersedeCycle'
  OBVIOUS
<1> USE FileAssumption, BoundAssumption
       DEF TypeOK, SupersedeInv, Superseded, PC, Ids, Rules, NoRule, rowVars, callVars
<1>1. ASSUME NEW c \in Callers, SyncStarts(c) PROVE NoSupersedeCycle'
  BY <1>1, NothingSuperseded DEF SyncStarts, Goto
<1>2. ASSUME NEW c \in Callers, SyncInserts(c) PROVE NoSupersedeCycle'
  BY <1>2, NothingSuperseded DEF SyncInserts, Goto, Forget, InsertRule
<1>3. ASSUME NEW c \in Callers, SyncRestores(c) PROVE NoSupersedeCycle'
  BY <1>3, NothingSuperseded DEF SyncRestores, Goto
<1>4. ASSUME NEW c \in Callers, SyncRestoredEvent(c) PROVE NoSupersedeCycle'
  BY <1>4, NothingSuperseded DEF SyncRestoredEvent, Goto, Forget
<1>5. ASSUME NEW c \in Callers, SyncArchivedEvent(c) PROVE NoSupersedeCycle'
  BY <1>5, NothingSuperseded DEF SyncArchivedEvent, Goto, Forget
<1>6. ASSUME NEW c \in Callers, SyncReturns(c) PROVE NoSupersedeCycle'
  BY <1>6, NothingSuperseded DEF SyncReturns, SyncSwept
<1>7. ASSUME NEW c \in Callers, NEW f \in Files, SyncPasses(c, f)
      PROVE NoSupersedeCycle'
  BY <1>7, NothingSuperseded DEF SyncPasses, Takes, RowsOf
<1>8. ASSUME NEW c \in Callers, NEW f \in Files, SyncFindsNone(c, f)
      PROVE NoSupersedeCycle'
  BY <1>8, NothingSuperseded DEF SyncFindsNone, Goto, Takes, RowsOf
<1>9. ASSUME NEW c \in Callers, NEW f \in Files, NEW r \in Rules, SyncFindsArchived(c, f, r)
      PROVE NoSupersedeCycle'
  BY <1>9, NothingSuperseded DEF SyncFindsArchived, Goto, Takes, RowsOf
<1>10. ASSUME NEW c \in Callers, NEW force \in BOOLEAN, SyncLists(c, force)
      PROVE NoSupersedeCycle'
  BY <1>10, NothingSuperseded DEF SyncLists, Goto, Orphans, Managed
<1>11. ASSUME NEW c \in Callers, NEW r \in Rules, SyncArchives(c, r)
      PROVE NoSupersedeCycle'
  BY <1>11, NothingSuperseded DEF SyncArchives, Goto
<1>12. ASSUME NEW c \in Callers, SupersedeWrites(c) PROVE NoSupersedeCycle'
  BY <1>12, SupersedeWritesNoCycle
<1>13. ASSUME NEW c \in Callers, UnsupersedeWrites(c) PROVE NoSupersedeCycle'
  BY <1>13, NothingSuperseded DEF UnsupersedeWrites, Goto, Forget
<1>14. ASSUME NEW c \in Callers, AddRuleInserts(c) PROVE NoSupersedeCycle'
  BY <1>14, NothingSuperseded DEF AddRuleInserts, Goto, Forget, InsertRule
<1>15. ASSUME NEW c \in Callers, NEW o \in Rules, NEW n \in Rules, SupersedeReads(c, o, n)
      PROVE NoSupersedeCycle'
  BY <1>15, NothingSuperseded DEF SupersedeReads, Goto
<1>16. ASSUME NEW c \in Callers, NEW r \in Rules, UnsupersedeReads(c, r)
      PROVE NoSupersedeCycle'
  BY <1>16, NothingSuperseded DEF UnsupersedeReads, Goto
<1>17. ASSUME NEW c \in Callers, NEW r \in Rules, Recall(c, r)
      PROVE NoSupersedeCycle'
  BY <1>17, NothingSuperseded DEF Recall
<1>18. ASSUME NEW c \in Callers, NEW rs \in SUBSET Rules, Restore(c, rs)
      PROVE NoSupersedeCycle'
  BY <1>18, NothingSuperseded DEF Restore
<1>19. ASSUME NEW c \in Callers, NEW f \in Files, AddRuleWritesFile(c, f)
      PROVE NoSupersedeCycle'
  BY <1>19, NothingSuperseded DEF AddRuleWritesFile, Goto
<1>20. ASSUME NEW c \in Callers, NEW f \in Files \cup {NoFile}, AddRuleIndexes(c, f)
      PROVE NoSupersedeCycle'
  BY <1>20, NothingSuperseded DEF AddRuleIndexes, InsertRule
<1>21. ASSUME NEW c \in Callers, NEW r \in Rules, NEW f \in Files, AddRuleUpdates(c, r, f)
      PROVE NoSupersedeCycle'
  BY <1>21, NothingSuperseded DEF AddRuleUpdates
<1>22. ASSUME NEW f \in Files, FilesChange(f) PROVE NoSupersedeCycle'
  BY <1>22, NothingSuperseded DEF FilesChange
<1>23. CASE UNCHANGED vars
  BY <1>23, NothingSuperseded DEF vars
<1> QED
  BY <1>1, <1>2, <1>3, <1>4, <1>5, <1>6, <1>7, <1>8, <1>9, <1>10, <1>11,
     <1>12, <1>13, <1>14, <1>15, <1>16, <1>17, <1>18, <1>19, <1>20, <1>21, <1>22, <1>23
  DEF Next, SyncStep, RowStep

LEMMA TrailStep ==
  OneServer /\ TypeOK /\ RefInv /\ TrailInv /\ [Next]_vars => TrailInv'
<1> SUFFICES ASSUME OneServer /\ TypeOK /\ RefInv /\ TrailInv, [Next]_vars
      PROVE TrailInv'
  OBVIOUS
<1> USE FileAssumption, BoundAssumption
       DEF OneServer, TypeOK, RefInv, TrailInv, PC, Ids, Rules, NoRule, rowVars, callVars
<1>1. ASSUME NEW c \in Callers, SyncStarts(c) PROVE TrailInv'
  BY <1>1 DEF SyncStarts, Goto
<1>2. ASSUME NEW c \in Callers, SyncInserts(c) PROVE TrailInv'
  BY <1>2 DEF SyncInserts, Goto, Forget, InsertRule
<1>3. ASSUME NEW c \in Callers, SyncRestores(c) PROVE TrailInv'
  BY <1>3 DEF SyncRestores, Goto
<1>4. ASSUME NEW c \in Callers, SyncRestoredEvent(c) PROVE TrailInv'
  BY <1>4 DEF SyncRestoredEvent, Goto, Forget
<1>5. ASSUME NEW c \in Callers, SyncArchivedEvent(c) PROVE TrailInv'
  BY <1>5 DEF SyncArchivedEvent, Goto, Forget
<1>6. ASSUME NEW c \in Callers, SyncReturns(c) PROVE TrailInv'
  BY <1>6 DEF SyncReturns, SyncSwept
<1>7. ASSUME NEW c \in Callers, NEW f \in Files, SyncPasses(c, f)
      PROVE TrailInv'
  BY <1>7 DEF SyncPasses, Takes, RowsOf
<1>8. ASSUME NEW c \in Callers, NEW f \in Files, SyncFindsNone(c, f)
      PROVE TrailInv'
  BY <1>8 DEF SyncFindsNone, Goto, Takes, RowsOf
<1>9. ASSUME NEW c \in Callers, NEW f \in Files, NEW r \in Rules, SyncFindsArchived(c, f, r)
      PROVE TrailInv'
  BY <1>9 DEF SyncFindsArchived, Goto, Takes, RowsOf
<1>10. ASSUME NEW c \in Callers, NEW force \in BOOLEAN, SyncLists(c, force)
      PROVE TrailInv'
  BY <1>10 DEF SyncLists, Goto, Orphans, Managed
<1>11. ASSUME NEW c \in Callers, NEW r \in Rules, SyncArchives(c, r)
      PROVE TrailInv'
  BY <1>11 DEF SyncArchives, Goto
<1>12. ASSUME NEW c \in Callers, SupersedeWrites(c) PROVE TrailInv'
  BY <1>12 DEF SupersedeWrites, Goto, Forget
<1>13. ASSUME NEW c \in Callers, UnsupersedeWrites(c) PROVE TrailInv'
  BY <1>13 DEF UnsupersedeWrites, Goto, Forget
<1>14. ASSUME NEW c \in Callers, AddRuleInserts(c) PROVE TrailInv'
  BY <1>14 DEF AddRuleInserts, Goto, Forget, InsertRule
<1>15. ASSUME NEW c \in Callers, NEW o \in Rules, NEW n \in Rules, SupersedeReads(c, o, n)
      PROVE TrailInv'
  BY <1>15 DEF SupersedeReads, Goto
<1>16. ASSUME NEW c \in Callers, NEW r \in Rules, UnsupersedeReads(c, r)
      PROVE TrailInv'
  BY <1>16 DEF UnsupersedeReads, Goto
<1>17. ASSUME NEW c \in Callers, NEW r \in Rules, Recall(c, r) PROVE TrailInv'
  BY <1>17 DEF Recall
<1>18. ASSUME NEW c \in Callers, NEW rs \in SUBSET Rules, Restore(c, rs)
      PROVE TrailInv'
  BY <1>18 DEF Restore
<1>19. ASSUME NEW c \in Callers, NEW f \in Files, AddRuleWritesFile(c, f)
      PROVE TrailInv'
  BY <1>19 DEF AddRuleWritesFile, Goto
<1>20. ASSUME NEW c \in Callers, NEW f \in Files \cup {NoFile}, AddRuleIndexes(c, f)
      PROVE TrailInv'
  BY <1>20 DEF AddRuleIndexes, InsertRule
<1>21. ASSUME NEW c \in Callers, NEW r \in Rules, NEW f \in Files, AddRuleUpdates(c, r, f)
      PROVE TrailInv'
  BY <1>21 DEF AddRuleUpdates
<1>22. ASSUME NEW f \in Files, FilesChange(f) PROVE TrailInv'
  BY <1>22 DEF FilesChange
<1>23. CASE UNCHANGED vars
  BY <1>23 DEF vars
<1> QED
  BY <1>1, <1>2, <1>3, <1>4, <1>5, <1>6, <1>7, <1>8, <1>9, <1>10, <1>11,
     <1>12, <1>13, <1>14, <1>15, <1>16, <1>17, <1>18, <1>19, <1>20, <1>21, <1>22, <1>23
  DEF Next, SyncStep, RowStep

\* A row inserted for a file is live, and the rows of other files stay.
LEMMA InsertCovers ==
  ASSUME TypeOK, archived \subseteq Rules, NEW g, InsertRule(g)
  PROVE  Covered(g)' /\ \A f \in Files : Covered(f) => Covered(f)'
<1>1. /\ count + 1 \in Ids \ Rules /\ Rules' = Rules \cup {count + 1}
      /\ file' = [file EXCEPT ![count + 1] = g] /\ archived' = archived
  BY BoundAssumption DEF TypeOK, InsertRule, Ids, Rules
<1>2. file'[count + 1] = g /\ \A r \in Rules : file'[r] = file[r]
  BY <1>1, RulesInIds DEF TypeOK
<1>3. Covered(g)'
  BY <1>1, <1>2 DEF Covered, RowsOf
<1>4. ASSUME NEW f \in Files, Covered(f) PROVE Covered(f)'
  BY <1>1, <1>2, <1>4 DEF Covered, RowsOf
<1> QED
  BY <1>3, <1>4

LEMMA ConvergeStep ==
  OneServer /\ TypeOK /\ RefInv /\ ConvergeInv /\ [Next]_vars => ConvergeInv'
<1> SUFFICES ASSUME OneServer /\ TypeOK /\ RefInv /\ ConvergeInv, [Next]_vars
      PROVE ConvergeInv'
  OBVIOUS
<1> USE FileAssumption, BoundAssumption
       DEF OneServer, TypeOK, RefInv, ConvergeInv, Covered, Syncing,
       Managed, Orphans, RowsOf, PC, Ids, Rules, NoRule, rowVars, callVars
<1>1. ASSUME NEW c \in Callers, SyncStarts(c) PROVE ConvergeInv'
  BY <1>1 DEF SyncStarts, Goto
<1>2. ASSUME NEW c \in Callers, SyncInserts(c) PROVE ConvergeInv'
  <2>1. /\ pc' = [pc EXCEPT ![c] = "index"] /\ pc[c] = "insert"
        /\ UNCHANGED <<disk, todo, orphans, calm, archived>>
        /\ \A d \in Callers : d = c
    BY <1>2 DEF SyncInserts, Goto, InsertRule
  <2>2. PICK g \in Files \cup {NoFile} : g = at[c]
    OBVIOUS
  <2>3. InsertRule(g) /\ TypeOK /\ archived \subseteq Rules
    BY <1>2, <2>2 DEF SyncInserts
  <2> HIDE DEF Covered
  <2>4. Covered(g)' /\ \A f \in Files : Covered(f) => Covered(f)'
    BY <2>3, InsertCovers
  <2> QED
    BY <2>1, <2>2, <2>4
<1>3. ASSUME NEW c \in Callers, SyncRestores(c) PROVE ConvergeInv'
  BY <1>3 DEF SyncRestores, Goto
<1>4. ASSUME NEW c \in Callers, SyncRestoredEvent(c) PROVE ConvergeInv'
  BY <1>4 DEF SyncRestoredEvent, Goto, Forget
<1>5. ASSUME NEW c \in Callers, SyncArchivedEvent(c) PROVE ConvergeInv'
  BY <1>5 DEF SyncArchivedEvent, Goto, Forget
<1>6. ASSUME NEW c \in Callers, SyncReturns(c) PROVE ConvergeInv'
  BY <1>6 DEF SyncReturns, SyncSwept
<1>7. ASSUME NEW c \in Callers, NEW f \in Files, SyncPasses(c, f)
      PROVE ConvergeInv'
  BY <1>7 DEF SyncPasses, Takes
<1>8. ASSUME NEW c \in Callers, NEW f \in Files, SyncFindsNone(c, f)
      PROVE ConvergeInv'
  BY <1>8 DEF SyncFindsNone, Goto, Takes
<1>9. ASSUME NEW c \in Callers, NEW f \in Files, NEW r \in Rules, SyncFindsArchived(c, f, r)
      PROVE ConvergeInv'
  BY <1>9 DEF SyncFindsArchived, Goto, Takes
<1>10. ASSUME NEW c \in Callers, NEW force \in BOOLEAN, SyncLists(c, force)
      PROVE ConvergeInv'
  BY <1>10 DEF SyncLists, Goto
<1>11. ASSUME NEW c \in Callers, NEW r \in Rules, SyncArchives(c, r)
      PROVE ConvergeInv'
  BY <1>11 DEF SyncArchives, Goto
<1>12. ASSUME NEW c \in Callers, SupersedeWrites(c) PROVE ConvergeInv'
  BY <1>12 DEF SupersedeWrites, Goto, Forget
<1>13. ASSUME NEW c \in Callers, UnsupersedeWrites(c) PROVE ConvergeInv'
  BY <1>13 DEF UnsupersedeWrites, Goto, Forget
<1>14. ASSUME NEW c \in Callers, AddRuleInserts(c) PROVE ConvergeInv'
  BY <1>14 DEF AddRuleInserts, Goto, Forget, InsertRule
<1>15. ASSUME NEW c \in Callers, NEW o \in Rules, NEW n \in Rules, SupersedeReads(c, o, n)
      PROVE ConvergeInv'
  BY <1>15 DEF SupersedeReads, Goto
<1>16. ASSUME NEW c \in Callers, NEW r \in Rules, UnsupersedeReads(c, r)
      PROVE ConvergeInv'
  BY <1>16 DEF UnsupersedeReads, Goto
<1>17. ASSUME NEW c \in Callers, NEW r \in Rules, Recall(c, r)
       PROVE ConvergeInv'
  BY <1>17 DEF Recall
<1>18. ASSUME NEW c \in Callers, NEW rs \in SUBSET Rules, Restore(c, rs)
      PROVE ConvergeInv'
  BY <1>18 DEF Restore
<1>19. ASSUME NEW c \in Callers, NEW f \in Files, AddRuleWritesFile(c, f)
      PROVE ConvergeInv'
  BY <1>19 DEF AddRuleWritesFile, Goto
<1>20. ASSUME NEW c \in Callers, NEW f \in Files \cup {NoFile}, AddRuleIndexes(c, f)
      PROVE ConvergeInv'
  BY <1>20 DEF AddRuleIndexes, InsertRule
<1>21. ASSUME NEW c \in Callers, NEW r \in Rules, NEW f \in Files, AddRuleUpdates(c, r, f)
      PROVE ConvergeInv'
  BY <1>21 DEF AddRuleUpdates
<1>22. ASSUME NEW f \in Files, FilesChange(f) PROVE ConvergeInv'
  BY <1>22 DEF FilesChange
<1>23. CASE UNCHANGED vars
  BY <1>23 DEF vars
<1> QED
  BY SMTT(30), <1>1, <1>2, <1>3, <1>4, <1>5, <1>6, <1>7, <1>8, <1>9, <1>10, <1>11,
     <1>12, <1>13, <1>14, <1>15, <1>16, <1>17, <1>18, <1>19, <1>20, <1>21, <1>22, <1>23
  DEF Next, SyncStep, RowStep

----------------------------------------------------------------------------
LEMMA InitInv ==
  Init => TypeOK /\ RefInv /\ SupersedeInv /\ NoSupersedeCycle /\ TrailInv
<1> SUFFICES ASSUME Init
             PROVE  TypeOK /\ RefInv /\ SupersedeInv /\ NoSupersedeCycle /\ TrailInv
  OBVIOUS
<1> USE BoundAssumption DEF Init, Ids, Rules, NoRule, PC
<1>1. TypeOK
  BY DEF TypeOK
<1>2. RefInv /\ SupersedeInv /\ TrailInv
  BY DEF RefInv, SupersedeInv, TrailInv
<1>3. Superseded = {}
  BY DEF Superseded
<1>4. NoSupersedeCycle
  BY <1>3 DEF NoSupersedeCycle
<1> QED
  BY <1>1, <1>2, <1>4

\* Whatever the number of servers and however their tools interleave, the
\* variables keep their types; above all a tool only writes rows it has read.
THEOREM Types == Spec => [](TypeOK /\ RefInv)
<1>1. Init => TypeOK /\ RefInv
  BY InitInv
<1>2. TypeOK /\ RefInv /\ [Next]_vars => (TypeOK /\ RefInv)'
  BY TypeStep, RefStep
<1> QED
  BY <1>1, <1>2, PTL DEF Spec

\* With one server, supersede_rule and unsupersede_rule never build a cycle of
\* superseded rules, however many rules, recalls and syncs there are: following
\* superseded_by always leads out of the hidden rules (issue #99).
THEOREM SupersessionIsAcyclic ==
  ASSUME OneServer
  PROVE  Spec => []NoSupersedeCycle
<1>1. Init => SupersedeInv /\ NoSupersedeCycle
  BY InitInv
<1>2. TypeOK /\ SupersedeInv /\ NoSupersedeCycle /\ [Next]_vars
        => (SupersedeInv /\ NoSupersedeCycle)'
  BY OneServer, SupersedeStep, CycleStep
<1> QED
  BY <1>1, <1>2, Types, PTL DEF Spec

\* With one server, the archived/restored events tell which rules are archived
\* whenever no tool is running.
THEOREM TrailIsFaithful ==
  ASSUME OneServer
  PROVE  Spec => []TrailAgrees
<1>1. Init => TrailInv
  BY InitInv
<1>2. TypeOK /\ RefInv /\ TrailInv /\ [Next]_vars => TrailInv'
  BY OneServer, TrailStep
<1>3. TypeOK /\ TrailInv => TrailAgrees
  BY DEF TypeOK, TrailInv, TrailAgrees
<1> QED
  BY <1>1, <1>2, <1>3, Types, PTL DEF Spec

\* With one server, a sync during which no file changed ends with a live row
\* for every file and, unless the guard refused the sweep, with no live row of
\* a missing file.
THEOREM SyncLeavesRowsAsFiles ==
  ASSUME OneServer
  PROVE  Spec => []SyncConverges
<1>1. Init => ConvergeInv
  BY DEF Init, ConvergeInv
<1>2. TypeOK /\ RefInv /\ ConvergeInv /\ [Next]_vars => ConvergeInv'
  BY OneServer, ConvergeStep
<1>3. TypeOK /\ ConvergeInv => SyncConverges
  BY DEF TypeOK, ConvergeInv, SyncConverges, SyncSwept, Covered
<1> QED
  BY <1>1, <1>2, <1>3, Types, PTL DEF Spec
=============================================================================
