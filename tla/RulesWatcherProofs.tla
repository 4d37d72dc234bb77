------------------------- MODULE RulesWatcherProofs -------------------------
(***************************************************************************)
(* Proofs about RulesWatcher, for any files, texts and timers and any      *)
(* number of rows and changes.                                             *)
(***************************************************************************)
EXTENDS RulesWatcher, SequenceTheorems, TLAPS

\* Rows have a path, tasks a file, and a task that writes a row found it under
\* the path it works on; the sweep comes after every file has been looked at.
Writing == {"update", "revive", "restore", "archive"}
Carrying == {"find", "insert", "update", "revive", "restore", "add"}
RefInv ==
    /\ \A r \in Ids : path[r] \in Files <=> r \in Rules
    /\ \A q \in Tasks :
          /\ pc[q] \in Cascading \cup {"armed", "firing"} => at[q] \in Files
          /\ pc[q] \in Writing => row[q] \in RowsOf(at[q])
          /\ pc[q] \in Carrying <=> text[q] \in Texts
    /\ pc[main] = "sweep" => todo = {}
    /\ pc[main] # "sweep" => doomed = {}

\* During startup only the sync runs, and afterwards it does not; only the
\* observer has events.
PhaseInv ==
    /\ phase # "on" => queue = <<>>
    /\ phase = "starting" => \A q \in Tasks \ {main} : pc[q] = "idle"
    /\ phase # "starting" => pc[main] = "done"

\* _timers holds a timer only until it fires.
RegInv ==
    \A f \in Files : reg[f] # NoTimer =>
        pc[reg[f]] \in {"armed", "firing"} /\ at[reg[f]] = f

\* One cascade at a time works on a path, and what is to be inserted is new.
Working(f, q) == at[q] = f /\ pc[q] \in Cascading
Exclusive ==
    \A f \in Files \ disturbed : \A q, s \in Tasks :
        Working(f, q) /\ Working(f, s) => q = s
InsertInv ==
    \A q \in Tasks :
        pc[q] \in {"insert", "add"} /\ at[q] \notin disturbed =>
            RowsOf(at[q]) = {}

\* The last event of a path that is gone is a deletion.
LastEvent ==
    \A f \in Files : \A i \in 1..Len(queue) :
        /\ queue[i] = <<f, "upsert">>
        /\ \A j \in (i + 1)..Len(queue) : queue[j][1] # f
        => disk[f] # Absent

\* An event that will bring a new look at the file.
Pending(f) ==
    \/ \E i \in 1..Len(queue) : queue[i][1] = f
    \/ \E t \in Timers :
          /\ at[t] = f /\ pc[t] \in {"armed", "firing"}
          /\ disk[f] = Absent => op[t] = "delete"

\* A cascade that ends with the row as the file.
OnCourse(f, q) ==
    /\ at[q] = f
    /\ \/ pc[q] = "check"
       \/ pc[q] = "read" /\ (disk[f] # Absent \/ Mirrored(f))
       \/ pc[q] \in {"find", "insert", "revive"} /\ text[q] = disk[f]
       \/ pc[q] = "update" /\ text[q] = disk[f] /\ row[q] \notin archived
       \/ pc[q] = "restore" /\ text[q] = disk[f] /\ hash[row[q]] = text[q]
       \/ pc[q] \in {"missing", "archive"} /\ disk[f] = Absent

Settled(f) == Mirrored(f) /\ \A q \in Tasks : ~Working(f, q)
Handled(f) == Settled(f) \/ \E q \in Tasks : OnCourse(f, q)

WatchInv ==
    phase = "on" => \A f \in Files \ disturbed :
        Pending(f) \/ Handled(f)

\* The startup sync: what it has passed is as the file, and what it has still
\* to archive are rows without a file.
StartInv ==
    phase = "starting" /\ pc[main] # "list" =>
        /\ \A r \in doomed : path[r] \notin listed
        /\ \A f \in Files \ disturbed :
              /\ f \in listed <=> disk[f] # Absent
              /\ f \in listed \ todo => Handled(f)
              /\ pc[main] = "sweep" /\ f \notin listed =>
                    RowsOf(f) \ archived \subseteq doomed

----------------------------------------------------------------------------
(* Each invariant is preserved by every step, one proof step per action.   *)

LEMMA InitTypes == Init => TypeOK /\ RefInv
<1> SUFFICES ASSUME Init PROVE TypeOK /\ RefInv
  OBVIOUS
<1> USE FileAssumption, TextAssumption, TaskAssumption, BoundAssumption
       DEF Init, Rules, Ids, Tasks, NoRule
<1>1. disk \in [Files -> Texts \cup {Untitled, Absent}] /\ queue \in Seq(Event)
  OBVIOUS
<1>2. pc \in [Tasks -> PC]
  BY DEF PC
<1>3. TypeOK
  BY <1>1, <1>2 DEF TypeOK
<1>4. \A r \in Ids : path[r] \in Files <=> r \in Rules
  OBVIOUS
<1>5. \A q \in Tasks : pc[q] \in {"idle", "list"} /\ text[q] = Absent
  OBVIOUS
<1>6. RefInv
  BY <1>4, <1>5 DEF RefInv, Cascading, Storing, Writing, Carrying
<1> QED
  BY <1>3, <1>6

LEMMA EventSeqs ==
  ASSUME NEW f \in Files, NEW g \in Files
  PROVE  /\ << <<f, "upsert">> >> \in Seq(Event)
         /\ << <<f, "delete">> >> \in Seq(Event)
         /\ << <<f, "upsert">>, <<f, "delete">> >> \in Seq(Event)
         /\ << <<f, "delete">>, <<g, "upsert">> >> \in Seq(Event)
<1> DEFINE u == <<f, "upsert">>
           v == <<g, "upsert">>
           d == <<f, "delete">>
<1>1. u \in Event /\ v \in Event /\ d \in Event
  BY DEF Event
<1> HIDE DEF u, v, d
<1>2. <<u>> \in Seq(Event) /\ <<d>> \in Seq(Event)
  BY <1>1
<1>3. <<u, d>> \in Seq(Event) /\ <<d, v>> \in Seq(Event)
  BY <1>1
<1> QED
  BY <1>2, <1>3 DEF u, v, d

\* What the observer reports of a change are events.
LEMMA EditReports ==
  ASSUME NEW f \in Files, NEW t \in Texts \cup {Untitled, Absent}, Edit(f, t)
  PROVE  \E es \in Seq(Event) : Change([disk EXCEPT ![f] = t], es)
<1>1. PICK es :
         /\ Change([disk EXCEPT ![f] = t], es)
         /\ \/ es = << <<f, "delete">> >>
            \/ es = << <<f, "upsert">> >>
            \/ es = << <<f, "upsert">>, <<f, "delete">> >>
  BY DEF Edit
<1>2. es \in Seq(Event)
  BY <1>1, EventSeqs
<1> QED
  BY <1>1, <1>2

LEMMA MoveReports ==
  ASSUME NEW f \in Files, NEW g \in Files, Move(f, g)
  PROVE  \E es \in Seq(Event) :
            Change([disk EXCEPT ![f] = Absent, ![g] = disk[f]], es)
<1>1. << <<f, "delete">>, <<g, "upsert">> >> \in Seq(Event)
  BY EventSeqs
<1> QED
  BY <1>1 DEF Move

LEMMA HeadOfQueue ==
  ASSUME TypeOK, queue # <<>>
  PROVE  /\ Head(queue) \in Event /\ Tail(queue) \in Seq(Event)
         /\ Head(queue)[1] \in Files /\ Head(queue)[2] \in {"upsert", "delete"}
<1>1. queue \in Seq(Event)
  BY DEF TypeOK
<1>2. Head(queue) \in Event /\ Tail(queue) \in Seq(Event)
  BY <1>1, HeadTailProperties
<1> QED
  BY <1>2 DEF Event

\* Schedule, with the path named: the new timer is armed, an older one of the
\* path that still waits is cancelled.
LEMMA Scheduled ==
  ASSUME TypeOK, NEW t \in Timers, Schedule(t)
  PROVE  LET f == Head(queue)[1] IN
         /\ f \in Files /\ queue' = Tail(queue)
         /\ reg' = [reg EXCEPT ![f] = t]
         /\ t \in Tasks /\ pc[t] = "idle"
         /\ pc'[t] = "armed" /\ at'[t] = f /\ op'[t] = Head(queue)[2]
         /\ \A q \in Tasks : q # t =>
               IF q = reg[f] /\ pc[q] = "armed" THEN pc'[q] = "idle"
               ELSE /\ pc'[q] = pc[q] /\ at'[q] = at[q]
                    /\ q \in Timers => op'[q] = op[q]
  BY HeadOfQueue, TaskAssumption DEF TypeOK, Schedule, Tasks

LEMMA TypeStep == TypeOK /\ RefInv /\ [Next]_vars => TypeOK'
<1> SUFFICES ASSUME TypeOK, RefInv, [Next]_vars PROVE TypeOK'
  OBVIOUS
<1> USE FileAssumption, TaskAssumption, BoundAssumption
       DEF TypeOK, RefInv, Rules, Ids, NoRule, Tasks, PC, Cascading, Storing,
           Writing, Carrying, RowsOf, vars, rowVars, taskVars, syncVars,
           timerVars, worldVars
<1>1. ASSUME NEW f \in Files, NEW t \in Texts \cup {Untitled, Absent}, Edit(f, t)
      PROVE TypeOK'
  <2>1. PICK es \in Seq(Event) : Change([disk EXCEPT ![f] = t], es)
    BY <1>1, EditReports, Zenon
  <2>2. [disk EXCEPT ![f] = t] \in [Files -> Texts \cup {Untitled, Absent}]
    OBVIOUS
  <2>3. disturbed' \subseteq Files /\ UNCHANGED taskVars
    BY <1>1 DEF Edit, Unseen
  <2>4. /\ disk' \in [Files -> Texts \cup {Untitled, Absent}]
        /\ queue' \in Seq(Event) /\ changes' \in 0..MaxChanges
        /\ UNCHANGED <<rowVars, syncVars, reg, op>>
    BY <2>1, <2>2 DEF Change, Happens, Notify
  <2> QED
    BY <2>3, <2>4
<1>2. ASSUME NEW f \in Files, NEW g \in Files, Move(f, g) PROVE TypeOK'
  <2>1. PICK es \in Seq(Event) :
            Change([disk EXCEPT ![f] = Absent, ![g] = disk[f]], es)
    BY <1>2, MoveReports, Zenon
  <2>3. [disk EXCEPT ![f] = Absent, ![g] = disk[f]]
            \in [Files -> Texts \cup {Untitled, Absent}]
    OBVIOUS
  <2>4. disturbed' \subseteq Files /\ UNCHANGED taskVars
    BY <1>2 DEF Move, Unseen
  <2>5. /\ disk' \in [Files -> Texts \cup {Untitled, Absent}]
        /\ queue' \in Seq(Event) /\ changes' \in 0..MaxChanges
        /\ UNCHANGED <<rowVars, syncVars, reg, op>>
    <3>1. queue' \in Seq(Event)
      BY <2>1 DEF Change, Notify
    <3>2. disk' = [disk EXCEPT ![f] = Absent, ![g] = disk[f]]
      BY <2>1 DEF Change
    <3>3. disk' \in [Files -> Texts \cup {Untitled, Absent}]
      BY <2>3, <3>2
    <3>4. changes' \in 0..MaxChanges /\ UNCHANGED <<rowVars, syncVars, reg, op>>
      BY <2>1 DEF Change, Happens
    <3> QED
      BY <3>1, <3>3, <3>4
  <2> QED
    BY <2>4, <2>5
<1>3. ASSUME NEW t \in Timers, Schedule(t) PROVE TypeOK'
  BY <1>3 DEF Schedule, Event
<1>4. ASSUME NEW t \in Timers, Elapse(t) PROVE TypeOK'
  BY <1>4 DEF Elapse, Goto
<1>5. ASSUME NEW t \in Timers, Fire(t) PROVE TypeOK'
  BY <1>5 DEF Fire, Goto, Busy
<1>6. ASSUME NEW t \in Timers, CascadeFails(t) PROVE TypeOK'
  BY <1>6 DEF CascadeFails, Happens, Finish
<1>7. ASSUME NEW q \in Tasks, Check(q) PROVE TypeOK'
  BY <1>7 DEF Check, Goto
<1>8. ASSUME NEW q \in Tasks, Read(q) PROVE TypeOK'
  <2>1. at[q] \in Files
    BY <1>8 DEF Read
  <2>2. CASE disk[at[q]] \in Texts
    <3>1. pc' = [pc EXCEPT ![q] = "find"]
      BY <1>8, <2>2 DEF Read, Goto
    <3>2. /\ text' = [text EXCEPT ![q] = disk[at[q]]]
          /\ UNCHANGED <<at, row, worldVars, rowVars>>
      BY <1>8, <2>2 DEF Read
    <3> QED
      BY <2>2, <3>1, <3>2
  <2>3. CASE disk[at[q]] \notin Texts
    <3>1. Finish(q) /\ UNCHANGED <<worldVars, rowVars>>
      BY <1>8, <2>3 DEF Read
    <3> QED
      BY <3>1 DEF Finish
  <2> QED
    BY <2>2, <2>3
<1>9. ASSUME NEW q \in Tasks, FindsNone(q) PROVE TypeOK'
  BY <1>9 DEF FindsNone, Goto
<1>10. ASSUME NEW q \in Tasks, NEW r \in Rules, FindsCurrent(q, r)
       PROVE TypeOK'
  BY <1>10 DEF FindsCurrent, Finish
<1>11. ASSUME NEW q \in Tasks, NEW r \in Rules, FindsStale(q, r) PROVE TypeOK'
  BY <1>11 DEF FindsStale, Goto
<1>12. ASSUME NEW q \in Tasks, Update(q) PROVE TypeOK'
  <2>1. text[q] \in Texts
    BY <1>12 DEF Update
  <2>2. hash' \in [Ids -> Texts \cup {Absent}]
    BY <1>12, <2>1 DEF Update
  <2>3. CASE Finish(q)
    BY <1>12, <2>2, <2>3 DEF Update, Finish
  <2>4. CASE Goto(q, "revive", "restore") /\ UNCHANGED <<at, text, row>>
    BY <1>12, <2>2, <2>4 DEF Update, Goto
  <2> QED
    BY <1>12, <2>3, <2>4 DEF Update
<1>13. ASSUME NEW q \in Tasks, Restore(q) PROVE TypeOK'
  BY <1>13 DEF Restore, Finish
<1>14. ASSUME NEW q \in Tasks, Insert(q) PROVE TypeOK'
  BY <1>14 DEF Insert, InsertRow, Finish
<1>15. ASSUME NEW q \in Tasks, MissingHasNone(q) PROVE TypeOK'
  BY <1>15 DEF MissingHasNone, Finish
<1>16. ASSUME NEW q \in Tasks, NEW r \in Rules, MissingHasRow(q, r)
       PROVE TypeOK'
  BY <1>16 DEF MissingHasRow, Goto
<1>17. ASSUME NEW q \in Tasks, Archive(q) PROVE TypeOK'
  <2>1. row[q] \in Rules
    BY <1>17 DEF Archive
  <2> QED
    BY ZenonT(60), <1>17, <2>1 DEF Archive, Finish
<1>18. ASSUME SyncLists PROVE TypeOK'
  BY <1>18 DEF SyncLists, Goto
<1>19. ASSUME NEW f \in Files, SyncTakes(f) PROVE TypeOK'
  BY <1>19 DEF SyncTakes, Goto
<1>20. ASSUME SyncSweeps PROVE TypeOK'
  <2>1. Orphans \subseteq Rules
    BY DEF Orphans, Managed
  <2>2. {path[r] : r \in Orphans} \subseteq Files
    BY <2>1
  <2>3. pc' \in [Tasks -> PC]
    BY <1>20 DEF SyncSweeps, Goto
  <2> QED
    BY <1>20, <2>1, <2>2, <2>3 DEF SyncSweeps
<1>21. ASSUME NEW r \in Rules, SyncArchives(r) PROVE TypeOK'
  BY <1>21 DEF SyncArchives
<1>22. ASSUME StartObserver PROVE TypeOK'
  <2>1. pc' \in [Tasks -> PC]
    BY <1>22 DEF StartObserver, Goto
  <2>2. doomed' = {} /\ listed' = {} /\ todo' = todo
    BY <1>22 DEF StartObserver
  <2>3. todo = {}
    BY <1>22 DEF StartObserver, Goto
  <2> QED
    BY <1>22, <2>1, <2>2, <2>3 DEF StartObserver
<1>23. ASSUME SyncFails PROVE TypeOK'
  BY <1>23 DEF SyncFails, Happens
<1>24. ASSUME StopObserver PROVE TypeOK'
  BY <1>24 DEF StopObserver
<1>25. ASSUME StopCancels PROVE TypeOK'
  BY <1>25 DEF StopCancels
<1>26. ASSUME NEW f \in Files, NEW t \in Texts, AddRuleWrites(f, t)
       PROVE TypeOK'
  <2>1. << <<f, "upsert">> >> \in Seq(Event)
    BY EventSeqs
  <2>2. Change([disk EXCEPT ![f] = t], << <<f, "upsert">> >>)
    BY <1>26 DEF AddRuleWrites
  <2>3. [disk EXCEPT ![f] = t] \in [Files -> Texts \cup {Untitled, Absent}]
    OBVIOUS
  <2>4. /\ pc' \in [Tasks -> PC] /\ at' \in [Tasks -> Files \cup {NoFile}]
        /\ text' \in [Tasks -> Texts \cup {Absent}] /\ row' = row
    BY <1>26 DEF AddRuleWrites, Goto
  <2>5. disturbed' \subseteq Files
    BY <1>26 DEF AddRuleWrites
  <2>6. /\ disk' \in [Files -> Texts \cup {Untitled, Absent}]
        /\ queue' \in Seq(Event) /\ changes' \in 0..MaxChanges
        /\ UNCHANGED <<rowVars, syncVars, reg, op>>
    BY <2>1, <2>2, <2>3 DEF Change, Happens, Notify
  <2> QED
    BY <2>4, <2>5, <2>6
<1>27. ASSUME AddRuleInserts PROVE TypeOK'
  <2>1. /\ count' \in 0..MaxRules /\ UNCHANGED <<archived, recalled>>
        /\ Rules \subseteq Rules'
    BY <1>27 DEF AddRuleInserts, InsertRow
  <2>2. /\ path' \in [Ids -> Files \cup {NoFile}]
        /\ hash' \in [Ids -> Texts \cup {Absent}]
        /\ body' \in [Ids -> Texts \cup {Absent}]
    BY <1>27 DEF AddRuleInserts, InsertRow
  <2>3. /\ pc' \in [Tasks -> PC] /\ at' \in [Tasks -> Files \cup {NoFile}]
        /\ text' \in [Tasks -> Texts \cup {Absent}]
        /\ row' \in [Tasks -> Ids \cup {NoRule}]
    BY <1>27 DEF AddRuleInserts, Finish
  <2>4. UNCHANGED worldVars
    BY <1>27 DEF AddRuleInserts
  <2> QED
    BY <2>1, <2>2, <2>3, <2>4
<1>28. ASSUME NEW r \in Rules, Recall(r) PROVE TypeOK'
  BY <1>28 DEF Recall, Happens
<1>29. CASE UNCHANGED vars
  BY <1>29 DEF vars, syncVars, timerVars, taskVars, rowVars
<1> QED
  BY <1>1, <1>2, <1>3, <1>4, <1>5, <1>6, <1>7, <1>8, <1>9, <1>10, <1>11, <1>12,
     <1>13, <1>14, <1>15, <1>16, <1>17, <1>18, <1>19, <1>20, <1>21, <1>22,
     <1>23, <1>24, <1>25, <1>26, <1>27, <1>28, <1>29
  DEF Next, FileChanges, TimerStep, CascadeStep, SyncStep

LEMMA RefStep == TypeOK /\ RefInv /\ [Next]_vars => RefInv'
<1> SUFFICES ASSUME TypeOK, RefInv, [Next]_vars PROVE RefInv'
  OBVIOUS
<1> USE FileAssumption, TextAssumption, TaskAssumption, BoundAssumption
       DEF TypeOK, RefInv, Rules, Ids, NoRule, Tasks, PC, Cascading, Storing,
           Writing, Carrying, RowsOf, vars, rowVars, taskVars, syncVars,
           timerVars, worldVars
<1>1. ASSUME NEW f \in Files, NEW t \in Texts \cup {Untitled, Absent}, Edit(f, t)
      PROVE RefInv'
  BY <1>1 DEF Edit, Change, Happens, Notify, Unseen
<1>2. ASSUME NEW f \in Files, NEW g \in Files, Move(f, g) PROVE RefInv'
  BY <1>2 DEF Move, Change, Happens, Notify, Unseen
<1>3. ASSUME NEW t \in Timers, Schedule(t) PROVE RefInv'
  <2>1. Head(queue)[1] \in Files
    BY <1>3, HeadOfQueue DEF Schedule
  <2> QED
    BY <1>3, <2>1 DEF Schedule
<1>4. ASSUME NEW t \in Timers, Elapse(t) PROVE RefInv'
  BY <1>4 DEF Elapse, Goto
<1>5. ASSUME NEW t \in Timers, Fire(t) PROVE RefInv'
  BY <1>5 DEF Fire, Goto, Busy
<1>6. ASSUME NEW t \in Timers, CascadeFails(t) PROVE RefInv'
  BY <1>6 DEF CascadeFails, Happens, Finish
<1>7. ASSUME NEW q \in Tasks, Check(q) PROVE RefInv'
  BY <1>7 DEF Check, Goto
<1>8. ASSUME NEW q \in Tasks, Read(q) PROVE RefInv'
  BY <1>8 DEF Read, Goto, Finish
<1>9. ASSUME NEW q \in Tasks, FindsNone(q) PROVE RefInv'
  BY <1>9 DEF FindsNone, Goto
<1>10. ASSUME NEW q \in Tasks, NEW r \in Rules, FindsCurrent(q, r)
       PROVE RefInv'
  BY <1>10 DEF FindsCurrent, Finish
<1>11. ASSUME NEW q \in Tasks, NEW r \in Rules, FindsStale(q, r) PROVE RefInv'
  BY <1>11 DEF FindsStale, Goto
<1>12. ASSUME NEW q \in Tasks, Update(q) PROVE RefInv'
  BY <1>12 DEF Update, Goto, Finish
<1>13. ASSUME NEW q \in Tasks, Restore(q) PROVE RefInv'
  BY <1>13 DEF Restore, Finish
<1>14. ASSUME NEW q \in Tasks, Insert(q) PROVE RefInv'
  BY <1>14 DEF Insert, InsertRow, Finish
<1>15. ASSUME NEW q \in Tasks, MissingHasNone(q) PROVE RefInv'
  BY <1>15 DEF MissingHasNone, Finish
<1>16. ASSUME NEW q \in Tasks, NEW r \in Rules, MissingHasRow(q, r)
       PROVE RefInv'
  BY <1>16 DEF MissingHasRow, Goto
<1>17. ASSUME NEW q \in Tasks, Archive(q) PROVE RefInv'
  BY <1>17 DEF Archive, Finish
<1>18. ASSUME SyncLists PROVE RefInv'
  BY <1>18 DEF SyncLists, Goto
<1>19. ASSUME NEW f \in Files, SyncTakes(f) PROVE RefInv'
  BY <1>19 DEF SyncTakes, Goto
<1>20. ASSUME SyncSweeps PROVE RefInv'
  BY <1>20 DEF SyncSweeps, Goto
<1>21. ASSUME NEW r \in Rules, SyncArchives(r) PROVE RefInv'
  BY <1>21 DEF SyncArchives
<1>22. ASSUME StartObserver PROVE RefInv'
  BY <1>22 DEF StartObserver, Goto
<1>23. ASSUME SyncFails PROVE RefInv'
  BY <1>23 DEF SyncFails, Happens
<1>24. ASSUME StopObserver PROVE RefInv'
  BY <1>24 DEF StopObserver
<1>25. ASSUME StopCancels PROVE RefInv'
  BY <1>25 DEF StopCancels
<1>26. ASSUME NEW f \in Files, NEW t \in Texts, AddRuleWrites(f, t)
       PROVE RefInv'
  BY <1>26 DEF AddRuleWrites, Goto, Change, Happens, Notify, Busy
<1>27. ASSUME AddRuleInserts PROVE RefInv'
  BY <1>27 DEF AddRuleInserts, InsertRow, Finish
<1>28. ASSUME NEW r \in Rules, Recall(r) PROVE RefInv'
  BY <1>28 DEF Recall, Happens
<1>29. CASE UNCHANGED vars
  BY <1>29 DEF vars, syncVars, timerVars, taskVars, rowVars
<1> QED
  BY <1>1, <1>2, <1>3, <1>4, <1>5, <1>6, <1>7, <1>8, <1>9, <1>10, <1>11, <1>12,
     <1>13, <1>14, <1>15, <1>16, <1>17, <1>18, <1>19, <1>20, <1>21, <1>22,
     <1>23, <1>24, <1>25, <1>26, <1>27, <1>28, <1>29
  DEF Next, FileChanges, TimerStep, CascadeStep, SyncStep

LEMMA PhaseStep == TypeOK /\ PhaseInv /\ [Next]_vars => PhaseInv'
<1> SUFFICES ASSUME TypeOK, PhaseInv, [Next]_vars PROVE PhaseInv'
  OBVIOUS
<1> USE TaskAssumption
       DEF TypeOK, PhaseInv, Tasks, PC, Cascading, Storing, vars, rowVars,
           taskVars, syncVars, timerVars, worldVars
<1>1. ASSUME NEW f \in Files, NEW t \in Texts \cup {Untitled, Absent}, Edit(f, t)
      PROVE PhaseInv'
  BY <1>1 DEF Edit, Change, Happens, Notify, Unseen
<1>2. ASSUME NEW f \in Files, NEW g \in Files, Move(f, g) PROVE PhaseInv'
  BY <1>2 DEF Move, Change, Happens, Notify, Unseen
<1>3. ASSUME NEW t \in Timers, Schedule(t) PROVE PhaseInv'
  BY <1>3 DEF Schedule
<1>4. ASSUME NEW t \in Timers, Elapse(t) PROVE PhaseInv'
  BY <1>4 DEF Elapse, Goto
<1>5. ASSUME NEW t \in Timers, Fire(t) PROVE PhaseInv'
  BY <1>5 DEF Fire, Goto, Busy
<1>6. ASSUME NEW t \in Timers, CascadeFails(t) PROVE PhaseInv'
  BY <1>6 DEF CascadeFails, Happens, Finish
<1>7. ASSUME NEW q \in Tasks, Check(q) PROVE PhaseInv'
  BY <1>7 DEF Check, Goto
<1>8. ASSUME NEW q \in Tasks, Read(q) PROVE PhaseInv'
  BY <1>8 DEF Read, Goto, Finish
<1>9. ASSUME NEW q \in Tasks, FindsNone(q) PROVE PhaseInv'
  BY <1>9 DEF FindsNone, Goto
<1>10. ASSUME NEW q \in Tasks, NEW r \in Rules, FindsCurrent(q, r)
       PROVE PhaseInv'
  BY <1>10 DEF FindsCurrent, Finish
<1>11. ASSUME NEW q \in Tasks, NEW r \in Rules, FindsStale(q, r)
       PROVE PhaseInv'
  BY <1>11 DEF FindsStale, Goto
<1>12. ASSUME NEW q \in Tasks, Update(q) PROVE PhaseInv'
  BY <1>12 DEF Update, Goto, Finish
<1>13. ASSUME NEW q \in Tasks, Restore(q) PROVE PhaseInv'
  BY <1>13 DEF Restore, Finish
<1>14. ASSUME NEW q \in Tasks, Insert(q) PROVE PhaseInv'
  BY <1>14 DEF Insert, InsertRow, Finish
<1>15. ASSUME NEW q \in Tasks, MissingHasNone(q) PROVE PhaseInv'
  BY <1>15 DEF MissingHasNone, Finish
<1>16. ASSUME NEW q \in Tasks, NEW r \in Rules, MissingHasRow(q, r)
       PROVE PhaseInv'
  BY <1>16 DEF MissingHasRow, Goto
<1>17. ASSUME NEW q \in Tasks, Archive(q) PROVE PhaseInv'
  BY <1>17 DEF Archive, Finish
<1>18. ASSUME SyncLists PROVE PhaseInv'
  BY <1>18 DEF SyncLists, Goto
<1>19. ASSUME NEW f \in Files, SyncTakes(f) PROVE PhaseInv'
  BY <1>19 DEF SyncTakes, Goto
<1>20. ASSUME SyncSweeps PROVE PhaseInv'
  BY <1>20 DEF SyncSweeps, Goto
<1>21. ASSUME NEW r \in Rules, SyncArchives(r) PROVE PhaseInv'
  BY <1>21 DEF SyncArchives
<1>22. ASSUME StartObserver PROVE PhaseInv'
  BY <1>22 DEF StartObserver, Goto
<1>23. ASSUME SyncFails PROVE PhaseInv'
  BY <1>23 DEF SyncFails, Happens
<1>24. ASSUME StopObserver PROVE PhaseInv'
  BY <1>24 DEF StopObserver
<1>25. ASSUME StopCancels PROVE PhaseInv'
  BY <1>25 DEF StopCancels
<1>26. ASSUME NEW f \in Files, NEW t \in Texts, AddRuleWrites(f, t)
       PROVE PhaseInv'
  BY <1>26 DEF AddRuleWrites, Goto, Change, Happens, Notify, Busy
<1>27. ASSUME AddRuleInserts PROVE PhaseInv'
  BY <1>27 DEF AddRuleInserts, InsertRow, Finish
<1>28. ASSUME NEW r \in Rules, Recall(r) PROVE PhaseInv'
  BY <1>28 DEF Recall, Happens
<1>29. CASE UNCHANGED vars
  BY <1>29 DEF vars, syncVars, timerVars, taskVars, rowVars
<1> QED
  BY <1>1, <1>2, <1>3, <1>4, <1>5, <1>6, <1>7, <1>8, <1>9, <1>10, <1>11, <1>12,
     <1>13, <1>14, <1>15, <1>16, <1>17, <1>18, <1>19, <1>20, <1>21, <1>22,
     <1>23, <1>24, <1>25, <1>26, <1>27, <1>28, <1>29
  DEF Next, FileChanges, TimerStep, CascadeStep, SyncStep

LEMMA RegStep == TypeOK /\ RegInv /\ [Next]_vars => RegInv'
<1> SUFFICES ASSUME TypeOK, RegInv, [Next]_vars PROVE RegInv'
  OBVIOUS
<1> USE TaskAssumption
       DEF TypeOK, RegInv, Tasks, PC, Cascading, Storing, vars, rowVars,
           taskVars, syncVars, timerVars, worldVars
<1>1. ASSUME NEW f \in Files, NEW t \in Texts \cup {Untitled, Absent}, Edit(f, t)
      PROVE RegInv'
  BY <1>1 DEF Edit, Change, Happens, Notify, Unseen
<1>2. ASSUME NEW f \in Files, NEW g \in Files, Move(f, g) PROVE RegInv'
  BY <1>2 DEF Move, Change, Happens, Notify, Unseen
<1>3. ASSUME NEW t \in Timers, Schedule(t) PROVE RegInv'
  <2> DEFINE h == Head(queue)[1]
  <2>1. /\ h \in Files /\ reg' = [reg EXCEPT ![h] = t]
        /\ pc'[t] = "armed" /\ at'[t] = h /\ pc[t] = "idle"
        /\ \A q \in Tasks : q # t =>
              \/ pc'[q] = pc[q] /\ at'[q] = at[q]
              \/ q = reg[h] /\ pc'[q] = "idle"
    BY <1>3, Scheduled
  <2> HIDE DEF h
  <2>2. ASSUME NEW f \in Files, reg'[f] # NoTimer
        PROVE  pc'[reg'[f]] \in {"armed", "firing"} /\ at'[reg'[f]] = f
    <3>1. CASE f = h
      BY <2>1, <3>1
    <3>2. CASE f # h
      <4>1. reg'[f] = reg[f] /\ reg[f] \in Timers /\ reg[f] # t
        BY <2>1, <2>2, <3>2
      <4>2. at[reg[f]] = f /\ pc[reg[f]] \in {"armed", "firing"}
        BY <2>2, <4>1
      <4>3. reg[f] # reg[h]
        BY <2>1, <3>2, <4>1, <4>2
      <4> QED
        BY <2>1, <4>1, <4>2, <4>3
    <3> QED
      BY <3>1, <3>2
  <2> QED
    BY <2>2
<1>4. ASSUME NEW t \in Timers, Elapse(t) PROVE RegInv'
  BY <1>4 DEF Elapse, Goto
<1>5. ASSUME NEW t \in Timers, Fire(t) PROVE RegInv'
  BY <1>5 DEF Fire, Goto, Busy
<1>6. ASSUME NEW t \in Timers, CascadeFails(t) PROVE RegInv'
  BY <1>6 DEF CascadeFails, Happens, Finish
<1>7. ASSUME NEW q \in Tasks, Check(q) PROVE RegInv'
  BY <1>7 DEF Check, Goto
<1>8. ASSUME NEW q \in Tasks, Read(q) PROVE RegInv'
  BY <1>8 DEF Read, Goto, Finish
<1>9. ASSUME NEW q \in Tasks, FindsNone(q) PROVE RegInv'
  BY <1>9 DEF FindsNone, Goto
<1>10. ASSUME NEW q \in Tasks, NEW r \in Rules, FindsCurrent(q, r)
       PROVE RegInv'
  BY <1>10 DEF FindsCurrent, Finish
<1>11. ASSUME NEW q \in Tasks, NEW r \in Rules, FindsStale(q, r) PROVE RegInv'
  BY <1>11 DEF FindsStale, Goto
<1>12. ASSUME NEW q \in Tasks, Update(q) PROVE RegInv'
  BY <1>12 DEF Update, Goto, Finish
<1>13. ASSUME NEW q \in Tasks, Restore(q) PROVE RegInv'
  BY <1>13 DEF Restore, Finish
<1>14. ASSUME NEW q \in Tasks, Insert(q) PROVE RegInv'
  BY <1>14 DEF Insert, InsertRow, Finish
<1>15. ASSUME NEW q \in Tasks, MissingHasNone(q) PROVE RegInv'
  BY <1>15 DEF MissingHasNone, Finish
<1>16. ASSUME NEW q \in Tasks, NEW r \in Rules, MissingHasRow(q, r)
       PROVE RegInv'
  BY <1>16 DEF MissingHasRow, Goto
<1>17. ASSUME NEW q \in Tasks, Archive(q) PROVE RegInv'
  BY <1>17 DEF Archive, Finish
<1>18. ASSUME SyncLists PROVE RegInv'
  BY <1>18 DEF SyncLists, Goto
<1>19. ASSUME NEW f \in Files, SyncTakes(f) PROVE RegInv'
  BY <1>19 DEF SyncTakes, Goto
<1>20. ASSUME SyncSweeps PROVE RegInv'
  BY <1>20 DEF SyncSweeps, Goto
<1>21. ASSUME NEW r \in Rules, SyncArchives(r) PROVE RegInv'
  BY <1>21 DEF SyncArchives
<1>22. ASSUME StartObserver PROVE RegInv'
  BY <1>22 DEF StartObserver, Goto
<1>23. ASSUME SyncFails PROVE RegInv'
  BY <1>23 DEF SyncFails, Happens
<1>24. ASSUME StopObserver PROVE RegInv'
  BY <1>24 DEF StopObserver
<1>25. ASSUME StopCancels PROVE RegInv'
  BY <1>25 DEF StopCancels
<1>26. ASSUME NEW f \in Files, NEW t \in Texts, AddRuleWrites(f, t)
       PROVE RegInv'
  BY <1>26 DEF AddRuleWrites, Goto, Change, Happens, Notify, Busy
<1>27. ASSUME AddRuleInserts PROVE RegInv'
  BY <1>27 DEF AddRuleInserts, InsertRow, Finish
<1>28. ASSUME NEW r \in Rules, Recall(r) PROVE RegInv'
  BY <1>28 DEF Recall, Happens
<1>29. CASE UNCHANGED vars
  BY <1>29 DEF vars, syncVars, timerVars, taskVars, rowVars
<1> QED
  BY <1>1, <1>2, <1>3, <1>4, <1>5, <1>6, <1>7, <1>8, <1>9, <1>10, <1>11, <1>12,
     <1>13, <1>14, <1>15, <1>16, <1>17, <1>18, <1>19, <1>20, <1>21, <1>22,
     <1>23, <1>24, <1>25, <1>26, <1>27, <1>28, <1>29
  DEF Next, FileChanges, TimerStep, CascadeStep, SyncStep

LEMMA ExclusiveStep ==
  TypeOK /\ RefInv /\ PhaseInv /\ Exclusive /\ [Next]_vars => Exclusive'
<1> SUFFICES ASSUME TypeOK, RefInv, PhaseInv, Exclusive, [Next]_vars
             PROVE  Exclusive'
  OBVIOUS
<1> USE TaskAssumption
       DEF TypeOK, RefInv, PhaseInv, Exclusive, Working, Tasks, PC, Cascading,
           Storing, vars, rowVars, taskVars, syncVars, timerVars, worldVars
<1>1. ASSUME NEW f \in Files, NEW t \in Texts \cup {Untitled, Absent}, Edit(f, t)
      PROVE Exclusive'
  BY <1>1 DEF Edit, Change, Happens, Notify, Unseen
<1>2. ASSUME NEW f \in Files, NEW g \in Files, Move(f, g) PROVE Exclusive'
  BY <1>2 DEF Move, Change, Happens, Notify, Unseen
<1>3. ASSUME NEW t \in Timers, Schedule(t) PROVE Exclusive'
  BY <1>3 DEF Schedule
<1>4. ASSUME NEW t \in Timers, Elapse(t) PROVE Exclusive'
  BY <1>4 DEF Elapse, Goto
<1>5. ASSUME NEW t \in Timers, Fire(t) PROVE Exclusive'
  BY <1>5 DEF Fire, Goto, Busy
<1>6. ASSUME NEW t \in Timers, CascadeFails(t) PROVE Exclusive'
  BY <1>6 DEF CascadeFails, Happens, Finish
<1>7. ASSUME NEW q \in Tasks, Check(q) PROVE Exclusive'
  BY <1>7 DEF Check, Goto
<1>8. ASSUME NEW q \in Tasks, Read(q) PROVE Exclusive'
  BY <1>8 DEF Read, Goto, Finish
<1>9. ASSUME NEW q \in Tasks, FindsNone(q) PROVE Exclusive'
  BY <1>9 DEF FindsNone, Goto
<1>10. ASSUME NEW q \in Tasks, NEW r \in Rules, FindsCurrent(q, r)
       PROVE Exclusive'
  BY <1>10 DEF FindsCurrent, Finish
<1>11. ASSUME NEW q \in Tasks, NEW r \in Rules, FindsStale(q, r)
       PROVE Exclusive'
  BY <1>11 DEF FindsStale, Goto
<1>12. ASSUME NEW q \in Tasks, Update(q) PROVE Exclusive'
  BY <1>12 DEF Update, Goto, Finish
<1>13. ASSUME NEW q \in Tasks, Restore(q) PROVE Exclusive'
  BY <1>13 DEF Restore, Finish
<1>14. ASSUME NEW q \in Tasks, Insert(q) PROVE Exclusive'
  BY <1>14 DEF Insert, InsertRow, Finish
<1>15. ASSUME NEW q \in Tasks, MissingHasNone(q) PROVE Exclusive'
  BY <1>15 DEF MissingHasNone, Finish
<1>16. ASSUME NEW q \in Tasks, NEW r \in Rules, MissingHasRow(q, r)
       PROVE Exclusive'
  BY <1>16 DEF MissingHasRow, Goto
<1>17. ASSUME NEW q \in Tasks, Archive(q) PROVE Exclusive'
  BY <1>17 DEF Archive, Finish
<1>18. ASSUME SyncLists PROVE Exclusive'
  BY <1>18 DEF SyncLists, Goto
<1>19. ASSUME NEW f \in Files, SyncTakes(f) PROVE Exclusive'
  BY <1>19 DEF SyncTakes, Goto
<1>20. ASSUME SyncSweeps PROVE Exclusive'
  BY <1>20 DEF SyncSweeps, Goto
<1>21. ASSUME NEW r \in Rules, SyncArchives(r) PROVE Exclusive'
  BY <1>21 DEF SyncArchives
<1>22. ASSUME StartObserver PROVE Exclusive'
  BY <1>22 DEF StartObserver, Goto
<1>23. ASSUME SyncFails PROVE Exclusive'
  BY <1>23 DEF SyncFails, Happens
<1>24. ASSUME StopObserver PROVE Exclusive'
  BY <1>24 DEF StopObserver
<1>25. ASSUME StopCancels PROVE Exclusive'
  BY <1>25 DEF StopCancels
<1>26. ASSUME NEW f \in Files, NEW t \in Texts, AddRuleWrites(f, t)
       PROVE Exclusive'
  BY <1>26 DEF AddRuleWrites, Goto, Change, Happens, Notify, Busy
<1>27. ASSUME AddRuleInserts PROVE Exclusive'
  BY <1>27 DEF AddRuleInserts, InsertRow, Finish
<1>28. ASSUME NEW r \in Rules, Recall(r) PROVE Exclusive'
  BY <1>28 DEF Recall, Happens
<1>29. CASE UNCHANGED vars
  BY <1>29 DEF vars, syncVars, timerVars, taskVars, rowVars
<1> QED
  BY <1>1, <1>2, <1>3, <1>4, <1>5, <1>6, <1>7, <1>8, <1>9, <1>10, <1>11, <1>12,
     <1>13, <1>14, <1>15, <1>16, <1>17, <1>18, <1>19, <1>20, <1>21, <1>22,
     <1>23, <1>24, <1>25, <1>26, <1>27, <1>28, <1>29
  DEF Next, FileChanges, TimerStep, CascadeStep, SyncStep

LEMMA InsertedRows ==
  ASSUME TypeOK, NEW f, NEW t, NEW b, InsertRow(f, t, b)
  PROVE  /\ RowsOf(f)' = RowsOf(f) \cup {count + 1}
         /\ \A g : g # f => RowsOf(g)' = RowsOf(g)
  BY BoundAssumption DEF TypeOK, InsertRow, RowsOf, Rules, Ids

\* A task that inserts is alone on its path, which has no row yet.
LEMMA InsertStep ==
  ASSUME TypeOK, RefInv, Exclusive, InsertInv, OneRowPerPath,
         NEW q \in Tasks, pc[q] \in {"insert", "add"}, NEW t, NEW b,
         InsertRow(at[q], t, b), Finish(q), UNCHANGED disturbed
  PROVE  InsertInv' /\ OneRowPerPath'
<1>1. PICK f \in Files : f = at[q]
  BY DEF RefInv, Cascading, Storing
<1>2. /\ RowsOf(f)' = RowsOf(f) \cup {count + 1}
      /\ \A g : g # f => RowsOf(g)' = RowsOf(g)
  BY <1>1, InsertedRows
<1>3. ASSUME NEW s \in Tasks, pc'[s] \in {"insert", "add"}
      PROVE  s # q /\ pc[s] = pc'[s] /\ at'[s] = at[s]
  BY <1>3 DEF Finish, TypeOK
<1>4. ASSUME NEW s \in Tasks, NEW g \in Files, pc'[s] \in {"insert", "add"},
             g = at'[s], g \notin disturbed
      PROVE  RowsOf(g)' = {}
  <2>1. s # q /\ g = at[s] /\ pc[s] \in {"insert", "add"}
    BY <1>3, <1>4
  <2>2. g # f
    BY <1>1, <1>4, <2>1 DEF Exclusive, Working, Cascading, Storing
  <2>3. RowsOf(g) = {}
    BY <1>4, <2>1 DEF InsertInv
  <2> QED
    BY <1>2, <2>2, <2>3
<1>5. ASSUME NEW s \in Tasks, pc'[s] \in {"insert", "add"}
      PROVE  at'[s] \in Files
  BY <1>3, <1>5 DEF RefInv, Cascading, Storing
<1>6. InsertInv'
  BY <1>4, <1>5 DEF InsertInv, RowsOf
<1>7. ASSUME NEW g \in Files \ disturbed, NEW r \in RowsOf(g)',
             NEW s \in RowsOf(g)'
      PROVE  r = s
  <2>1. CASE g = f
    <3>1. RowsOf(g) = {}
      BY <1>1, <1>7, <2>1 DEF InsertInv
    <3> QED
      BY <1>2, <2>1, <3>1
  <2>2. CASE g # f
    BY <1>2, <2>2 DEF OneRowPerPath
  <2> QED
    BY <2>1, <2>2
<1>8. OneRowPerPath'
  BY <1>7 DEF OneRowPerPath
<1> QED
  BY <1>6, <1>8

\* A step that inserts no row and decides on no insertion.
LEMMA NoInsertStep ==
  ASSUME InsertInv, OneRowPerPath, UNCHANGED <<count, path>>,
         disturbed \subseteq disturbed',
         \A q \in Tasks : pc'[q] \in {"insert", "add"} =>
                             pc'[q] = pc[q] /\ at'[q] = at[q]
  PROVE  InsertInv' /\ OneRowPerPath'
<1>1. \A g : RowsOf(g)' = RowsOf(g)
  BY DEF RowsOf, Rules
<1>2. InsertInv'
  BY <1>1 DEF InsertInv
<1>3. OneRowPerPath'
  BY <1>1 DEF OneRowPerPath
<1> QED
  BY <1>2, <1>3

LEMMA OneRowStep ==
  /\ TypeOK /\ RefInv /\ PhaseInv /\ Exclusive /\ InsertInv /\ OneRowPerPath
  /\ [Next]_vars
  => InsertInv' /\ OneRowPerPath'
<1> SUFFICES ASSUME TypeOK, RefInv, PhaseInv, Exclusive, InsertInv,
                    OneRowPerPath, [Next]_vars
             PROVE  InsertInv' /\ OneRowPerPath'
  OBVIOUS
<1>14. ASSUME NEW q \in Tasks, Insert(q) PROVE InsertInv' /\ OneRowPerPath'
  BY <1>14, InsertStep DEF Insert, worldVars
<1>27. ASSUME AddRuleInserts PROVE InsertInv' /\ OneRowPerPath'
  <2>1. engine \in Tasks
    BY DEF Tasks
  <2> QED
    BY <1>27, <2>1, InsertStep DEF AddRuleInserts, worldVars
<1>3. ASSUME NEW t \in Timers, Schedule(t) PROVE InsertInv' /\ OneRowPerPath'
  <2>1. \A q \in Tasks : pc'[q] \in {"insert", "add"} =>
                            pc'[q] = pc[q] /\ at'[q] = at[q]
    BY <1>3, Scheduled
  <2>2. UNCHANGED <<count, path, disturbed>>
    BY <1>3 DEF Schedule, rowVars
  <2> QED
    BY <2>1, <2>2, NoInsertStep
<1>18. ASSUME SyncLists PROVE InsertInv' /\ OneRowPerPath'
  <2>1. /\ \A q \in Tasks : q # main => pc'[q] = pc[q]
        /\ pc'[main] = "index" /\ at' = at
        /\ UNCHANGED <<count, path, disturbed>>
    BY <1>18 DEF SyncLists, Goto, rowVars, TypeOK, Tasks
  <2> QED
    BY <2>1, NoInsertStep
<1>19. ASSUME NEW f \in Files, SyncTakes(f) PROVE InsertInv' /\ OneRowPerPath'
  <2>1. /\ \A q \in Tasks : q # main => pc'[q] = pc[q] /\ at'[q] = at[q]
        /\ pc'[main] = "read"
        /\ UNCHANGED <<count, path, disturbed>>
    BY <1>19 DEF SyncTakes, Goto, rowVars, TypeOK, Tasks
  <2> QED
    BY <2>1, NoInsertStep
<1>21. ASSUME NEW r \in Rules, SyncArchives(r)
       PROVE InsertInv' /\ OneRowPerPath'
  <2>1. UNCHANGED <<count, path, disturbed, pc, at>>
    BY <1>21 DEF SyncArchives, taskVars
  <2> QED
    BY <2>1, NoInsertStep
<1>20. ASSUME SyncSweeps PROVE InsertInv' /\ OneRowPerPath'
  <2>1. /\ \A q \in Tasks : q # main => pc'[q] = pc[q]
        /\ pc'[main] = "sweep" /\ at' = at
        /\ UNCHANGED <<count, path>> /\ disturbed \subseteq disturbed'
    BY <1>20 DEF SyncSweeps, Goto, rowVars, TypeOK, Tasks
  <2> QED
    BY <2>1, NoInsertStep
<1> USE TaskAssumption, BoundAssumption
       DEF TypeOK, RefInv, PhaseInv, Exclusive, InsertInv, OneRowPerPath,
           Working, Tasks, PC, Cascading, Storing, Rules, RowsOf, Ids, vars,
           rowVars, taskVars, syncVars, timerVars, worldVars
<1>1. ASSUME NEW f \in Files, NEW t \in Texts \cup {Untitled, Absent}, Edit(f, t)
      PROVE InsertInv' /\ OneRowPerPath'
  BY SMTT(30), <1>1 DEF Edit, Change, Happens, Notify, Unseen
<1>2. ASSUME NEW f \in Files, NEW g \in Files, Move(f, g)
      PROVE InsertInv' /\ OneRowPerPath'
  BY <1>2 DEF Move, Change, Happens, Notify, Unseen
<1>4. ASSUME NEW t \in Timers, Elapse(t) PROVE InsertInv' /\ OneRowPerPath'
  BY <1>4 DEF Elapse, Goto
<1>5. ASSUME NEW t \in Timers, Fire(t) PROVE InsertInv' /\ OneRowPerPath'
  BY SMTT(30), <1>5 DEF Fire, Goto, Busy
<1>6. ASSUME NEW t \in Timers, CascadeFails(t)
      PROVE InsertInv' /\ OneRowPerPath'
  BY <1>6 DEF CascadeFails, Happens, Finish
<1>7. ASSUME NEW q \in Tasks, Check(q) PROVE InsertInv' /\ OneRowPerPath'
  BY <1>7 DEF Check, Goto
<1>8. ASSUME NEW q \in Tasks, Read(q) PROVE InsertInv' /\ OneRowPerPath'
  <2>1. CASE disk[at[q]] \in Texts
    BY <1>8, <2>1 DEF Read, Goto
  <2>2. CASE disk[at[q]] \notin Texts
    BY SMTT(30), <1>8, <2>2 DEF Read, Finish
  <2> QED
    BY <2>1, <2>2
<1>9. ASSUME NEW q \in Tasks, FindsNone(q) PROVE InsertInv' /\ OneRowPerPath'
  BY <1>9 DEF FindsNone, Goto
<1>10. ASSUME NEW q \in Tasks, NEW r \in Rules, FindsCurrent(q, r)
       PROVE InsertInv' /\ OneRowPerPath'
  BY <1>10 DEF FindsCurrent, Finish
<1>11. ASSUME NEW q \in Tasks, NEW r \in Rules, FindsStale(q, r)
       PROVE InsertInv' /\ OneRowPerPath'
  BY <1>11 DEF FindsStale, Goto
<1>12. ASSUME NEW q \in Tasks, Update(q) PROVE InsertInv' /\ OneRowPerPath'
  BY <1>12 DEF Update, Goto, Finish
<1>13. ASSUME NEW q \in Tasks, Restore(q) PROVE InsertInv' /\ OneRowPerPath'
  BY <1>13 DEF Restore, Finish
<1>15. ASSUME NEW q \in Tasks, MissingHasNone(q)
       PROVE InsertInv' /\ OneRowPerPath'
  BY <1>15 DEF MissingHasNone, Finish
<1>16. ASSUME NEW q \in Tasks, NEW r \in Rules, MissingHasRow(q, r)
       PROVE InsertInv' /\ OneRowPerPath'
  BY <1>16 DEF MissingHasRow, Goto
<1>17. ASSUME NEW q \in Tasks, Archive(q) PROVE InsertInv' /\ OneRowPerPath'
  BY <1>17 DEF Archive, Finish
<1>22. ASSUME StartObserver PROVE InsertInv' /\ OneRowPerPath'
  BY <1>22 DEF StartObserver, Goto
<1>23. ASSUME SyncFails PROVE InsertInv' /\ OneRowPerPath'
  BY <1>23 DEF SyncFails, Happens
<1>24. ASSUME StopObserver PROVE InsertInv' /\ OneRowPerPath'
  BY <1>24 DEF StopObserver
<1>25. ASSUME StopCancels PROVE InsertInv' /\ OneRowPerPath'
  BY <1>25 DEF StopCancels
<1>26. ASSUME NEW f \in Files, NEW t \in Texts, AddRuleWrites(f, t)
       PROVE InsertInv' /\ OneRowPerPath'
  <2>1. UNCHANGED rowVars /\ disturbed \subseteq disturbed'
    BY <1>26 DEF AddRuleWrites, Change
  <2>2. pc' = [pc EXCEPT ![engine] = "add"] /\ at' = [at EXCEPT ![engine] = f]
    BY <1>26 DEF AddRuleWrites, Goto
  <2>3. RowsOf(f) = {} \/ f \in disturbed'
    BY <1>26 DEF AddRuleWrites
  <2> QED
    BY <2>1, <2>2, <2>3
<1>28. ASSUME NEW r \in Rules, Recall(r) PROVE InsertInv' /\ OneRowPerPath'
  BY <1>28 DEF Recall, Happens
<1>29. CASE UNCHANGED vars
  BY <1>29 DEF vars, syncVars, timerVars, taskVars, rowVars
<1> QED
  BY <1>1, <1>2, <1>3, <1>4, <1>5, <1>6, <1>7, <1>8, <1>9, <1>10, <1>11, <1>12,
     <1>13, <1>14, <1>15, <1>16, <1>17, <1>18, <1>19, <1>20, <1>21, <1>22,
     <1>23, <1>24, <1>25, <1>26, <1>27, <1>28, <1>29
  DEF Next, FileChanges, TimerStep, CascadeStep, SyncStep

----------------------------------------------------------------------------
(* Nothing is forgotten: what a step leaves alone stays as it was.         *)

SameRows(f) ==
    /\ RowsOf(f)' = RowsOf(f)
    /\ \A r \in RowsOf(f) :
          /\ hash'[r] = hash[r]
          /\ r \in archived' <=> r \in archived
          /\ r \in recalled => r \in recalled'

SameTask(q) ==
    pc'[q] = pc[q] /\ at'[q] = at[q] /\ text'[q] = text[q] /\ row'[q] = row[q]

LEMMA MirroredFrame ==
  ASSUME NEW f, disk'[f] = disk[f], SameRows(f), Mirrored(f)
  PROVE  Mirrored(f)'
  BY DEF Mirrored, SameRows

LEMMA OnCourseFrame ==
  ASSUME RefInv, NEW f, disk'[f] = disk[f], SameRows(f),
         NEW q \in Tasks, SameTask(q), OnCourse(f, q)
  PROVE  OnCourse(f, q)'
<1>1. pc[q] = "read" => (disk[f] # Absent \/ Mirrored(f)')
  BY MirroredFrame DEF OnCourse
<1>2. pc[q] \in Writing => row[q] \in RowsOf(f)
  BY DEF RefInv, OnCourse
<1> QED
  BY <1>1, <1>2 DEF OnCourse, SameTask, SameRows, Writing

\* A path whose rows and tasks a step does not touch is handled as before.
LEMMA HandledFrame ==
  ASSUME RefInv, NEW f, disk'[f] = disk[f], SameRows(f),
         \A q \in Tasks : Working(f, q) \/ Working(f, q)' => SameTask(q),
         Handled(f)
  PROVE  Handled(f)'
<1>1. CASE Settled(f)
  <2>1. Mirrored(f)'
    BY <1>1, MirroredFrame DEF Settled
  <2>2. \A q \in Tasks : ~Working(f, q)'
    BY <1>1 DEF Settled, Working, SameTask
  <2> QED
    BY <2>1, <2>2 DEF Handled, Settled
<1>2. ASSUME NEW q \in Tasks, OnCourse(f, q) PROVE Handled(f)'
  <2>1. Working(f, q)
    BY <1>2 DEF OnCourse, Working, Cascading, Storing
  <2>2. OnCourse(f, q)'
    BY <1>2, <2>1, OnCourseFrame
  <2> QED
    BY <2>2 DEF Handled
<1> QED
  BY <1>1, <1>2 DEF Handled

\* Events of a path whose timers and file a step does not touch still come.
LEMMA PendingFrame ==
  ASSUME NEW f, disk'[f] = disk[f], UNCHANGED queue,
         \A t \in Timers : at[t] = f /\ pc[t] \in {"armed", "firing"} =>
             at'[t] = f /\ pc'[t] \in {"armed", "firing"} /\ op'[t] = op[t],
         Pending(f)
  PROVE  Pending(f)'
<1>1. CASE \E i \in 1..Len(queue) : queue[i][1] = f
  BY <1>1 DEF Pending
<1>2. CASE ~\E i \in 1..Len(queue) : queue[i][1] = f
  BY <1>2 DEF Pending
<1> QED
  BY <1>1, <1>2

LEMMA CascadeTasks ==
  ASSUME TypeOK, NEW q \in Tasks, CascadeStep(q)
  PROVE  /\ UNCHANGED worldVars
         /\ \A s \in Tasks : s # q => SameTask(s)
         /\ at'[q] \in {at[q], NoFile}
         /\ pc[q] \in Cascading /\ pc'[q] \in Cascading \cup {"idle", "index"}
<1> DEFINE Goal == /\ UNCHANGED worldVars
                   /\ \A s \in Tasks : s # q => SameTask(s)
                   /\ at'[q] \in {at[q], NoFile}
                   /\ pc[q] \in Cascading
                   /\ pc'[q] \in Cascading \cup {"idle", "index"}
<1> USE DEF TypeOK, SameTask, Cascading, Storing
<1>1. ASSUME Check(q) PROVE Goal
  BY <1>1 DEF Check, Goto
<1>2. ASSUME Read(q) PROVE Goal
  BY <1>2 DEF Read, Goto, Finish
<1>3. ASSUME FindsNone(q) PROVE Goal
  BY <1>3 DEF FindsNone, Goto
<1>4. ASSUME NEW r \in Rules, FindsCurrent(q, r) PROVE Goal
  BY <1>4 DEF FindsCurrent, Finish
<1>5. ASSUME NEW r \in Rules, FindsStale(q, r) PROVE Goal
  BY <1>5 DEF FindsStale, Goto
<1>6. ASSUME Update(q) PROVE Goal
  BY <1>6 DEF Update, Goto, Finish
<1>7. ASSUME Restore(q) PROVE Goal
  BY <1>7 DEF Restore, Finish
<1>8. ASSUME Insert(q) PROVE Goal
  BY <1>8 DEF Insert, InsertRow, Finish
<1>9. ASSUME MissingHasNone(q) PROVE Goal
  BY <1>9 DEF MissingHasNone, Finish
<1>10. ASSUME NEW r \in Rules, MissingHasRow(q, r) PROVE Goal
  BY <1>10 DEF MissingHasRow, Goto
<1>11. ASSUME Archive(q) PROVE Goal
  BY <1>11 DEF Archive, Finish
<1> QED
  BY <1>1, <1>2, <1>3, <1>4, <1>5, <1>6, <1>7, <1>8, <1>9, <1>10, <1>11
  DEF CascadeStep

LEMMA CascadeElsewhere ==
  ASSUME TypeOK, RefInv, NEW q \in Tasks, CascadeStep(q),
         NEW f \in Files, at[q] # f
  PROVE  SameRows(f)
<1> USE BoundAssumption
    DEF TypeOK, RefInv, SameRows, RowsOf, Rules, Ids, Cascading, Storing,
        Writing, rowVars
<1>1. ASSUME Check(q) PROVE SameRows(f)
  BY <1>1 DEF Check, Goto
<1>2. ASSUME Read(q) PROVE SameRows(f)
  BY <1>2 DEF Read, Goto, Finish
<1>3. ASSUME FindsNone(q) PROVE SameRows(f)
  BY <1>3 DEF FindsNone, Goto
<1>4. ASSUME NEW r \in Rules, FindsCurrent(q, r) PROVE SameRows(f)
  BY <1>4 DEF FindsCurrent, Finish
<1>5. ASSUME NEW r \in Rules, FindsStale(q, r) PROVE SameRows(f)
  BY <1>5 DEF FindsStale, Goto
<1>6. ASSUME Update(q) PROVE SameRows(f)
  BY <1>6 DEF Update, Goto, Finish
<1>7. ASSUME Restore(q) PROVE SameRows(f)
  BY <1>7 DEF Restore, Finish
<1>8. ASSUME Insert(q) PROVE SameRows(f)
  BY <1>8 DEF Insert, InsertRow, Finish
<1>9. ASSUME MissingHasNone(q) PROVE SameRows(f)
  BY <1>9 DEF MissingHasNone, Finish
<1>10. ASSUME NEW r \in Rules, MissingHasRow(q, r) PROVE SameRows(f)
  BY <1>10 DEF MissingHasRow, Goto
<1>11. ASSUME Archive(q) PROVE SameRows(f)
  BY <1>11 DEF Archive, Finish
<1> QED
  BY <1>1, <1>2, <1>3, <1>4, <1>5, <1>6, <1>7, <1>8, <1>9, <1>10, <1>11
  DEF CascadeStep

LEMMA RowsInIds == TypeOK => \A f : RowsOf(f) \subseteq Ids
  BY BoundAssumption DEF TypeOK, RowsOf, Rules, Ids

\* A cascade on course that goes on is still on course, or is over and has
\* left the row as the file.
LEMMA CascadeHere ==
  ASSUME TypeOK, RefInv, Exclusive, InsertInv, OneRowPerPath,
         NEW q \in Tasks, CascadeStep(q),
         NEW f \in Files \ disturbed, OnCourse(f, q)
  PROVE  Handled(f)'
<1>a. /\ at[q] = f /\ pc \in [Tasks -> PC] /\ at \in [Tasks -> Files \cup {NoFile}]
      /\ text \in [Tasks -> Texts \cup {Absent}]
      /\ row \in [Tasks -> Ids \cup {NoRule}]
      /\ \A s \in Tasks : s # q => ~Working(f, s)
  BY DEF OnCourse, TypeOK, Exclusive, Working, Cascading, Storing
<1>b. disk' = disk /\ \A s \in Tasks : s # q => SameTask(s)
  BY CascadeTasks DEF worldVars
<1>c. Finish(q) /\ Mirrored(f)' => Handled(f)'
  BY <1>a, <1>b DEF Finish, Handled, Settled, Working, SameTask, Cascading,
                    Storing
<1>d. OnCourse(f, q)' => Handled(f)'
  BY DEF Handled
<1>e. \A r \in RowsOf(f) : RowsOf(f) = {r}
  BY DEF OneRowPerPath
<1>1. ASSUME Check(q) PROVE Handled(f)'
  BY <1>1, <1>a, <1>b, <1>d DEF Check, Goto, OnCourse
<1>2. ASSUME Read(q) PROVE Handled(f)'
  <2>1. CASE disk[f] \in Texts
    <3>1. OnCourse(f, q)'
      BY <1>2, <1>a, <1>b, <2>1 DEF Read, Goto, OnCourse
    <3> QED
      BY <3>1, <1>d
  <2>2. CASE disk[f] \notin Texts
    <3>1. Finish(q) /\ SameRows(f)
      BY <1>2, <1>a, <2>2 DEF Read, SameRows, RowsOf, Rules, rowVars
    <3>2. Mirrored(f)
      BY <1>2, <1>a, <2>2, TextAssumption DEF Read, OnCourse, Mirrored
    <3> QED
      BY <3>1, <3>2, <1>b, <1>c, MirroredFrame
  <2> QED
    BY <2>1, <2>2
<1>3. ASSUME FindsNone(q) PROVE Handled(f)'
  BY <1>3, <1>a, <1>b, <1>d DEF FindsNone, Goto, OnCourse
<1>4. ASSUME NEW r \in Rules, FindsCurrent(q, r) PROVE Handled(f)'
  <2>1. RowsOf(f) = {r} /\ Finish(q) /\ SameRows(f)
    BY <1>4, <1>a, <1>e
    DEF FindsCurrent, SameRows, RowsOf, Rules, rowVars
  <2>2. text[q] = disk[f] /\ text[q] \in Texts
    BY <1>4, <1>a DEF FindsCurrent, OnCourse, RefInv, Carrying
  <2>3. Mirrored(f)
    BY <1>4, <2>1, <2>2, TextAssumption DEF FindsCurrent, Current, Mirrored
  <2> QED
    BY <2>1, <2>3, <1>b, <1>c, MirroredFrame
<1>5. ASSUME NEW r \in Rules, FindsStale(q, r) PROVE Handled(f)'
  <2>1. OnCourse(f, q)'
    BY <1>5, <1>a, <1>b DEF FindsStale, Goto, OnCourse, rowVars
  <2> QED
    BY <2>1, <1>d
<1>6. ASSUME Update(q) PROVE Handled(f)'
  <2>1. row[q] \in Ids /\ RowsOf(f) = {row[q]} /\ RowsOf(f)' = RowsOf(f)
    <3>1. row[q] \in RowsOf(f)
      BY <1>6, <1>a DEF Update, RefInv, Writing
    <3>2. RowsOf(f)' = RowsOf(f)
      BY <1>6 DEF Update, RowsOf, Rules
    <3>3. row[q] \in Ids
      BY <3>1, RowsInIds
    <3> QED
      BY <1>e, <3>1, <3>2, <3>3
  <2>2. text[q] = disk[f] /\ text[q] \in Texts
    BY <1>6, <1>a DEF Update, OnCourse, RefInv, Carrying
  <2>3. hash'[row[q]] = text[q] /\ UNCHANGED <<archived, recalled>>
    BY <1>6, <2>1 DEF Update, TypeOK
  <2>4. CASE pc[q] = "update" /\ Finish(q)
    <3>1. row[q] \notin archived
      BY <2>4 DEF OnCourse
    <3>2. Mirrored(f)'
      BY <1>b, <2>1, <2>2, <2>3, <3>1, TextAssumption DEF Mirrored
    <3> QED
      BY <2>4, <3>2, <1>c
  <2>5. CASE Goto(q, "revive", "restore") /\ UNCHANGED <<at, text, row>>
    <3>1. OnCourse(f, q)'
      BY <1>a, <1>b, <2>2, <2>3, <2>5 DEF Goto, OnCourse
    <3> QED
      BY <3>1, <1>d
  <2> QED
    BY <1>6, <2>4, <2>5 DEF Update
<1>7. ASSUME Restore(q) PROVE Handled(f)'
  <2>1. RowsOf(f) = {row[q]} /\ RowsOf(f)' = RowsOf(f) /\ Finish(q)
    BY <1>7, <1>a, <1>e DEF Restore, RefInv, Writing, RowsOf, Rules
  <2>2. text[q] = disk[f] /\ text[q] \in Texts /\ hash[row[q]] = text[q]
    BY <1>7, <1>a DEF Restore, OnCourse, RefInv, Carrying
  <2>3. Mirrored(f)'
    BY <1>7, <1>b, <2>1, <2>2, TextAssumption DEF Restore, Mirrored
  <2> QED
    BY <2>1, <2>3, <1>c
<1>8. ASSUME Insert(q) PROVE Handled(f)'
  <2>1. RowsOf(f) = {} /\ Finish(q) /\ InsertRow(f, text[q], Absent)
    BY <1>8, <1>a DEF Insert, InsertInv
  <2>2. RowsOf(f)' = {count + 1}
    BY <2>1, InsertedRows
  <2>3. text[q] = disk[f] /\ text[q] \in Texts
    BY <1>8, <1>a DEF Insert, OnCourse, RefInv, Carrying
  <2>4. hash'[count + 1] = text[q] /\ (count + 1) \notin archived'
    BY <2>1, BoundAssumption DEF InsertRow, TypeOK, Rules, Ids
  <2>5. Mirrored(f)'
    BY <1>b, <2>2, <2>3, <2>4, TextAssumption DEF Mirrored
  <2> QED
    BY <2>1, <2>5, <1>c
<1>9. ASSUME MissingHasNone(q) PROVE Handled(f)'
  <2>1. RowsOf(f) \subseteq archived /\ Finish(q) /\ SameRows(f)
    BY <1>9, <1>a, <1>e
    DEF MissingHasNone, SameRows, RowsOf, Rules, rowVars
  <2>2. Mirrored(f)
    BY <1>9, <2>1, TextAssumption DEF MissingHasNone, OnCourse, Mirrored
  <2> QED
    BY <2>1, <2>2, <1>b, <1>c, MirroredFrame
<1>10. ASSUME NEW r \in Rules, MissingHasRow(q, r) PROVE Handled(f)'
  BY <1>10, <1>a, <1>b, <1>d DEF MissingHasRow, Goto, OnCourse
<1>11. ASSUME Archive(q) PROVE Handled(f)'
  <2>1. RowsOf(f) = {row[q]} /\ RowsOf(f)' = RowsOf(f) /\ Finish(q)
    BY <1>11, <1>a, <1>e DEF Archive, RefInv, Writing, RowsOf, Rules
  <2>2. disk[f] = Absent
    BY <1>11 DEF Archive, OnCourse
  <2>3. Mirrored(f)'
    BY <1>11, <1>b, <2>1, <2>2, TextAssumption DEF Archive, Mirrored
  <2> QED
    BY <2>1, <2>3, <1>c
<1> QED
  BY <1>1, <1>2, <1>3, <1>4, <1>5, <1>6, <1>7, <1>8, <1>9, <1>10, <1>11
  DEF CascadeStep

LEMMA CascadeHandles ==
  ASSUME TypeOK, RefInv, Exclusive, InsertInv, OneRowPerPath,
         NEW q \in Tasks, CascadeStep(q),
         NEW f \in Files \ disturbed, Handled(f)
  PROVE  Handled(f)'
<1>1. CASE at[q] = f
  <2>1. Working(f, q)
    BY <1>1, CascadeTasks DEF Working
  <2>2. OnCourse(f, q)
    BY <2>1 DEF Handled, Settled, OnCourse, Exclusive, Working, Cascading,
                Storing
  <2> QED
    BY <2>2, CascadeHere
<1>2. CASE at[q] # f
  <2>1. SameRows(f) /\ disk' = disk
    BY <1>2, CascadeElsewhere, CascadeTasks DEF worldVars
  <2>2. \A s \in Tasks : Working(f, s) \/ Working(f, s)' => SameTask(s)
    BY <1>2, CascadeTasks, FileAssumption DEF Working
  <2> QED
    BY <2>1, <2>2, HandledFrame
<1> QED
  BY <1>1, <1>2

LEMMA CascadePends ==
  ASSUME TypeOK, NEW q \in Tasks, CascadeStep(q), NEW f \in Files, Pending(f)
  PROVE  Pending(f)'
<1>1. UNCHANGED <<disk, queue, op>>
  BY CascadeTasks DEF worldVars, timerVars
<1>2. \A t \in Timers : pc[t] \in {"armed", "firing"} => SameTask(t)
  BY CascadeTasks DEF Cascading, Storing, Tasks
<1> QED
  BY <1>1, <1>2, PendingFrame DEF SameTask

LEMMA FireWatch ==
  ASSUME TypeOK, RefInv, NEW t \in Timers, Fire(t),
         NEW f \in Files, f \notin disturbed', Pending(f) \/ Handled(f)
  PROVE  Pending(f)' \/ Handled(f)'
<1>1. /\ UNCHANGED <<disk, rowVars, at, text, row, queue>>
      /\ pc[t] = "firing" /\ at[t] \in Files /\ t \in Tasks
      /\ pc'[t] = IF op[t] = "upsert" THEN "read" ELSE "check"
      /\ \A q \in Tasks : q # t => pc'[q] = pc[q]
      /\ \A u \in Timers : u # t => op'[u] = op[u]
  BY DEF Fire, Goto, TypeOK, RefInv, Tasks
<1>2. SameRows(f)
  BY <1>1 DEF SameRows, RowsOf, Rules, rowVars
<1>3. CASE at[t] # f
  <2>1. Pending(f) => Pending(f)'
    BY <1>1, <1>3, PendingFrame DEF Tasks
  <2>2. \A q \in Tasks : Working(f, q) \/ Working(f, q)' => SameTask(q)
    BY <1>1, <1>3 DEF Working, SameTask
  <2> QED
    BY <1>1, <1>2, <2>1, <2>2, HandledFrame
<1>4. CASE at[t] = f
  <2>1. \A q \in Tasks : ~Working(f, q)
    BY <1>4 DEF Fire, Busy, Working
  <2>2. Pending(f) \/ Mirrored(f)
    BY <2>1 DEF Handled, Settled, OnCourse, Working, Cascading, Storing
  <2>3. CASE op[t] # "upsert"
    BY <1>1, <1>4, <2>3 DEF Handled, OnCourse
  <2>4. CASE op[t] = "upsert" /\ (disk[f] # Absent \/ Mirrored(f))
    <3>1. Mirrored(f) => Mirrored(f)'
      BY <1>1, <1>2, MirroredFrame
    <3> QED
      BY <1>1, <1>4, <2>4, <3>1 DEF Handled, OnCourse
  <2>5. CASE op[t] = "upsert" /\ disk[f] = Absent /\ Pending(f)
    BY <1>1, <2>5 DEF Pending, Tasks
  <2> QED
    BY <2>2, <2>3, <2>4, <2>5
<1> QED
  BY <1>3, <1>4

LEMMA ScheduleWatch ==
  ASSUME TypeOK, RefInv, RegInv, LastEvent, NEW t \in Timers, Schedule(t),
         NEW f \in Files, Pending(f) \/ Handled(f)
  PROVE  Pending(f)' \/ Handled(f)'
<1> DEFINE h == Head(queue)[1]
<1>1. /\ h \in Files /\ queue' = Tail(queue) /\ t \in Tasks /\ pc[t] = "idle"
      /\ pc'[t] = "armed" /\ at'[t] = h /\ op'[t] = Head(queue)[2]
      /\ \A q \in Tasks : q # t =>
            IF q = reg[h] /\ pc[q] = "armed" THEN pc'[q] = "idle"
            ELSE /\ pc'[q] = pc[q] /\ at'[q] = at[q]
                 /\ q \in Timers => op'[q] = op[q]
  BY Scheduled
<1>2. UNCHANGED <<disk, rowVars, text, row>>
  BY DEF Schedule
<1>3. queue \in Seq(Event) /\ queue # <<>>
  BY DEF Schedule, TypeOK
<1>4. /\ Len(queue') = Len(queue) - 1 /\ Len(queue) \in Nat \ {0}
      /\ \A i \in 1..Len(queue') : queue'[i] = queue[i + 1]
      /\ Head(queue) = queue[1]
  BY <1>1, <1>3, HeadTailProperties, EmptySeq, LenProperties
<1>5. \A i \in 2..Len(queue) : queue'[i - 1] = queue[i] /\ i - 1 \in 1..Len(queue')
  BY <1>4
<1>6. CASE f = h
  <2>1. CASE \E i \in 2..Len(queue) : queue[i][1] = f
    BY <1>5, <2>1 DEF Pending
  <2>2. CASE ~\E i \in 2..Len(queue) : queue[i][1] = f
    <3>1. disk[f] = Absent => Head(queue) # <<f, "upsert">>
      BY <1>4, <2>2 DEF LastEvent
    <3>2. Head(queue)[2] = "delete" \/ Head(queue) = <<f, "upsert">>
      BY <1>3, <1>6, HeadTailProperties DEF Event
    <3>3. disk'[f] = Absent => op'[t] = "delete"
      BY <1>1, <1>2, <3>1, <3>2
    <3> QED
      BY <1>1, <1>6, <3>3 DEF Pending
  <2> QED
    BY <2>1, <2>2
<1>7. CASE f # h
  <2>1. \A q \in Tasks : pc[q] \in Cascading \/ pc'[q] \in Cascading =>
            q # t /\ ~(q = reg[h] /\ pc[q] = "armed")
    BY <1>1 DEF Cascading, Storing
  <2>2. \A u \in Timers : at[u] = f /\ pc[u] \in {"armed", "firing"} =>
            u # t /\ u # reg[h]
    BY <1>1, <1>7, TaskAssumption DEF RegInv
  <2>3. Pending(f) => Pending(f)'
    <3>1. CASE \E i \in 1..Len(queue) : queue[i][1] = f
      <4>1. \E i \in 2..Len(queue) : queue[i][1] = f
        BY <1>4, <1>7, <3>1
      <4> QED
        BY <1>5, <4>1 DEF Pending
    <3>2. ASSUME NEW u \in Timers, at[u] = f, pc[u] \in {"armed", "firing"},
                 disk[f] = Absent => op[u] = "delete"
          PROVE  Pending(f)'
      BY <1>1, <1>2, <2>2, <3>2 DEF Pending, Tasks
    <3> QED
      BY <3>1, <3>2 DEF Pending
  <2>4. SameRows(f)
    BY <1>2 DEF SameRows, RowsOf, Rules, rowVars
  <2>5. \A q \in Tasks : Working(f, q) \/ Working(f, q)' => SameTask(q)
    BY <1>1, <1>2, <2>1 DEF Working, SameTask
  <2>6. Handled(f) => Handled(f)'
    BY <1>2, <2>4, <2>5, HandledFrame
  <2> QED
    BY <2>3, <2>6
<1> QED
  BY <1>6, <1>7

\* The events of a change, appended to those of the observer: the last one of
\* a path is the last new one, or an old one if none is new.
LEMMA AppendedEvents ==
  ASSUME TypeOK, LastEvent, NEW es \in Seq(Event), queue' = queue \o es,
         \A f \in Files : \A k \in 1..Len(es) :
            /\ es[k] = <<f, "upsert">>
            /\ \A j \in (k + 1)..Len(es) : es[j][1] # f
            => disk'[f] # Absent,
         \A f \in Files : disk'[f] = disk[f] \/ \E k \in 1..Len(es) : es[k][1] = f
  PROVE  LastEvent'
<1>1. queue \in Seq(Event) /\ Len(queue) \in Nat /\ Len(es) \in Nat
  BY LenProperties DEF TypeOK
<1>2. /\ Len(queue') = Len(queue) + Len(es)
      /\ \A i \in 1..Len(queue) : queue'[i] = queue[i]
      /\ \A k \in 1..Len(es) : queue'[Len(queue) + k] = es[k]
  BY <1>1, ConcatProperties
<1>3. \A k \in 1..Len(es) : Len(queue) + k \in 1..Len(queue')
  BY <1>1, <1>2
<1> SUFFICES ASSUME NEW f \in Files, NEW i \in 1..Len(queue'),
                    queue'[i] = <<f, "upsert">>,
                    \A j \in (i + 1)..Len(queue') : queue'[j][1] # f
             PROVE  disk'[f] # Absent
  BY DEF LastEvent
<1>4. CASE i \in 1..Len(queue)
  <2>1. ASSUME NEW k \in 1..Len(es) PROVE es[k][1] # f
    <3>1. Len(queue) + k \in (i + 1)..Len(queue')
      BY <1>1, <1>2, <1>4
    <3> QED
      BY <1>2, <3>1
  <2>2. \A j \in (i + 1)..Len(queue) :
            j \in (i + 1)..Len(queue') /\ j \in 1..Len(queue)
    BY <1>1, <1>2, <1>4
  <2>3. \A j \in (i + 1)..Len(queue) : queue[j][1] # f
    BY <1>2, <2>2
  <2>4. disk[f] # Absent
    BY <1>2, <1>4, <2>3 DEF LastEvent
  <2> QED
    BY <2>1, <2>4
<1>5. CASE i \notin 1..Len(queue)
  <2>1. PICK k \in 1..Len(es) : i = Len(queue) + k
    <3>1. i - Len(queue) \in 1..Len(es) /\ i = Len(queue) + (i - Len(queue))
      BY <1>1, <1>2, <1>5
    <3> QED
      BY <3>1
  <2>2. \A j \in (k + 1)..Len(es) :
            j \in 1..Len(es) /\ Len(queue) + j \in (i + 1)..Len(queue')
    BY <1>1, <1>2, <2>1
  <2>3. es[k] = <<f, "upsert">> /\ \A j \in (k + 1)..Len(es) : es[j][1] # f
    <3>1. es[k] = <<f, "upsert">>
      BY <1>2, <2>1
    <3>2. ASSUME NEW j \in (k + 1)..Len(es) PROVE es[j][1] # f
      <4>1. queue'[Len(queue) + j][1] # f
        BY <2>2
      <4>2. queue'[Len(queue) + j] = es[j]
        BY <1>2, <2>2
      <4> QED
        BY <4>1, <4>2
    <3> QED
      BY <3>1, <3>2
  <2> QED
    BY <2>3
<1> QED
  BY <1>4, <1>5

LEMMA EventsOfPaths ==
  ASSUME NEW f, NEW g, NEW es
  PROVE  /\ es = << <<f, "delete">> >> =>
               Len(es) = 1 /\ es[1] = <<f, "delete">>
         /\ es = << <<f, "upsert">> >> =>
               Len(es) = 1 /\ es[1] = <<f, "upsert">>
         /\ es = << <<f, "upsert">>, <<f, "delete">> >> =>
               Len(es) = 2 /\ es[1] = <<f, "upsert">> /\ es[2] = <<f, "delete">>
         /\ es = << <<f, "delete">>, <<g, "upsert">> >> =>
               Len(es) = 2 /\ es[1] = <<f, "delete">> /\ es[2] = <<g, "upsert">>
  OBVIOUS

\* What a change of the files does to the queue while the observer runs.
LEMMA ChangeEvents ==
  ASSUME TypeOK, phase = "on", NEW fs \in SUBSET Files,
         \/ \E f \in Files, t \in Texts \cup {Untitled, Absent} :
               Edit(f, t) /\ fs = {f}
         \/ \E f, g \in Files : Move(f, g) /\ fs = {f, g}
         \/ \E f \in Files, t \in Texts : AddRuleWrites(f, t) /\ fs = {f}
  PROVE  \E es \in Seq(Event) :
            /\ queue' = queue \o es
            /\ \A f \in fs : \E k \in 1..Len(es) : es[k][1] = f
            /\ \A f \in Files \ fs : disk'[f] = disk[f]
            /\ \A f \in Files : \A k \in 1..Len(es) :
                  /\ es[k] = <<f, "upsert">>
                  /\ \A j \in (k + 1)..Len(es) : es[j][1] # f
                  => disk'[f] # Absent
<1> DEFINE Goal(es) ==
      /\ es \in Seq(Event) /\ queue' = queue \o es
      /\ \A f \in fs : \E k \in 1..Len(es) : es[k][1] = f
      /\ \A f \in Files \ fs : disk'[f] = disk[f]
      /\ \A f \in Files : \A k \in 1..Len(es) :
            /\ es[k] = <<f, "upsert">>
            /\ \A j \in (k + 1)..Len(es) : es[j][1] # f
            => disk'[f] # Absent
<1>1. ASSUME NEW f \in Files, NEW t \in Texts \cup {Untitled, Absent},
             Edit(f, t), fs = {f}
      PROVE  \E es : Goal(es)
  <2>1. PICK es :
            /\ Change([disk EXCEPT ![f] = t], es)
            /\ \/ t = Absent /\ es = << <<f, "delete">> >>
               \/ t # Absent /\ es = << <<f, "upsert">> >>
               \/ t # Absent /\ es = << <<f, "upsert">>, <<f, "delete">> >>
    BY <1>1 DEF Edit
  <2>2. es \in Seq(Event)
    BY <2>1, EventSeqs
  <2>3. disk' = [disk EXCEPT ![f] = t] /\ queue' = queue \o es
    BY <2>1 DEF Change, Notify
  <2>4. \/ t = Absent /\ Len(es) = 1 /\ es[1] = <<f, "delete">>
        \/ t # Absent /\ Len(es) = 1 /\ es[1] = <<f, "upsert">>
        \/ t # Absent /\ Len(es) = 2 /\ es[1] = <<f, "upsert">>
              /\ es[2] = <<f, "delete">>
    BY <2>1, EventsOfPaths
  <2>5. /\ disk'[f] = t /\ \A g \in Files \ {f} : disk'[g] = disk[g]
        /\ \A k \in 1..Len(es) : es[k][1] = f /\ k \in {1, 2}
        /\ 1 \in 1..Len(es)
        /\ t = Absent => \A k \in 1..Len(es) : es[k][2] = "delete"
    BY <2>3, <2>4 DEF TypeOK
  <2>6. \A g \in Files : \A k \in 1..Len(es) :
            es[k] = <<g, "upsert">> => disk'[g] # Absent
    BY <2>5
  <2> QED
    <3>1. \A g \in fs : \E k \in 1..Len(es) : es[k][1] = g
      BY <1>1, <2>5
    <3>2. \A g \in Files \ fs : disk'[g] = disk[g]
      BY <1>1, <2>5
    <3>3. Goal(es)
      BY <2>2, <2>3, <2>6, <3>1, <3>2
    <3> QED
      BY <3>3
<1>2. ASSUME NEW f \in Files, NEW g \in Files, Move(f, g), fs = {f, g}
      PROVE  \E es : Goal(es)
  <2> DEFINE es == << <<f, "delete">>, <<g, "upsert">> >>
  <2>1. /\ disk' = [disk EXCEPT ![f] = Absent, ![g] = disk[f]]
        /\ queue' = queue \o es /\ disk[f] # Absent /\ f # g
    BY <1>2 DEF Move, Change, Notify
  <2>2. es \in Seq(Event)
    BY EventSeqs
  <2>3. Len(es) = 2 /\ es[1] = <<f, "delete">> /\ es[2] = <<g, "upsert">>
    OBVIOUS
  <2> HIDE DEF es
  <2>4. disk'[g] # Absent /\ \A e \in Files \ {f, g} : disk'[e] = disk[e]
    BY <2>1 DEF TypeOK
  <2>5. \A e \in Files : \A k \in 1..Len(es) :
            es[k] = <<e, "upsert">> => disk'[e] # Absent
    BY <2>3, <2>4
  <2>6. es[1][1] = f /\ es[2][1] = g /\ 1 \in 1..Len(es) /\ 2 \in 1..Len(es)
    BY <2>3
  <2> QED
    <3>1. \A e \in fs : \E k \in 1..Len(es) : es[k][1] = e
      BY <1>2, <2>6
    <3>2. Goal(es)
      BY <1>2, <2>1, <2>2, <2>4, <2>5, <3>1
    <3> QED
      BY <3>2
<1>3. ASSUME NEW f \in Files, NEW t \in Texts, AddRuleWrites(f, t), fs = {f}
      PROVE  \E es : Goal(es)
  <2> DEFINE es == << <<f, "upsert">> >>
  <2>1. disk' = [disk EXCEPT ![f] = t] /\ queue' = queue \o es
    BY <1>3 DEF AddRuleWrites, Change, Notify
  <2>2. es \in Seq(Event)
    BY EventSeqs
  <2>3. Len(es) = 1 /\ es[1] = <<f, "upsert">>
    OBVIOUS
  <2> HIDE DEF es
  <2>4. disk'[f] # Absent /\ \A e \in Files \ {f} : disk'[e] = disk[e]
    BY <2>1, TextAssumption DEF TypeOK
  <2>5. \A e \in Files : \A k \in 1..Len(es) :
            es[k] = <<e, "upsert">> => disk'[e] # Absent
    BY <2>3, <2>4
  <2>6. es[1][1] = f /\ 1 \in 1..Len(es)
    BY <2>3
  <2> QED
    <3>1. \A e \in fs : \E k \in 1..Len(es) : es[k][1] = e
      BY <1>3, <2>6
    <3>2. Goal(es)
      BY <1>3, <2>1, <2>2, <2>4, <2>5, <3>1
    <3> QED
      BY <3>2
<1> QED
  BY <1>1, <1>2, <1>3

LEMMA LastEventStep ==
  TypeOK /\ PhaseInv /\ LastEvent /\ [Next]_vars => LastEvent'
<1> SUFFICES ASSUME TypeOK, PhaseInv, LastEvent, [Next]_vars PROVE LastEvent'
  OBVIOUS
<1>1. CASE UNCHANGED <<disk, queue>>
  BY <1>1 DEF LastEvent
<1>2. CASE queue' = <<>>
  <2>1. Len(queue') = 0
    BY <1>2
  <2> QED
    BY <2>1 DEF LastEvent
<1>3. ASSUME phase = "on", NEW fs \in SUBSET Files,
             \/ \E f \in Files, t \in Texts \cup {Untitled, Absent} :
                   Edit(f, t) /\ fs = {f}
             \/ \E f, g \in Files : Move(f, g) /\ fs = {f, g}
             \/ \E f \in Files, t \in Texts : AddRuleWrites(f, t) /\ fs = {f}
      PROVE  LastEvent'
  <2>1. PICK es \in Seq(Event) :
            /\ queue' = queue \o es
            /\ \A f \in fs : \E k \in 1..Len(es) : es[k][1] = f
            /\ \A f \in Files \ fs : disk'[f] = disk[f]
            /\ \A f \in Files : \A k \in 1..Len(es) :
                  /\ es[k] = <<f, "upsert">>
                  /\ \A j \in (k + 1)..Len(es) : es[j][1] # f
                  => disk'[f] # Absent
    BY <1>3, ChangeEvents
  <2>2. \A f \in Files : disk'[f] = disk[f] \/ \E k \in 1..Len(es) : es[k][1] = f
    BY <2>1
  <2> QED
    BY <2>1, <2>2, AppendedEvents
<1>4. ASSUME NEW f \in Files, NEW t \in Texts \cup {Untitled, Absent}, Edit(f, t)
      PROVE  LastEvent'
  <2>1. CASE phase = "on"
    <3>1. {f} \in SUBSET Files
      OBVIOUS
    <3>2. \E g \in Files, u \in Texts \cup {Untitled, Absent} :
              Edit(g, u) /\ {f} = {g}
      BY <1>4
    <3> QED
      BY <1>3, <2>1, <3>1, <3>2
  <2>2. CASE phase # "on"
    BY <1>2, <1>4, <2>2 DEF Edit, Change, Notify, PhaseInv
  <2> QED
    BY <2>1, <2>2
<1>5. ASSUME NEW f \in Files, NEW g \in Files, Move(f, g) PROVE LastEvent'
  <2>1. CASE phase = "on"
    <3>1. {f, g} \in SUBSET Files
      OBVIOUS
    <3> QED
      BY <1>3, <1>5, <2>1, <3>1
  <2>2. CASE phase # "on"
    BY <1>2, <1>5, <2>2 DEF Move, Change, Notify, PhaseInv
  <2> QED
    BY <2>1, <2>2
<1>6. ASSUME NEW f \in Files, NEW t \in Texts, AddRuleWrites(f, t)
      PROVE  LastEvent'
  <2>1. CASE phase = "on"
    BY <1>3, <1>6, <2>1
  <2>2. CASE phase # "on"
    BY <1>2, <1>6, <2>2 DEF AddRuleWrites, Change, Notify, PhaseInv
  <2> QED
    BY <2>1, <2>2
<1>7. ASSUME NEW t \in Timers, Schedule(t) PROVE LastEvent'
  <2>1. queue \in Seq(Event) /\ queue # <<>>
    BY <1>7 DEF Schedule, TypeOK
  <2>2. queue' = Tail(queue) /\ disk' = disk
    BY <1>7 DEF Schedule
  <2>3. /\ Len(queue') = Len(queue) - 1 /\ Len(queue) \in Nat \ {0}
        /\ \A i \in 1..Len(queue') : queue'[i] = queue[i + 1]
    BY <2>1, <2>2, HeadTailProperties, EmptySeq, LenProperties
  <2> SUFFICES ASSUME NEW f \in Files, NEW i \in 1..Len(queue'),
                      queue'[i] = <<f, "upsert">>,
                      \A j \in (i + 1)..Len(queue') : queue'[j][1] # f
               PROVE  disk[f] # Absent
    BY <2>2 DEF LastEvent
  <2>4. i + 1 \in 1..Len(queue) /\ queue[i + 1] = <<f, "upsert">>
    BY <2>3
  <2>5. ASSUME NEW j \in (i + 2)..Len(queue) PROVE queue[j][1] # f
    <3>1. j - 1 \in (i + 1)..Len(queue') /\ j - 1 \in 1..Len(queue')
      BY <2>3
    <3>2. queue'[j - 1] = queue[j]
      BY <2>3, <3>1
    <3> QED
      BY <3>1, <3>2
  <2>6. \A j \in ((i + 1) + 1)..Len(queue) : queue[j][1] # f
    BY <2>3, <2>5
  <2> QED
    BY <2>4, <2>6 DEF LastEvent
<1>8. ASSUME NEW q \in Tasks, CascadeStep(q) PROVE LastEvent'
  BY <1>1, <1>8, CascadeTasks DEF worldVars, timerVars
<1>9. CASE \/ SyncStep \/ SyncFails \/ StopCancels \/ AddRuleInserts
           \/ \E t \in Timers : Elapse(t) \/ Fire(t) \/ CascadeFails(t)
           \/ \E r \in Rules : Recall(r)
           \/ UNCHANGED vars
  BY <1>1, <1>9
  DEF SyncStep, SyncLists, SyncTakes, SyncSweeps, SyncArchives, StartObserver,
      SyncFails, StopCancels, AddRuleInserts, Elapse, Fire, CascadeFails,
      Recall, worldVars, timerVars, vars
<1>10. CASE StopObserver
  BY <1>2, <1>10 DEF StopObserver
<1> QED
  BY <1>4, <1>5, <1>6, <1>7, <1>8, <1>9, <1>10
  DEF Next, FileChanges, TimerStep, Tasks

LEMMA WatchStep ==
  /\ TypeOK /\ RefInv /\ PhaseInv /\ RegInv /\ Exclusive /\ InsertInv
  /\ OneRowPerPath /\ LastEvent /\ WatchInv /\ phase = "on" /\ [Next]_vars
  => WatchInv'
<1> SUFFICES ASSUME TypeOK, RefInv, PhaseInv, RegInv, Exclusive, InsertInv,
                    OneRowPerPath, LastEvent, WatchInv, phase = "on",
                    [Next]_vars, phase' = "on",
                    NEW f \in Files, f \notin disturbed'
             PROVE  Pending(f)' \/ Handled(f)'
  BY DEF WatchInv
<1>0. /\ f \notin disturbed /\ pc[main] = "done" /\ (Pending(f) \/ Handled(f))
  <2>1. disturbed \subseteq disturbed'
    BY DEF Next, FileChanges, TimerStep, CascadeStep, SyncStep, Edit, Move,
           Unseen, Schedule, Elapse, Fire, CascadeFails, Check, Read, FindsNone,
           FindsCurrent, FindsStale, Update, Restore, Insert, MissingHasNone,
           MissingHasRow, Archive, SyncLists, SyncTakes, SyncSweeps,
           SyncArchives, StartObserver, SyncFails, StopObserver, StopCancels,
           AddRuleWrites, AddRuleInserts, Recall, worldVars, vars
  <2> QED
    BY <2>1 DEF WatchInv, PhaseInv
<1>1. ASSUME NEW fs \in SUBSET Files,
             \/ \E g \in Files, t \in Texts \cup {Untitled, Absent} :
                   Edit(g, t) /\ fs = {g}
             \/ \E g, h \in Files : Move(g, h) /\ fs = {g, h}
             \/ \E g \in Files, t \in Texts : AddRuleWrites(g, t) /\ fs = {g}
      PROVE  Pending(f)' \/ Handled(f)'
  <2>1. PICK es \in Seq(Event) :
            /\ queue' = queue \o es
            /\ \A g \in fs : \E k \in 1..Len(es) : es[k][1] = g
            /\ \A g \in Files \ fs : disk'[g] = disk[g]
    BY <1>1, ChangeEvents
  <2>2. queue \in Seq(Event) /\ Len(queue) \in Nat /\ Len(es) \in Nat
    BY LenProperties DEF TypeOK
  <2>3. /\ Len(queue') = Len(queue) + Len(es)
        /\ \A i \in 1..Len(queue) : queue'[i] = queue[i]
        /\ \A k \in 1..Len(es) : queue'[Len(queue) + k] = es[k]
    BY <2>1, <2>2, ConcatProperties
  <2>4. CASE f \in fs
    <3>1. PICK k \in 1..Len(es) : es[k][1] = f
      BY <2>1, <2>4
    <3>2. Len(queue) + k \in 1..Len(queue')
      BY <2>2, <2>3
    <3> QED
      BY <2>3, <3>1, <3>2 DEF Pending
  <2>5. CASE f \notin fs
    <3>1. /\ disk'[f] = disk[f] /\ UNCHANGED <<rowVars, op>>
          /\ \A q \in Timers \cup {main} : SameTask(q)
          /\ SameTask(engine) \/ (at'[engine] \in fs /\ pc[engine] = "idle")
      <4>1. disk'[f] = disk[f]
        BY <2>1, <2>5
      <4>2. CASE \/ \E g \in Files, t \in Texts \cup {Untitled, Absent} : Edit(g, t)
                 \/ \E g, h \in Files : Move(g, h)
        BY <4>1, <4>2 DEF Edit, Move, Change, SameTask, taskVars
      <4>3. ASSUME NEW g \in Files, NEW t \in Texts, AddRuleWrites(g, t), fs = {g}
            PROVE  /\ UNCHANGED <<rowVars, op>>
                   /\ \A q \in Timers \cup {main} : SameTask(q)
                   /\ at'[engine] \in fs /\ pc[engine] = "idle"
        <5>1. /\ UNCHANGED <<rowVars, op, row>> /\ pc[engine] = "idle"
              /\ pc' = [pc EXCEPT ![engine] = "add"]
              /\ at' = [at EXCEPT ![engine] = g]
              /\ text' = [text EXCEPT ![engine] = t]
          BY <4>3 DEF AddRuleWrites, Change, Goto
        <5>2. engine \in Tasks /\ engine \notin Timers \cup {main}
          BY TaskAssumption DEF Tasks
        <5> QED
          BY <4>3, <5>1, <5>2 DEF SameTask, TypeOK
      <4> QED
        BY <1>1, <4>1, <4>2, <4>3
    <3>2. Pending(f) => Pending(f)'
      <4>1. CASE \E i \in 1..Len(queue) : queue[i][1] = f
        <5>1. PICK i \in 1..Len(queue) : queue[i][1] = f
          BY <4>1
        <5>2. i \in 1..Len(queue')
          BY <2>2, <2>3
        <5> QED
          BY <2>3, <5>1, <5>2 DEF Pending
      <4>2. ASSUME NEW t \in Timers, at[t] = f, pc[t] \in {"armed", "firing"},
                   disk[f] = Absent => op[t] = "delete"
            PROVE  Pending(f)'
        BY <3>1, <4>2 DEF Pending, SameTask
      <4> QED
        BY <4>1, <4>2 DEF Pending
    <3>3. SameRows(f)
      BY <3>1 DEF SameRows, RowsOf, Rules, rowVars
    <3>4. \A q \in Tasks : Working(f, q) \/ Working(f, q)' => SameTask(q)
      BY <2>5, <3>1 DEF Working, Tasks, Cascading, Storing
    <3> QED
      BY <1>0, <3>1, <3>2, <3>3, <3>4, HandledFrame
  <2> QED
    BY <2>4, <2>5
<1>2. ASSUME NEW t \in Timers, Schedule(t) PROVE Pending(f)' \/ Handled(f)'
  BY <1>0, <1>2, ScheduleWatch
<1>3. ASSUME NEW t \in Timers, Fire(t) PROVE Pending(f)' \/ Handled(f)'
  BY <1>0, <1>3, FireWatch
<1>4. ASSUME NEW q \in Tasks, CascadeStep(q) PROVE Pending(f)' \/ Handled(f)'
  BY <1>0, <1>4, CascadeHandles, CascadePends
<1>5. ASSUME NEW t \in Timers, Elapse(t) PROVE Pending(f)' \/ Handled(f)'
  <2>1. /\ UNCHANGED <<disk, queue, op, at, text, row, rowVars>>
        /\ pc[t] = "armed" /\ pc' = [pc EXCEPT ![t] = "firing"]
    BY <1>5 DEF Elapse, Goto, worldVars, timerVars
  <2>2. Pending(f) => Pending(f)'
    BY <2>1, PendingFrame DEF TypeOK, Tasks
  <2>3. SameRows(f)
    BY <2>1 DEF SameRows, RowsOf, Rules, rowVars
  <2>4. \A q \in Tasks : Working(f, q) \/ Working(f, q)' => SameTask(q)
    BY <2>1 DEF Working, SameTask, Cascading, Storing, TypeOK
  <2> QED
    BY <1>0, <2>1, <2>2, <2>3, <2>4, HandledFrame
<1>6. ASSUME NEW q \in Tasks, at[q] # f \/ ~Handled(f), pc[q] \in Cascading,
             Finish(q), UNCHANGED <<disk, queue, op>>, SameRows(f)
      PROVE  Pending(f)' \/ Handled(f)'
  <2>1. \A s \in Tasks : s # q => SameTask(s)
    BY <1>6 DEF Finish, SameTask, TypeOK
  <2>2. Pending(f) => Pending(f)'
    BY <1>6, <2>1, PendingFrame DEF SameTask, Tasks, Cascading, Storing
  <2>3. CASE ~Handled(f)
    BY <1>0, <2>2, <2>3
  <2>4. CASE at[q] # f
    <3>1. \A s \in Tasks : Working(f, s) \/ Working(f, s)' => SameTask(s)
      BY <1>6, <2>1, <2>4, FileAssumption DEF Working, Finish, TypeOK
    <3> QED
      BY <1>0, <1>6, <2>2, <3>1, HandledFrame
  <2> QED
    BY <1>6, <2>3, <2>4
<1>7. ASSUME NEW t \in Timers, CascadeFails(t)
      PROVE  Pending(f)' \/ Handled(f)'
  <2>1. at[t] # f /\ pc[t] \in Cascading /\ Finish(t) /\ t \in Tasks
    BY <1>7 DEF CascadeFails, Cascading, Tasks
  <2>2. UNCHANGED <<disk, queue, op>> /\ SameRows(f)
    BY <1>7 DEF CascadeFails, SameRows, RowsOf, Rules, rowVars, timerVars
  <2> QED
    BY <1>6, <2>1, <2>2
<1>8. ASSUME AddRuleInserts PROVE Pending(f)' \/ Handled(f)'
  <2>1. /\ engine \in Tasks /\ pc[engine] \in Cascading /\ pc[engine] = "add"
        /\ Finish(engine) /\ UNCHANGED <<disk, queue, op>>
        /\ at[engine] \in Files
    BY <1>8 DEF AddRuleInserts, Tasks, Cascading, worldVars, timerVars, RefInv
  <2>2. CASE at[engine] = f
    <3>1. Working(f, engine)
      BY <2>1, <2>2 DEF Working
    <3>2. ~Handled(f)
      <4>1. ~Settled(f)
        BY <2>1, <3>1 DEF Settled
      <4>2. ASSUME NEW q \in Tasks, OnCourse(f, q) PROVE FALSE
        <5>1. Working(f, q)
          BY <4>2 DEF OnCourse, Working, Cascading, Storing
        <5>2. q = engine
          BY <1>0, <2>1, <3>1, <5>1 DEF Exclusive
        <5> QED
          BY <2>1, <4>2, <5>2 DEF OnCourse
      <4> QED
        BY <4>1, <4>2 DEF Handled
    <3>3. Pending(f)'
      <4>1. \A s \in Tasks : s # engine => SameTask(s)
        BY <2>1 DEF Finish, SameTask, TypeOK
      <4> QED
        BY <1>0, <2>1, <3>2, <4>1, PendingFrame, TaskAssumption
        DEF SameTask, Tasks
    <3> QED
      BY <3>3
  <2>3. CASE at[engine] # f
    <3>1. SameRows(f)
      BY <1>8, <2>1, <2>3, BoundAssumption
      DEF AddRuleInserts, InsertRow, SameRows, RowsOf, Rules, Ids, TypeOK
    <3> QED
      BY <1>6, <2>1, <2>3, <3>1
  <2> QED
    BY <2>2, <2>3
<1>9. ASSUME NEW r \in Rules, Recall(r) PROVE Pending(f)' \/ Handled(f)'
  <2>1. UNCHANGED <<disk, queue, op>> /\ \A q \in Tasks : SameTask(q)
    BY <1>9 DEF Recall, SameTask, taskVars, timerVars
  <2>2. SameRows(f)
    BY <1>9 DEF Recall, SameRows, RowsOf, Rules
  <2> QED
    BY <1>0, <2>1, <2>2, HandledFrame, PendingFrame DEF SameTask, Tasks
<1>10. CASE UNCHANGED vars
  <2>1. UNCHANGED <<disk, queue, op>> /\ \A q \in Tasks : SameTask(q)
    BY <1>10 DEF vars, SameTask, taskVars, timerVars
  <2>2. SameRows(f)
    BY <1>10 DEF vars, rowVars, SameRows, RowsOf, Rules
  <2> QED
    BY <1>0, <2>1, <2>2, HandledFrame, PendingFrame DEF SameTask, Tasks
<1>11. ~SyncStep /\ ~SyncFails /\ ~StopObserver /\ ~StopCancels
  BY <1>0 DEF SyncStep, SyncLists, SyncTakes, SyncSweeps, SyncArchives,
              StartObserver, SyncFails, StopObserver, StopCancels, Goto, Storing
<1>12. ASSUME FileChanges PROVE Pending(f)' \/ Handled(f)'
  <2>1. ASSUME NEW g \in Files, NEW t \in Texts \cup {Untitled, Absent},
               Edit(g, t)
        PROVE  Pending(f)' \/ Handled(f)'
    <3>1. {g} \in SUBSET Files
      OBVIOUS
    <3>2. \E e \in Files, u \in Texts \cup {Untitled, Absent} :
              Edit(e, u) /\ {g} = {e}
      BY <2>1
    <3> QED
      BY <1>1, <3>1, <3>2
  <2>2. ASSUME NEW g \in Files, NEW h \in Files, Move(g, h)
        PROVE  Pending(f)' \/ Handled(f)'
    <3>1. {g, h} \in SUBSET Files
      OBVIOUS
    <3>2. \E d, e \in Files : Move(d, e) /\ {g, h} = {d, e}
      BY <2>2
    <3> QED
      BY <1>1, <3>1, <3>2
  <2> QED
    BY <1>12, <2>1, <2>2 DEF FileChanges
<1>13. ASSUME NEW g \in Files, NEW t \in Texts, AddRuleWrites(g, t)
       PROVE  Pending(f)' \/ Handled(f)'
  BY ZenonT(60), <1>1, <1>13
<1> QED
  BY <1>2, <1>3, <1>4, <1>5, <1>7, <1>8, <1>9, <1>10, <1>11, <1>12, <1>13
  DEF Next, TimerStep, Tasks

LEMMA StartStep ==
  /\ TypeOK /\ RefInv /\ PhaseInv /\ Exclusive /\ InsertInv /\ OneRowPerPath
  /\ StartInv /\ phase = "starting" /\ [Next]_vars
  => StartInv' /\ WatchInv'
<1> SUFFICES ASSUME TypeOK, RefInv, PhaseInv, Exclusive, InsertInv,
                    OneRowPerPath, StartInv, phase = "starting", [Next]_vars
             PROVE  StartInv' /\ WatchInv'
  OBVIOUS
<1>0. \A q \in Tasks \ {main} : pc[q] = "idle"
  BY DEF PhaseInv
<1>1. ASSUME FileChanges PROVE StartInv' /\ WatchInv'
  <2>1. /\ UNCHANGED <<rowVars, taskVars, syncVars>>
        /\ disturbed \subseteq disturbed'
        /\ \A f \in Files \ disturbed' : disk'[f] = disk[f]
    <3>1. ASSUME NEW f \in Files, NEW t \in Texts \cup {Untitled, Absent},
                 Edit(f, t)
          PROVE  /\ UNCHANGED <<rowVars, taskVars, syncVars>>
                 /\ disturbed' = disturbed \cup {f}
                 /\ disk' = [disk EXCEPT ![f] = t]
      BY <3>1 DEF Edit, Change, Unseen
    <3>2. ASSUME NEW f \in Files, NEW g \in Files, Move(f, g)
          PROVE  /\ UNCHANGED <<rowVars, taskVars, syncVars>>
                 /\ disturbed' = disturbed \cup {f, g}
                 /\ disk' = [disk EXCEPT ![f] = Absent, ![g] = disk[f]]
      BY <3>2 DEF Move, Change, Unseen
    <3> QED
      BY <1>1, <3>1, <3>2 DEF FileChanges, TypeOK
  <2>2. ASSUME NEW f \in Files \ disturbed', Handled(f) PROVE Handled(f)'
    <3>1. SameRows(f)
      BY <2>1 DEF SameRows, RowsOf, Rules, rowVars
    <3>2. \A q \in Tasks : SameTask(q)
      BY <2>1 DEF SameTask, taskVars
    <3> QED
      BY <2>1, <2>2, <3>1, <3>2, HandledFrame
  <2>3. StartInv'
    BY <2>1, <2>2 DEF StartInv, RowsOf, Rules, rowVars, taskVars, syncVars
  <2> QED
    BY <2>1, <2>3 DEF WatchInv, syncVars
<1>2. ASSUME CascadeStep(main) PROVE StartInv' /\ WatchInv'
  <2>1. main \in Tasks
    BY DEF Tasks
  <2>2. /\ UNCHANGED <<disk, phase, listed, todo, doomed, disturbed>>
        /\ pc[main] \in Cascading /\ pc'[main] \in Cascading \cup {"idle", "index"}
    BY <1>2, <2>1, CascadeTasks DEF worldVars, syncVars
  <2>3. pc[main] \notin {"list", "sweep"} /\ pc'[main] \notin {"list", "sweep"}
    BY <2>2 DEF Cascading, Storing
  <2>4. doomed = {}
    BY <2>3 DEF RefInv
  <2>5. ASSUME NEW f \in Files \ disturbed, Handled(f) PROVE Handled(f)'
    BY <1>2, <2>1, <2>5, CascadeHandles
  <2>6. StartInv'
    BY <2>2, <2>3, <2>4, <2>5 DEF StartInv
  <2> QED
    BY <2>2, <2>6 DEF WatchInv
<1>3. ASSUME SyncLists PROVE StartInv' /\ WatchInv'
  <2>1. /\ listed' = {f \in Files : disk[f] # Absent} /\ todo' = listed'
        /\ pc[main] = "list" /\ pc' = [pc EXCEPT ![main] = "index"]
        /\ UNCHANGED <<disk, phase, doomed, disturbed>>
    BY <1>3 DEF SyncLists, Goto
  <2>2. doomed = {} /\ pc'[main] = "index"
    BY <2>1 DEF RefInv, TypeOK, Tasks
  <2> QED
    BY <2>1, <2>2 DEF StartInv, WatchInv
<1>4. ASSUME NEW f \in Files, SyncTakes(f) PROVE StartInv' /\ WatchInv'
  <2>1. /\ pc[main] = "index" /\ pc' = [pc EXCEPT ![main] = "read"]
        /\ f \in todo /\ todo' = todo \ {f} /\ at' = [at EXCEPT ![main] = f]
        /\ UNCHANGED <<disk, rowVars, text, row, phase, listed, doomed, disturbed>>
    BY <1>4 DEF SyncTakes, Goto
  <2>2. /\ main \in Tasks /\ pc'[main] = "read" /\ at'[main] = f
        /\ \A q \in Tasks : q # main => SameTask(q)
    BY <2>1 DEF TypeOK, Tasks, SameTask
  <2>3. ASSUME NEW g \in Files \ disturbed, g \in listed \ todo'
        PROVE  Handled(g)'
    <3>1. CASE g = f
      <4>1. disk'[g] # Absent
        BY <2>1, <2>3 DEF StartInv
      <4> QED
        BY <2>2, <3>1, <4>1 DEF Handled, OnCourse
    <3>2. CASE g # f
      <4>1. Handled(g)
        BY <2>1, <2>3, <3>2 DEF StartInv
      <4>2. SameRows(g)
        BY <2>1 DEF SameRows, RowsOf, Rules, rowVars
      <4>3. \A q \in Tasks : Working(g, q) \/ Working(g, q)' => SameTask(q)
        BY <2>1, <2>2, <3>2 DEF Working, Cascading, Storing
      <4> QED
        BY <2>1, <4>1, <4>2, <4>3, HandledFrame
    <3> QED
      BY <3>1, <3>2
  <2>4. doomed = {} /\ pc[main] # "list" /\ pc'[main] # "sweep"
    BY <2>1, <2>2 DEF RefInv
  <2>5. \A g \in Files \ disturbed : g \in listed <=> disk[g] # Absent
    BY <2>1, <2>4 DEF StartInv
  <2>6. StartInv'
    BY <2>1, <2>3, <2>4, <2>5 DEF StartInv
  <2> QED
    BY <2>1, <2>6 DEF WatchInv
<1>5. ASSUME SyncSweeps PROVE StartInv' /\ WatchInv'
  <2>1. /\ pc[main] = "index" /\ pc' = [pc EXCEPT ![main] = "sweep"] /\ todo = {}
        /\ UNCHANGED <<disk, rowVars, at, text, row, phase, listed, todo>>
        /\ \/ doomed' = doomed
                /\ disturbed' = disturbed \cup {path[r] : r \in Orphans}
           \/ doomed' = Orphans /\ disturbed' = disturbed
    BY <1>5 DEF SyncSweeps, Goto
  <2>2. /\ main \in Tasks /\ pc'[main] = "sweep" /\ doomed = {}
        /\ \A q \in Tasks : q # main => SameTask(q)
    BY <2>1 DEF TypeOK, Tasks, SameTask, RefInv
  <2>3. ASSUME NEW g \in Files, Handled(g) PROVE Handled(g)'
    <3>1. SameRows(g)
      BY <2>1 DEF SameRows, RowsOf, Rules, rowVars
    <3>2. \A q \in Tasks : Working(g, q) \/ Working(g, q)' => SameTask(q)
      BY <2>1, <2>2 DEF Working, Cascading, Storing
    <3> QED
      BY <2>1, <2>3, <3>1, <3>2, HandledFrame
  <2>4. ASSUME NEW g \in Files \ disturbed', g \notin listed,
               NEW r \in RowsOf(g) \ archived
        PROVE  r \in doomed'
    <3>1. r \in Orphans /\ path[r] = g
      BY <2>4 DEF Orphans, Managed, RowsOf
    <3> QED
      BY <2>1, <2>4, <3>1
  <2>5. \A r \in doomed' : path[r] \notin listed
    BY <2>1, <2>2 DEF Orphans
  <2>6. disturbed \subseteq disturbed'
    BY <2>1
  <2>7. \A g : RowsOf(g)' = RowsOf(g)
    BY <2>1 DEF RowsOf, Rules, rowVars
  <2>8. StartInv'
    BY <2>1, <2>2, <2>3, <2>4, <2>5, <2>6, <2>7 DEF StartInv, rowVars
  <2> QED
    BY <2>1, <2>8 DEF WatchInv
<1>6. ASSUME NEW r \in Rules, SyncArchives(r) PROVE StartInv' /\ WatchInv'
  <2>1. /\ pc[main] = "sweep" /\ r \in doomed /\ doomed' = doomed \ {r}
        /\ archived' = archived \cup {r} /\ path[r] \notin listed
        /\ UNCHANGED <<disk, count, path, hash, recalled, taskVars, phase,
                       listed, todo, disturbed>>
    BY <1>6 DEF SyncArchives, StartInv
  <2>2. \A g : RowsOf(g)' = RowsOf(g)
    BY <2>1 DEF RowsOf, Rules
  <2>3. ASSUME NEW g \in Files, g \in listed, Handled(g) PROVE Handled(g)'
    <3>1. SameRows(g)
      BY <2>1, <2>2, <2>3 DEF SameRows, RowsOf
    <3>2. \A q \in Tasks : SameTask(q)
      BY <2>1 DEF SameTask, taskVars
    <3> QED
      BY <2>1, <2>3, <3>1, <3>2, HandledFrame
  <2>4. StartInv'
    BY <2>1, <2>2, <2>3 DEF StartInv, taskVars
  <2> QED
    BY <2>1, <2>4 DEF WatchInv
<1>7. ASSUME StartObserver PROVE StartInv' /\ WatchInv'
  <2>1. /\ pc[main] = "sweep" /\ pc' = [pc EXCEPT ![main] = "done"]
        /\ doomed = {} /\ phase' = "on"
        /\ UNCHANGED <<disk, rowVars, at, text, row, disturbed>>
    BY <1>7 DEF StartObserver, Goto
  <2>2. todo = {} /\ \A q \in Tasks : ~(pc[q] \in Cascading) /\ pc'[q] \notin Cascading
    BY <1>0, <2>1 DEF RefInv, Cascading, Storing, TypeOK, Tasks
  <2>3. ASSUME NEW f \in Files \ disturbed PROVE Mirrored(f)
    <3>1. CASE f \in listed
      BY <2>1, <2>2, <2>3, <3>1
      DEF StartInv, Handled, Settled, OnCourse, Cascading, Storing
    <3>2. CASE f \notin listed
      BY <2>1, <2>3, <3>2, TextAssumption DEF StartInv, Mirrored
    <3> QED
      BY <3>1, <3>2
  <2>4. ASSUME NEW f \in Files \ disturbed PROVE Handled(f)'
    <3>1. SameRows(f)
      BY <2>1 DEF SameRows, RowsOf, Rules, rowVars
    <3>2. Mirrored(f)'
      BY <2>1, <2>3, <3>1, MirroredFrame
    <3> QED
      BY <2>2, <3>2 DEF Handled, Settled, Working
  <2> QED
    BY <2>1, <2>4 DEF StartInv, WatchInv
<1>8. ASSUME SyncFails PROVE StartInv' /\ WatchInv'
  BY <1>8 DEF SyncFails, StartInv, WatchInv
<1>9. CASE UNCHANGED vars
  <2>1. UNCHANGED <<disk, rowVars, taskVars, phase, listed, todo, doomed, disturbed>>
    BY <1>9 DEF vars, syncVars
  <2>2. ASSUME NEW f \in Files, Handled(f) PROVE Handled(f)'
    <3>1. SameRows(f) /\ \A q \in Tasks : SameTask(q)
      BY <2>1 DEF SameRows, SameTask, RowsOf, Rules, rowVars, taskVars
    <3> QED
      BY <2>1, <2>2, <3>1, HandledFrame
  <2>3. \A f : RowsOf(f)' = RowsOf(f)
    BY <2>1 DEF RowsOf, Rules, rowVars
  <2> QED
    BY <2>1, <2>2, <2>3 DEF StartInv, WatchInv, rowVars, taskVars
<1>10. /\ ~StopObserver /\ ~StopCancels /\ ~AddRuleInserts
       /\ \A f \in Files, t \in Texts : ~AddRuleWrites(f, t)
       /\ \A r \in Rules : ~Recall(r)
  BY <1>0, TaskAssumption
  DEF StopObserver, StopCancels, AddRuleInserts, AddRuleWrites, Recall, Tasks
<1>11. ASSUME NEW t \in Timers
       PROVE  ~Schedule(t) /\ ~TimerStep(t) /\ ~CascadeFails(t)
  <2>1. pc[t] = "idle" /\ t \in Tasks
    BY <1>0, TaskAssumption DEF Tasks
  <2>2. ~CascadeStep(t)
    BY <2>1, CascadeTasks DEF Cascading, Storing
  <2> QED
    BY <2>1, <2>2 DEF Schedule, TimerStep, Elapse, Fire, CascadeFails, Goto,
                      Storing
<1>12. \/ FileChanges \/ CascadeStep(main) \/ SyncStep \/ SyncFails
       \/ UNCHANGED vars
  BY <1>10, <1>11 DEF Next
<1>13. ASSUME SyncStep PROVE StartInv' /\ WatchInv'
  BY <1>3, <1>4, <1>5, <1>6, <1>7, <1>13 DEF SyncStep
<1> QED
  BY <1>1, <1>2, <1>8, <1>9, <1>12, <1>13

----------------------------------------------------------------------------
IInv ==
    /\ TypeOK /\ RefInv /\ PhaseInv /\ RegInv /\ Exclusive /\ InsertInv
    /\ OneRowPerPath /\ LastEvent /\ WatchInv /\ StartInv

LEMMA InitInv == Init => IInv
<1> SUFFICES ASSUME Init PROVE IInv
  OBVIOUS
<1>1. TypeOK /\ RefInv
  BY InitTypes
<1>2. /\ phase = "starting" /\ queue = <<>> /\ pc[main] = "list"
      /\ \A q \in Tasks : pc[q] \in {"idle", "list"}
      /\ \A q \in Tasks \ {main} : pc[q] = "idle"
      /\ \A f \in Files : reg[f] = NoTimer
  BY DEF Init, Tasks
<1>3. OneRowPerPath
  BY FileAssumption, BoundAssumption DEF Init, OneRowPerPath, RowsOf, Rules, Ids
<1>4. LastEvent
  <2>1. Len(queue) = 0
    BY <1>2
  <2> QED
    BY <2>1 DEF LastEvent
<1> QED
  BY <1>1, <1>2, <1>3, <1>4
  DEF IInv, PhaseInv, RegInv, Exclusive, Working, InsertInv, WatchInv, StartInv,
      Cascading, Storing

LEMMA NextInv == IInv /\ [Next]_vars => IInv'
<1> SUFFICES ASSUME IInv, [Next]_vars PROVE IInv'
  OBVIOUS
<1>1. /\ TypeOK' /\ RefInv' /\ PhaseInv' /\ RegInv' /\ Exclusive'
      /\ InsertInv' /\ OneRowPerPath' /\ LastEvent'
  BY TypeStep, RefStep, PhaseStep, RegStep, ExclusiveStep, OneRowStep,
     LastEventStep
  DEF IInv
<1>2. CASE phase = "starting"
  BY <1>1, <1>2, StartStep DEF IInv
<1>3. CASE phase = "on"
  <2>1. phase' # "starting"
    BY <1>3
    DEF Next, FileChanges, TimerStep, CascadeStep, SyncStep, Edit, Move,
           Change, Schedule, Elapse, Fire, CascadeFails, Check, Read, FindsNone,
           FindsCurrent, FindsStale, Update, Restore, Insert, MissingHasNone,
           MissingHasRow, Archive, SyncLists, SyncTakes, SyncSweeps,
           SyncArchives, StartObserver, SyncFails, StopObserver, StopCancels,
           AddRuleWrites, AddRuleInserts, Recall, worldVars, syncVars, vars
  <2>2. WatchInv'
    BY <1>3, WatchStep DEF IInv
  <2>3. StartInv'
    BY <2>1 DEF StartInv
  <2> QED
    BY <1>1, <2>2, <2>3 DEF IInv
<1>4. CASE phase \notin {"starting", "on"}
  <2>1. phase' \notin {"starting", "on"}
    <3>1. pc[main] = "done"
      BY <1>4 DEF IInv, PhaseInv
    <3> QED
      BY ZenonT(60), <1>4, <3>1 DEF Next, FileChanges, TimerStep, CascadeStep, SyncStep,
           Edit, Move, Goto, Storing,
           Change, Schedule, Elapse, Fire, CascadeFails, Check, Read, FindsNone,
           FindsCurrent, FindsStale, Update, Restore, Insert, MissingHasNone,
           MissingHasRow, Archive, SyncLists, SyncTakes, SyncSweeps,
           SyncArchives, StartObserver, SyncFails, StopObserver, StopCancels,
           AddRuleWrites, AddRuleInserts, Recall, worldVars, syncVars, vars
  <2> QED
    BY <1>1, <2>1 DEF IInv, StartInv, WatchInv
<1> QED
  BY <1>2, <1>3, <1>4

\* The inductive invariant of the watcher, for any files, texts and timers and
\* any number of rows and changes (RulesWatcher of files/watcher.py).
THEOREM WatcherInvariant == Spec => []IInv
<1>1. IInv /\ UNCHANGED vars => IInv'
  BY NextInv
<1> QED
  BY InitInv, NextInv, PTL DEF Spec

\* Types of the rows, tasks and events of the watcher.
THEOREM Types == Spec => []TypeOK
<1>1. IInv => TypeOK
  BY DEF IInv
<1> QED
  BY <1>1, WatcherInvariant, PTL

\* A path never gets a second row from the watcher: _cascade_upsert inserts
\* only where find_rule_by_file_path finds nothing, archived rows included.
THEOREM PathsHaveOneRow == Spec => []OneRowPerPath
<1>1. IInv => OneRowPerPath
  BY DEF IInv
<1> QED
  BY <1>1, WatcherInvariant, PTL

\* While the watcher runs, a row that is not as its file has an event, a timer
\* or a cascade on its way to it.
THEOREM EventsAreNotForgotten == Spec => []NothingForgotten
<1>1. IInv => NothingForgotten
  <2> SUFFICES ASSUME IInv, phase = "on", NEW f \in Files \ disturbed,
                      ~Mirrored(f)
               PROVE  Due(f)
    BY DEF NothingForgotten
  <2>1. Pending(f) \/ \E q \in Tasks : OnCourse(f, q)
    BY DEF IInv, WatchInv, Handled, Settled
  <2>2. CASE Pending(f)
    BY <2>2 DEF Pending, Due, Tasks
  <2>3. ASSUME NEW q \in Tasks, OnCourse(f, q) PROVE Due(f)
    <3>1. at[q] = f /\ (pc[q] \in Carrying <=> text[q] \in Texts)
          /\ text[q] \in Texts \cup {Absent}
      BY <2>3 DEF IInv, TypeOK, RefInv, OnCourse
    <3>2. CASE pc[q] \in {"check", "read"}
      BY <3>1, <3>2 DEF Due
    <3>3. CASE pc[q] \in {"missing", "archive"}
      <4>1. text[q] = Absent /\ disk[f] = Absent
        BY <2>3, <3>1, <3>3 DEF Carrying, OnCourse
      <4> QED
        BY <3>1, <3>3, <4>1 DEF Due, Storing
    <3>4. CASE pc[q] \in {"find", "insert", "revive", "update", "restore"}
      BY <2>3, <3>1, <3>4 DEF OnCourse, Due, Storing
    <3> QED
      BY <2>3, <3>2, <3>3, <3>4 DEF OnCourse
  <2> QED
    BY <2>1, <2>2, <2>3
<1> QED
  BY <1>1, WatcherInvariant, PTL

=============================================================================
