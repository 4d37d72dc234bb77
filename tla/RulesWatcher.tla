---------------------------- MODULE RulesWatcher ----------------------------
(***************************************************************************)
(* The files-win watcher (files/watcher.py): rule files change on disk,    *)
(* the observer's thread hands each event to _schedule, which debounces it *)
(* with a threading.Timer per path; a timer that elapses runs _fire on a   *)
(* thread of its own, which mirrors the file into the rows of table rules. *)
(* A daemon runs sync_once before it starts the observer (server.py), and  *)
(* add_rule writes a file and a row of its own meanwhile.                  *)
(*                                                                         *)
(* A task is a timer, the startup sync or add_rule; each look at the disk  *)
(* and each storage call of a task is one step.  A text stands for all     *)
(* that is parsed from a file and for its hash; Untitled is a file without *)
(* a title, which is not tracked.  Debouncing has no clock: an armed timer *)
(* may elapse at any moment.                                               *)
(***************************************************************************)
EXTENDS Integers, FiniteSets, Sequences

CONSTANTS
    Files, NoFile,
    Stored,                  \* the paths that may have a row at startup
    Texts, Untitled, Absent, \* what a path holds
    Timers, NoTimer,         \* timer objects alive at the same time
    main, engine,            \* the startup sync, add_rule
    MaxRules,                \* bound: rows inserted
    MaxChanges,              \* bound: file changes, recalls, storage errors
    Floor                    \* archive_would_storm's floor

ASSUME FileAssumption == NoFile \notin Files /\ Stored \subseteq Files
ASSUME TextAssumption ==
    Untitled \notin Texts /\ Absent \notin Texts \cup {Untitled}
ASSUME TaskAssumption ==
    /\ NoTimer \notin Timers \cup {main, engine}
    /\ main \notin Timers
    /\ engine \notin Timers \cup {main}
ASSUME BoundAssumption == {MaxRules, MaxChanges, Floor} \subseteq Nat

Ids == 1..MaxRules
NoRule == 0
Tasks == Timers \cup {main, engine}

VARIABLES
    disk,      \* file -> what it holds
    count,     \* rows inserted: the rows are 1..count
    path,      \* row -> file_path
    hash,      \* row -> the text content_hash was computed from
    body,      \* row -> the text column content came from, Absent if NULL
    archived,  \* rows with archived = 1
    recalled,  \* rows with status recalled
    queue,     \* events the observer has still to hand over
    reg,       \* file -> the timer _timers holds for it
    op,        \* timer -> upsert or delete, while it is armed
    pc,        \* task -> where it is
    at,        \* task -> the file it works on
    text,      \* task -> what it read from the file
    row,       \* task -> the row it found
    phase,     \* the watcher's life
    listed,    \* sync_once: seen_paths
    todo,      \* sync_once: files still to mirror
    doomed,    \* sync_once: rows still to archive
    disturbed, \* files for which something the design leaves open happened
    changes    \* what happened from outside: changes, recalls and errors

rowVars == <<count, path, hash, body, archived, recalled>>
taskVars == <<pc, at, text, row>>
syncVars == <<phase, listed, todo, doomed>>
timerVars == <<queue, reg, op>>
worldVars == <<disk, syncVars, timerVars, disturbed, changes>>
vars == <<disk, rowVars, taskVars, syncVars, timerVars, disturbed, changes>>

Rules == 1..count
RowsOf(f) == {r \in Rules : path[r] = f}

Storing == {"find", "insert", "update", "revive", "restore", "missing",
            "archive"}
Cascading == Storing \cup {"check", "read", "add"}
PC == Cascading \cup {"idle", "armed", "firing", "list", "index", "sweep",
                      "done"}
Event == Files \X {"upsert", "delete"}

TypeOK ==
    /\ disk \in [Files -> Texts \cup {Untitled, Absent}]
    /\ count \in 0..MaxRules
    /\ path \in [Ids -> Files \cup {NoFile}]
    /\ hash \in [Ids -> Texts \cup {Absent}]
    /\ body \in [Ids -> Texts \cup {Absent}]
    /\ archived \subseteq Rules /\ recalled \subseteq Rules
    /\ queue \in Seq(Event)
    /\ reg \in [Files -> Timers \cup {NoTimer}]
    /\ op \in [Timers -> {"upsert", "delete"}]
    /\ pc \in [Tasks -> PC]
    /\ at \in [Tasks -> Files \cup {NoFile}]
    /\ text \in [Tasks -> Texts \cup {Absent}]
    /\ row \in [Tasks -> Ids \cup {NoRule}]
    /\ phase \in {"starting", "on", "off", "stopping", "stopped"}
    /\ listed \subseteq Files /\ todo \subseteq listed /\ doomed \subseteq Rules
    /\ disturbed \subseteq Files
    /\ changes \in 0..MaxChanges

\* The daemon starts with the rows an earlier one left, one per path.
Init ==
    /\ disk \in [Files -> Texts \cup {Absent}]
    /\ count \in 0..MaxRules
    /\ path \in [Ids -> Stored \cup {NoFile}]
    /\ \A r, s \in Ids : path[r] = path[s] /\ path[r] # NoFile => r = s
    /\ \A r \in Ids : r \in Rules <=> path[r] # NoFile
    /\ hash \in [Ids -> Texts \cup {Absent}]
    /\ \A r \in Ids : r \in Rules <=> hash[r] # Absent
    /\ body = [r \in Ids |-> Absent]
    /\ archived \in SUBSET Rules
    /\ recalled = {}
    /\ queue = <<>>
    /\ reg = [f \in Files |-> NoTimer]
    /\ op = [t \in Timers |-> "upsert"]
    /\ pc = [q \in Tasks |-> IF q = main THEN "list" ELSE "idle"]
    /\ at = [q \in Tasks |-> NoFile]
    /\ text = [q \in Tasks |-> Absent]
    /\ row = [q \in Tasks |-> NoRule]
    /\ phase = "starting"
    /\ listed = {} /\ todo = {} /\ doomed = {}
    /\ disturbed = {}
    /\ changes = 0

----------------------------------------------------------------------------
(* The files change. While the observer runs, every change is an event.    *)

Happens == changes < MaxChanges /\ changes' = changes + 1

Notify(events) ==
    queue' = IF phase = "on" THEN queue \o events ELSE queue

Change(content, events) ==
    /\ Happens
    /\ disk' = content
    /\ Notify(events)
    /\ UNCHANGED <<rowVars, syncVars, reg, op>>

\* A change during the startup sync, or between its end and the start of the
\* observer, may be seen by neither.
Unseen(fs) ==
    disturbed' = IF phase = "starting" THEN disturbed \cup fs ELSE disturbed

\* Somebody saves the file, or removes it. An atomic-rename save is followed
\* by a deletion event for the path although the file is there.
Edit(f, t) ==
    /\ t # disk[f]
    /\ \E events \in
          IF t = Absent THEN {<< <<f, "delete">> >>}
          ELSE {<< <<f, "upsert">> >>, << <<f, "upsert">>, <<f, "delete">> >>} :
          Change([disk EXCEPT ![f] = t], events)
    /\ Unseen({f})
    /\ UNCHANGED taskVars

\* on_moved: delete-old and create-new.
Move(f, g) ==
    /\ f # g
    /\ disk[f] # Absent
    /\ Change([disk EXCEPT ![f] = Absent, ![g] = disk[f]],
              << <<f, "delete">>, <<g, "upsert">> >>)
    /\ Unseen({f, g})
    /\ UNCHANGED taskVars

----------------------------------------------------------------------------
(* Tasks.                                                                  *)

Busy(f) == \E q \in Tasks : at[q] = f /\ pc[q] \in Cascading

Goto(q, from, to) == pc[q] = from /\ pc' = [pc EXCEPT ![q] = to]

\* The task is over, the sync goes on with its next file.
Finish(q) ==
    /\ pc' = [pc EXCEPT ![q] = IF q = main THEN "index" ELSE "idle"]
    /\ at' = [at EXCEPT ![q] = NoFile]
    /\ text' = [text EXCEPT ![q] = Absent]
    /\ row' = [row EXCEPT ![q] = NoRule]

InsertRow(f, t, b) ==
    /\ count < MaxRules
    /\ count' = count + 1
    /\ path' = [path EXCEPT ![count + 1] = f]
    /\ hash' = [hash EXCEPT ![count + 1] = t]
    /\ body' = [body EXCEPT ![count + 1] = b]
    /\ UNCHANGED <<archived, recalled>>

\* _schedule, under _lock: a fresh event replaces the timer of its path.
\* Cancelling a timer that has elapsed already has no effect.
Schedule(t) ==
    LET f == Head(queue)[1]
        cancelled == {reg[f]} \cap {u \in Timers : pc[u] = "armed"}
    IN
    /\ phase = "on"
    /\ queue # <<>>
    /\ queue' = Tail(queue)
    /\ pc[t] = "idle"
    /\ pc' = [q \in Tasks |-> IF q = t THEN "armed"
                              ELSE IF q \in cancelled THEN "idle" ELSE pc[q]]
    /\ at' = [q \in Tasks |-> IF q = t THEN f
                              ELSE IF q \in cancelled THEN NoFile ELSE at[q]]
    /\ op' = [u \in Timers |-> IF u = t THEN Head(queue)[2]
                               ELSE IF u \in cancelled THEN "upsert" ELSE op[u]]
    /\ reg' = [reg EXCEPT ![f] = t]
    /\ UNCHANGED <<disk, rowVars, text, row, syncVars, disturbed, changes>>

\* The interval is over: the timer's thread goes on to call _fire.
Elapse(t) ==
    /\ Goto(t, "armed", "firing")
    /\ UNCHANGED <<worldVars, rowVars, at, text, row>>

\* _fire takes the path's timer out of _timers, whichever timer that is.
Fire(t) ==
    /\ pc[t] = "firing"
    /\ Goto(t, "firing", IF op[t] = "upsert" THEN "read" ELSE "check")
    /\ reg' = [reg EXCEPT ![at[t]] = NoTimer]
    /\ op' = [op EXCEPT ![t] = "upsert"]
    /\ disturbed' = IF Busy(at[t]) THEN disturbed \cup {at[t]} ELSE disturbed
    /\ UNCHANGED <<disk, rowVars, at, text, row, syncVars, queue, changes>>

----------------------------------------------------------------------------
(* _cascade_delete and _cascade_upsert.                                    *)

\* Mutant: a deletion event is believed although the file is there.
CheckBelieves(q) ==
    /\ Goto(q, "check", "missing")
    /\ UNCHANGED <<worldVars, rowVars, at, text, row>>

\* The spurious-delete guard.
Check(q) ==
    /\ Goto(q, "check", IF disk[at[q]] # Absent THEN "read" ELSE "missing")
    /\ UNCHANGED <<worldVars, rowVars, at, text, row>>

\* A file that is gone or has no title is not mirrored.
Read(q) ==
    /\ pc[q] = "read"
    /\ IF disk[at[q]] \in Texts
       THEN /\ Goto(q, "read", "find")
            /\ text' = [text EXCEPT ![q] = disk[at[q]]]
            /\ UNCHANGED <<at, row>>
       ELSE Finish(q)
    /\ UNCHANGED <<worldVars, rowVars>>

\* Mutant: an archived row is not found.
FindsNoLiveRow(q) ==
    /\ Goto(q, "find", "insert")
    /\ RowsOf(at[q]) \ archived = {}
    /\ UNCHANGED <<worldVars, rowVars, at, text, row>>

FindsNone(q) ==
    /\ Goto(q, "find", "insert")
    /\ RowsOf(at[q]) = {}
    /\ UNCHANGED <<worldVars, rowVars, at, text, row>>

\* Mutant: the hash check does not look at the archived flag.
CurrentIfArchived(q, r) == r \in recalled \/ hash[r] = text[q]

\* A recalled row is frozen; a live row with the file's hash is up to date.
Current(q, r) == r \in recalled \/ (hash[r] = text[q] /\ r \notin archived)

FindsCurrent(q, r) ==
    /\ pc[q] = "find"
    /\ r \in RowsOf(at[q]) /\ Current(q, r)
    /\ Finish(q)
    /\ UNCHANGED <<worldVars, rowVars>>

FindsStale(q, r) ==
    /\ Goto(q, "find", IF r \in archived THEN "revive" ELSE "update")
    /\ r \in RowsOf(at[q]) /\ ~Current(q, r)
    /\ row' = [row EXCEPT ![q] = r]
    /\ UNCHANGED <<worldVars, rowVars, at, text>>

\* update_rule with the parsed fields and the hash, and without content.
Update(q) ==
    /\ pc[q] \in {"update", "revive"}
    /\ hash' = [hash EXCEPT ![row[q]] = text[q]]
    /\ \/ pc[q] = "update" /\ Finish(q)
       \/ Goto(q, "revive", "restore") /\ UNCHANGED <<at, text, row>>
    /\ UNCHANGED <<worldVars, count, path, body, archived, recalled>>

Restore(q) ==
    /\ pc[q] = "restore"
    /\ archived' = archived \ {row[q]}
    /\ Finish(q)
    /\ UNCHANGED <<worldVars, count, path, hash, body, recalled>>

Insert(q) ==
    /\ pc[q] = "insert"
    /\ InsertRow(at[q], text[q], Absent)
    /\ Finish(q)
    /\ UNCHANGED worldVars

MissingHasNone(q) ==
    /\ pc[q] = "missing"
    /\ RowsOf(at[q]) = {} \/ RowsOf(at[q]) \cap archived # {}
    /\ Finish(q)
    /\ UNCHANGED <<worldVars, rowVars>>

MissingHasRow(q, r) ==
    /\ Goto(q, "missing", "archive")
    /\ r \in RowsOf(at[q]) \ archived
    /\ row' = [row EXCEPT ![q] = r]
    /\ UNCHANGED <<worldVars, rowVars, at, text>>

Archive(q) ==
    /\ pc[q] = "archive"
    /\ archived' = archived \cup {row[q]}
    /\ Finish(q)
    /\ UNCHANGED <<worldVars, count, path, hash, body, recalled>>

\* A storage error in _fire is swallowed; the event is gone.
CascadeFails(t) ==
    /\ pc[t] \in Storing
    /\ Happens
    /\ disturbed' = disturbed \cup {at[t]}
    /\ Finish(t)
    /\ UNCHANGED <<disk, rowVars, syncVars, timerVars>>

----------------------------------------------------------------------------
(* start_watcher: sync_once, then the observer; stop().                    *)

SyncLists ==
    /\ Goto(main, "list", "index")
    /\ listed' = {f \in Files : disk[f] # Absent}
    /\ todo' = listed'
    /\ UNCHANGED <<disk, rowVars, at, text, row, phase, doomed, timerVars,
                   disturbed, changes>>

SyncTakes(f) ==
    /\ Goto(main, "index", "read")
    /\ f \in todo
    /\ todo' = todo \ {f}
    /\ at' = [at EXCEPT ![main] = f]
    /\ UNCHANGED <<disk, rowVars, text, row, phase, listed, doomed, timerVars,
                   disturbed, changes>>

Managed == Rules \ archived
Orphans == {r \in Managed : path[r] \notin listed}
WouldStorm ==
    /\ Cardinality(Orphans) > Floor
    /\ 2 * Cardinality(Orphans) > Cardinality(Managed)

\* The sweep, refused as a whole if it would archive too much.
SyncSweeps ==
    /\ Goto(main, "index", "sweep")
    /\ todo = {}
    /\ \/ WouldStorm /\ UNCHANGED doomed
          /\ disturbed' = disturbed \cup {path[r] : r \in Orphans}
       \/ ~WouldStorm /\ doomed' = Orphans /\ UNCHANGED disturbed
    /\ UNCHANGED <<disk, rowVars, at, text, row, phase, listed, todo,
                   timerVars, changes>>

SyncArchives(r) ==
    /\ pc[main] = "sweep"
    /\ r \in doomed
    /\ doomed' = doomed \ {r}
    /\ archived' = archived \cup {r}
    /\ UNCHANGED <<disk, count, path, hash, body, recalled, taskVars, phase,
                   listed, todo, timerVars, disturbed, changes>>

StartObserver ==
    /\ Goto(main, "sweep", "done")
    /\ doomed = {}
    /\ phase' = "on"
    /\ listed' = {}
    /\ UNCHANGED <<disk, rowVars, at, text, row, todo, doomed, timerVars,
                   disturbed, changes>>

\* The transport swallows an error of the startup sync: there is no observer.
SyncFails ==
    /\ pc[main] \in Storing \cup {"sweep"}
    /\ Happens
    /\ phase' = "off"
    /\ pc' = [pc EXCEPT ![main] = "done"]
    /\ at' = [at EXCEPT ![main] = NoFile]
    /\ text' = [text EXCEPT ![main] = Absent]
    /\ row' = [row EXCEPT ![main] = NoRule]
    /\ listed' = {} /\ todo' = {} /\ doomed' = {}
    /\ UNCHANGED <<disk, rowVars, timerVars, disturbed>>

\* The observer's thread is joined: events it has not handed over are lost.
StopObserver ==
    /\ phase = "on"
    /\ phase' = "stopping"
    /\ queue' = <<>>
    /\ UNCHANGED <<disk, rowVars, taskVars, listed, todo, doomed, reg, op,
                   disturbed, changes>>

\* Under _lock, every timer in _timers is cancelled.
StopCancels ==
    LET cancelled == {u \in Timers : pc[u] = "armed" /\ u = reg[at[u]]} IN
    /\ phase = "stopping"
    /\ phase' = "stopped"
    /\ pc' = [q \in Tasks |-> IF q \in cancelled THEN "idle" ELSE pc[q]]
    /\ at' = [q \in Tasks |-> IF q \in cancelled THEN NoFile ELSE at[q]]
    /\ reg' = [f \in Files |-> NoTimer]
    /\ op' = [u \in Timers |-> IF u \in cancelled THEN "upsert" ELSE op[u]]
    /\ UNCHANGED <<disk, rowVars, text, row, listed, todo, doomed, queue,
                   disturbed, changes>>

----------------------------------------------------------------------------
(* Tools of the running server.                                            *)

\* add_rule of a new title: a file of a new name, then its row.
AddRuleWrites(f, t) ==
    /\ phase # "starting"
    /\ disk[f] = Absent
    /\ Goto(engine, "idle", "add")
    /\ Change([disk EXCEPT ![f] = t], << <<f, "upsert">> >>)
    /\ at' = [at EXCEPT ![engine] = f]
    /\ text' = [text EXCEPT ![engine] = t]
    /\ disturbed' = IF Busy(f) \/ RowsOf(f) # {} THEN disturbed \cup {f}
                    ELSE disturbed
    /\ UNCHANGED row

AddRuleInserts ==
    /\ pc[engine] = "add"
    /\ InsertRow(at[engine], text[engine], text[engine])
    /\ Finish(engine)
    /\ UNCHANGED worldVars

\* recall_entry.
Recall(r) ==
    /\ phase # "starting"
    /\ Happens
    /\ recalled' = recalled \cup {r}
    /\ UNCHANGED <<disk, count, path, hash, body, archived, taskVars,
                   syncVars, timerVars, disturbed>>

----------------------------------------------------------------------------
CascadeStep(q) ==
    \/ Check(q) \/ Read(q) \/ FindsNone(q) \/ Update(q) \/ Restore(q)
    \/ Insert(q) \/ MissingHasNone(q) \/ Archive(q)
    \/ \E r \in Rules :
          FindsCurrent(q, r) \/ FindsStale(q, r) \/ MissingHasRow(q, r)

SyncStep ==
    \/ SyncLists \/ SyncSweeps \/ StartObserver
    \/ \E f \in Files : SyncTakes(f)
    \/ \E r \in Rules : SyncArchives(r)

TimerStep(t) == Elapse(t) \/ Fire(t) \/ CascadeStep(t)

FileChanges ==
    \/ \E f \in Files, t \in Texts \cup {Untitled, Absent} : Edit(f, t)
    \/ \E f, g \in Files : Move(f, g)

Next ==
    \/ FileChanges
    \/ \E t \in Timers : Schedule(t) \/ TimerStep(t) \/ CascadeFails(t)
    \/ CascadeStep(main) \/ SyncStep \/ SyncFails \/ StopObserver \/ StopCancels
    \/ \E f \in Files, t \in Texts : AddRuleWrites(f, t)
    \/ AddRuleInserts
    \/ \E r \in Rules : Recall(r)

Spec == Init /\ [][Next]_vars

\* The observer hands its events over, timers elapse, and threads that can
\* run do. Nothing else has to happen.
FairSpec ==
    /\ Spec
    /\ WF_vars(\E t \in Timers : Schedule(t))
    /\ \A t \in Timers : WF_vars(TimerStep(t))
    /\ WF_vars(CascadeStep(main) \/ SyncStep)
    /\ WF_vars(AddRuleInserts)

----------------------------------------------------------------------------
(* What "files win" promises.                                              *)

\* The row of a path is as the file: live with its text, or archived without
\* one. A recalled row is exempt, and so is a file without a title.
Mirrored(f) ==
    /\ disk[f] = Absent => RowsOf(f) \subseteq archived
    /\ disk[f] \in Texts =>
          \E r \in RowsOf(f) :
              /\ RowsOf(f) = {r}
              /\ r \in recalled \/ (r \notin archived /\ hash[r] = disk[f])

\* Something that will still look at the file, or has seen it as it is, is
\* on its way.
Due(f) ==
    \/ \E i \in 1..Len(queue) : queue[i][1] = f
    \/ \E q \in Tasks :
          /\ at[q] = f
          /\ \/ pc[q] \in {"armed", "firing", "check", "read"}
             \/ pc[q] \in Storing /\ text[q] = disk[f]

\* Debouncing, cancelled timers, spurious deletions and renames never lose the
\* last word of a file: while the watcher runs, a row that is not as its file
\* has something on its way to it. Left open by the design, and excluded: two
\* cascades of one path at once, changes during startup, storage errors, a
\* refused sweep, and add_rule on a path that had a row.
NothingForgotten ==
    phase = "on" => \A f \in Files \ disturbed : Mirrored(f) \/ Due(f)

\* A path has one row, whatever order deletions, renames and recreations come
\* in: a recreated file revives its row.
OneRowPerPath ==
    \A f \in Files \ disturbed : \A r, s \in RowsOf(f) : r = s

\* When the files rest, every row is as its file and stays so.
FilesWin ==
    \A f \in Files :
        <>[](phase = "on" => f \in disturbed \/ Mirrored(f))
=============================================================================
