--------------------------- MODULE RuleLifecycle ---------------------------
(***************************************************************************)
(* The life of the rows of table rules under the rule tools (tools/        *)
(* rules.py) and recall_entry (tools/corpus.py): insertion, archiving and  *)
(* restoring against the rule files, supersession and recall.              *)
(*                                                                         *)
(* Several callers drive one database: the tools of one server run one     *)
(* after the other, but several servers (stdio sessions on one file, pods  *)
(* on one Postgres) run side by side.  Every storage call is one           *)
(* transaction; a tool that checks and then writes, or that goes over the  *)
(* files one by one, is several steps.                                     *)
(*                                                                         *)
(* Rows are numbered in order of insertion and never deleted.  Bodies,     *)
(* titles and attribution are left out: which row a title finds is any row *)
(* or none.                                                                *)
(***************************************************************************)
EXTENDS Integers, FiniteSets

CONSTANTS
    Callers,   \* servers that run a tool
    Files,     \* paths under the rules directory
    NoFile,
    MaxRules,  \* bound: rows inserted
    Floor      \* archive_would_storm's floor

ASSUME FileAssumption == NoFile \notin Files
ASSUME BoundAssumption == MaxRules \in Nat /\ Floor \in Nat

Ids == 1..MaxRules
NoRule == 0

VARIABLES
    count,    \* rows inserted: the rows are 1..count
    file,     \* row -> file_path
    archived, \* rows with archived = 1
    status,   \* row -> status
    succ,     \* row -> superseded_by
    trail,    \* rows whose last archived/restored event says archived
    disk,     \* rule files present
    pc,       \* caller -> where its tool is
    old, new, \* caller -> the rows its tool works on
    at,       \* caller -> the file its tool works on
    todo,     \* caller -> files its sync has still to index
    orphans,  \* caller -> rows its sync has still to archive
    calm      \* caller -> no file changed since its sync began

rowVars == <<count, file, archived, status, succ, trail>>
callVars == <<pc, old, new, at, todo, orphans, calm>>
vars == <<rowVars, disk, callVars>>

Rules == 1..count
PC == {"idle", "supersede", "unsupersede", "write_file", "index", "insert",
       "revive", "revived", "sweep", "swept", "refused"}

TypeOK ==
    /\ count \in 0..MaxRules
    /\ file \in [Ids -> Files \cup {NoFile}]
    /\ archived \subseteq Ids
    /\ status \in [Ids -> {"active", "superseded", "recalled"}]
    /\ succ \in [Ids -> Ids \cup {NoRule}]
    /\ trail \subseteq Ids
    /\ disk \subseteq Files
    /\ pc \in [Callers -> PC]
    /\ old \in [Callers -> Ids \cup {NoRule}]
    /\ new \in [Callers -> Ids \cup {NoRule}]
    /\ at \in [Callers -> Files \cup {NoFile}]
    /\ todo \in [Callers -> SUBSET Files]
    /\ orphans \in [Callers -> SUBSET Ids]
    /\ calm \in [Callers -> BOOLEAN]

Init ==
    /\ count = 0
    /\ file = [r \in Ids |-> NoFile]
    /\ archived = {}
    /\ status = [r \in Ids |-> "active"]
    /\ succ = [r \in Ids |-> NoRule]
    /\ trail = {}
    /\ disk \in SUBSET Files
    /\ pc = [c \in Callers |-> "idle"]
    /\ old = [c \in Callers |-> NoRule]
    /\ new = [c \in Callers |-> NoRule]
    /\ at = [c \in Callers |-> NoFile]
    /\ todo = [c \in Callers |-> {}]
    /\ orphans = [c \in Callers |-> {}]
    /\ calm = [c \in Callers |-> FALSE]

Goto(c, from, to) == pc[c] = from /\ pc' = [pc EXCEPT ![c] = to]

\* The tool's variables go out of scope.
Forget(c) ==
    /\ old' = [old EXCEPT ![c] = NoRule]
    /\ new' = [new EXCEPT ![c] = NoRule]
    /\ at' = [at EXCEPT ![c] = NoFile]

RowsOf(f) == {r \in Rules : file[r] = f}

\* insert_rule followed by its "created" event.
InsertRule(f) ==
    /\ count < MaxRules
    /\ count' = count + 1
    /\ file' = [file EXCEPT ![count + 1] = f]
    /\ UNCHANGED <<archived, status, succ, trail>>

----------------------------------------------------------------------------
(* Supersession: read both rows, refuse or write.                          *)

\* Mutant: a superseded rule is accepted as the successor.
ReadsAnySuccessor(c, o, n) ==
    /\ Goto(c, "idle", "supersede")
    /\ o # n
    /\ old' = [old EXCEPT ![c] = o]
    /\ new' = [new EXCEPT ![c] = n]
    /\ UNCHANGED <<rowVars, disk, at, todo, orphans, calm>>

\* supersede_rule refuses o = n and a successor already superseded.
SupersedeReads(c, o, n) ==
    /\ Goto(c, "idle", "supersede")
    /\ o # n
    /\ status[n] # "superseded"
    /\ old' = [old EXCEPT ![c] = o]
    /\ new' = [new EXCEPT ![c] = n]
    /\ UNCHANGED <<rowVars, disk, at, todo, orphans, calm>>

SupersedeWrites(c) ==
    /\ Goto(c, "supersede", "idle")
    /\ status' = [status EXCEPT ![old[c]] = "superseded"]
    /\ succ' = [succ EXCEPT ![old[c]] = new[c]]
    /\ Forget(c)
    /\ UNCHANGED <<count, file, archived, trail, disk, todo,
                   orphans, calm>>

UnsupersedeReads(c, r) ==
    /\ Goto(c, "idle", "unsupersede")
    /\ status[r] = "superseded"
    /\ old' = [old EXCEPT ![c] = r]
    /\ UNCHANGED <<rowVars, disk, new, at, todo, orphans, calm>>

UnsupersedeWrites(c) ==
    /\ Goto(c, "unsupersede", "idle")
    /\ status' = [status EXCEPT ![old[c]] = "active"]
    /\ succ' = [succ EXCEPT ![old[c]] = NoRule]
    /\ Forget(c)
    /\ UNCHANGED <<count, file, archived, trail, disk, todo,
                   orphans, calm>>

\* recall_entry of a rule, one transaction: superseded_by stays.
Recall(c, r) ==
    /\ pc[c] = "idle"
    /\ status' = [status EXCEPT ![r] = "recalled"]
    /\ UNCHANGED <<count, file, archived, succ, trail, disk, callVars>>

----------------------------------------------------------------------------
(* Insertion and restoring.                                                *)

\* add_rule in files mode, a new title: a file that did not exist is
\* written, then the row is inserted.
AddRuleWritesFile(c, f) ==
    /\ Goto(c, "idle", "write_file")
    /\ f \notin disk
    /\ disk' = disk \cup {f}
    /\ at' = [at EXCEPT ![c] = f]
    /\ calm' = [d \in Callers |-> FALSE]
    /\ UNCHANGED <<rowVars, old, new, todo, orphans>>

AddRuleInserts(c) ==
    /\ Goto(c, "write_file", "idle")
    /\ InsertRule(at[c])
    /\ Forget(c)
    /\ UNCHANGED <<disk, todo, orphans, calm>>

\* add_rule or import_rules of a new title with a file_path, or without one
\* in database mode: only the row is written.
AddRuleIndexes(c, f) ==
    /\ pc[c] = "idle"
    /\ InsertRule(f)
    /\ UNCHANGED <<disk, callVars>>

\* The same on a title some row has: the row moves to the given path.
AddRuleUpdates(c, r, f) ==
    /\ pc[c] = "idle"
    /\ file' = [file EXCEPT ![r] = f]
    /\ UNCHANGED <<count, archived, status, succ, trail, disk, callVars>>

\* Mutant: restore_rule clears the flag and emits no event.
RestoresQuietly(c, rs) ==
    /\ pc[c] = "idle"
    /\ archived' = archived \ rs
    /\ UNCHANGED <<count, file, status, succ, trail, disk, callVars>>

\* restore_rule: one transaction, the archived ones among the given rows.
Restore(c, rs) ==
    /\ pc[c] = "idle"
    /\ archived' = archived \ rs
    /\ trail' = trail \ (rs \cap archived)
    /\ UNCHANGED <<count, file, status, succ, disk, callVars>>

----------------------------------------------------------------------------
(* sync_rules: index the files listed at the start, one by one, then       *)
(* archive the rows whose file is missing. (With no file and no rules      *)
(* directory at all the tool returns at once and changes nothing.)         *)

SyncStarts(c) ==
    /\ Goto(c, "idle", "index")
    /\ todo' = [todo EXCEPT ![c] = disk]
    /\ calm' = [calm EXCEPT ![c] = TRUE]
    /\ UNCHANGED <<rowVars, disk, old, new, at, orphans>>

Takes(c, f) == f \in todo[c] /\ todo' = [todo EXCEPT ![c] = @ \ {f}]

\* Nothing to do for a file that vanished meanwhile (it parses as nothing)
\* or that has a live row (its texts are rewritten).
SyncPasses(c, f) ==
    /\ pc[c] = "index"
    /\ Takes(c, f)
    /\ f \in disk => RowsOf(f) \ archived # {}
    /\ UNCHANGED <<rowVars, disk, pc, old, new, at, orphans, calm>>

SyncFindsNone(c, f) ==
    /\ Goto(c, "index", "insert")
    /\ Takes(c, f)
    /\ f \in disk /\ RowsOf(f) = {}
    /\ at' = [at EXCEPT ![c] = f]
    /\ UNCHANGED <<rowVars, disk, old, new, orphans, calm>>

SyncFindsArchived(c, f, r) ==
    /\ Goto(c, "index", "revive")
    /\ Takes(c, f)
    /\ f \in disk /\ r \in RowsOf(f) \cap archived
    /\ old' = [old EXCEPT ![c] = r]
    /\ UNCHANGED <<rowVars, disk, new, at, orphans, calm>>

SyncInserts(c) ==
    /\ Goto(c, "insert", "index")
    /\ InsertRule(at[c])
    /\ Forget(c)
    /\ UNCHANGED <<disk, todo, orphans, calm>>

\* Mutant: a reappeared file does not revive its row.
SyncLeavesArchived(c) ==
    /\ Goto(c, "revive", "index")
    /\ Forget(c)
    /\ UNCHANGED <<rowVars, disk, todo, orphans, calm>>

\* restore_rule, then in a transaction of its own the "restored" event.
SyncRestores(c) ==
    /\ Goto(c, "revive", "revived")
    /\ archived' = archived \ {old[c]}
    /\ UNCHANGED <<count, file, status, succ, trail, disk, old, new, at,
                   todo, orphans, calm>>

SyncRestoredEvent(c) ==
    /\ Goto(c, "revived", "index")
    /\ trail' = trail \ {old[c]}
    /\ Forget(c)
    /\ UNCHANGED <<count, file, archived, status, succ, disk, todo,
                   orphans, calm>>

Managed == {r \in Rules \ archived : file[r] # NoFile}
Orphans == {r \in Managed : file[r] \notin disk}

\* archive_would_storm with the default fraction, one half.
WouldStorm(gone, managed) ==
    Cardinality(gone) > Floor /\ 2 * Cardinality(gone) > Cardinality(managed)

\* The sweep is computed whole before it starts, and refused if it is large.
SyncLists(c, force) ==
    /\ todo[c] = {}
    /\ \/ force /\ Goto(c, "index", "sweep")
       \/ ~force /\ ~WouldStorm(Orphans, Managed) /\ Goto(c, "index", "sweep")
       \/ ~force /\ WouldStorm(Orphans, Managed) /\ Goto(c, "index", "refused")
    /\ orphans' = [orphans EXCEPT ![c] = Orphans]
    /\ UNCHANGED <<rowVars, disk, old, new, at, todo, calm>>

\* soft_delete_rule, then in a transaction of its own the "archived" event.
SyncArchives(c, r) ==
    /\ Goto(c, "sweep", "swept")
    /\ r \in orphans[c]
    /\ orphans' = [orphans EXCEPT ![c] = @ \ {r}]
    /\ old' = [old EXCEPT ![c] = r]
    /\ archived' = archived \cup {r}
    /\ UNCHANGED <<count, file, status, succ, trail, disk, new, at, todo, calm>>

SyncArchivedEvent(c) ==
    /\ Goto(c, "swept", "sweep")
    /\ trail' = trail \cup {old[c]}
    /\ Forget(c)
    /\ UNCHANGED <<count, file, archived, status, succ, disk, todo,
                   orphans, calm>>

SyncSwept(c) == pc[c] = "sweep" /\ orphans[c] = {}

SyncReturns(c) ==
    /\ SyncSwept(c) \/ pc[c] = "refused"
    /\ pc' = [pc EXCEPT ![c] = "idle"]
    /\ orphans' = [orphans EXCEPT ![c] = {}]
    /\ calm' = [calm EXCEPT ![c] = FALSE]
    /\ UNCHANGED <<rowVars, disk, old, new, at, todo>>

----------------------------------------------------------------------------
\* People and checkouts create and remove rule files at any moment.
FilesChange(f) ==
    /\ disk' = IF f \in disk THEN disk \ {f} ELSE disk \cup {f}
    /\ calm' = [c \in Callers |-> FALSE]
    /\ UNCHANGED <<rowVars, pc, old, new, at, todo, orphans>>

SyncStep(c) ==
    \/ SyncStarts(c) \/ SyncInserts(c) \/ SyncRestores(c)
    \/ SyncRestoredEvent(c) \/ SyncArchivedEvent(c) \/ SyncReturns(c)
    \/ \E f \in Files : SyncPasses(c, f) \/ SyncFindsNone(c, f)
    \/ \E f \in Files, r \in Rules : SyncFindsArchived(c, f, r)
    \/ \E force \in BOOLEAN : SyncLists(c, force)
    \/ \E r \in Rules : SyncArchives(c, r)

RowStep(c) ==
    \/ SupersedeWrites(c) \/ UnsupersedeWrites(c) \/ AddRuleInserts(c)
    \/ \E o, n \in Rules : SupersedeReads(c, o, n)
    \/ \E r \in Rules : UnsupersedeReads(c, r) \/ Recall(c, r)
    \/ \E rs \in SUBSET Rules : Restore(c, rs)
    \/ \E f \in Files : AddRuleWritesFile(c, f)
    \/ \E f \in Files \cup {NoFile} : AddRuleIndexes(c, f)
    \/ \E r \in Rules, f \in Files : AddRuleUpdates(c, r, f)

Next ==
    \/ \E c \in Callers : SyncStep(c) \/ RowStep(c)
    \/ \E f \in Files : FilesChange(f)

Spec == Init /\ [][Next]_vars

----------------------------------------------------------------------------
(* What the tools promise.                                                 *)

Superseded == {r \in Rules : status[r] = "superseded"}

\* No set of superseded rules is closed under superseded_by: following the
\* successors of a superseded rule ends at a rule that is not superseded, so
\* two rules never hide each other (issue #99). It holds while the checks and
\* the write of supersede_rule are not interleaved with another server's.
NoSupersedeCycle ==
    \A S \in SUBSET Superseded : S # {} => \E r \in S : succ[r] \notin S

\* Between two calls the audit trail tells which rules are archived: the last
\* archived/restored event of a row agrees with its flag.
TrailAgrees ==
    (\A c \in Callers : pc[c] = "idle") => trail = archived

\* A sync during which no file changed leaves the rows as the files are:
\* every file has a live row, and unless the blast-radius guard refused the
\* sweep no live row points at a missing file.
SyncConverges ==
    \A c \in Callers :
        calm[c] /\ (SyncSwept(c) \/ pc[c] = "refused") =>
            /\ \A f \in disk : RowsOf(f) \ archived # {}
            /\ pc[c] = "refused" \/ Orphans = {}
=============================================================================
