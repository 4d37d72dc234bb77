--------------------------- MODULE SchemaUpgrade ---------------------------
(***************************************************************************)
(* Schema upgrades of both backends (schema.py, postgres/storage.py).      *)
(*                                                                         *)
(* Every process that boots runs the whole list of statements on whatever  *)
(* database it finds.  On SQLite DDL commits by itself unless a DML        *)
(* statement has opened a transaction, and executescript always commits    *)
(* statement by statement; on Postgres the list is one transaction.        *)
(* Several processes may boot at once, and each may die at any statement.  *)
(*                                                                         *)
(* The table knowledge stands for the three entity tables whose full-text  *)
(* index never gained a column; rules_fts gained content (v8) and          *)
(* entries_fts facets_text (v19): "wide" is an index with that column.     *)
(***************************************************************************)
EXTENDS Integers, Sequences, FiniteSets

CONSTANTS
    Procs,        \* server processes
    Rows,         \* rows of every content table
    Starts,       \* the <<backend, version>> pairs a database may be found in
    MaxCrashes,   \* bound: processes killed
    MaxBoots      \* bound: boots

CORE_VERSION == 19
ASSUME StartAssumption == Starts \subseteq {"sqlite", "postgres"} \X (0..CORE_VERSION)
ASSUME UpgradeBoundAssumption == MaxCrashes \in Nat /\ MaxBoots \in Nat
ASSUME RowAssumption == Rows # {}

Indexed == {"knowledge", "rules", "entries"}
Triggers == {"ai", "ad", "au"}
NoProc == "no process"
ASSUME ProcAssumption == NoProc \notin Procs
Unread == -1

----------------------------------------------------------------------------
(* Statements.  how: "ddl", "dml" (opens a transaction), "script".         *)

Statement(op, how, table, name) ==
    [op |-> op, how |-> how, table |-> table, name |-> name]
Commit == <<Statement("commit", "ddl", "", "")>>

\* CREATE TABLE IF NOT EXISTS, with every column of the latest version.
CreateTable(t) == <<Statement("create table", "script", t, "")>>

\* if not _has_column(...): ALTER TABLE ... ADD COLUMN
AddColumn(t, c) ==
    <<Statement("has column", "ddl", t, c), Statement("add column", "ddl", t, c)>>
AddColumns(t, cs) == [i \in 1..(2 * Len(cs)) |->
    AddColumn(t, cs[(i + 1) \div 2])[2 - (i % 2)]]

DropIndex(t, how) ==
    <<Statement("drop trigger", how, t, "ai"), Statement("drop trigger", how, t, "ad"),
      Statement("drop trigger", how, t, "au"), Statement("drop fts", how, t, "")>>
CreateTriggers(op, how, t) ==
    <<Statement(op, how, t, "ai"), Statement(op, how, t, "ad"),
      Statement(op, how, t, "au")>>

\* Mutant: a boot makes the index anew and does not rebuild it.
RemakeIndex(t) ==
    DropIndex(t, "script") \o <<Statement("ensure fts", "script", t, "")>>
        \o CreateTriggers("ensure trigger", "script", t)

EnsureIndex(t) ==
    <<Statement("ensure fts", "script", t, "")>>
        \o CreateTriggers("ensure trigger", "script", t)

----------------------------------------------------------------------------
(* SQLite: CORE_SCHEMA, ENTRIES_SCHEMA and the migrations.                 *)

ENTRIES_SCHEMA == CreateTable("entries") \o EnsureIndex("entries")

CoreTables == CreateTable("knowledge") \o CreateTable("sessions")
                  \o CreateTable("session_metrics")
CoreIndexes == EnsureIndex("knowledge")
CoreRules == CreateTable("rules") \o EnsureIndex("rules")
CoreLedgers == CreateTable("rule_events") \o CreateTable("rule_outcomes")
                   \o CreateTable("token_ledger")
CoreGraph == CreateTable("relations") \o CreateTable("snapshots")
CORE_SCHEMA == CoreTables \o CoreIndexes \o CoreRules \o CoreLedgers \o CoreGraph

MigrateV1ToV2 == <<>>
MigrateV2ToV3 == AddColumn("knowledge", "last_hit_at")
                     \o AddColumn("rules", "last_hit_at") \o Commit
MigrateV3ToV4 == <<>>
MigrateV4ToV5 == AddColumns("knowledge", <<"reinforcement_count", "pinned">>)
                     \o AddColumns("rules", <<"reinforcement_count", "pinned">>)
                     \o Commit

\* Drop each index, make it again with the stemmer, without a wide column,
\* and rebuild it: the rebuild opens the transaction the triggers are in.
Rebuild(t, op) ==
    DropIndex(t, "ddl") \o <<Statement(op, "ddl", t, "")>>
        \o <<Statement("rebuild", "dml", t, "")>>
MigrateV5ToV6 ==
    Rebuild("knowledge", "create fts") \o Rebuild("rules", "create narrow fts")
        \o CreateTriggers("create trigger", "ddl", "knowledge")
        \o CreateTriggers("create narrow trigger", "ddl", "rules")
        \o Commit

MigrateV6ToV7 == AddColumns("rules", <<"content_hash", "archived", "archived_at">>)
                     \o Commit

\* Mutant: the triggers keep the old column list.
MigrateV7ToV8OldTriggers ==
    AddColumns("rules", <<"content", "created_by", "updated_by">>)
        \o Rebuild("rules", "create fts")
        \o CreateTriggers("create narrow trigger", "ddl", "rules")
        \o Commit

MigrateV7ToV8 ==
    AddColumns("rules", <<"content", "created_by", "updated_by">>)
        \o Rebuild("rules", "create fts")
        \o CreateTriggers("create trigger", "ddl", "rules")
        \o <<Statement("create table", "ddl", "rule_events", "")>>
        \o Commit
MigrateV8ToV9 ==
    AddColumns("rules", <<"correct_count", "incorrect_count", "valid_until",
                          "superseded_by", "status">>)
        \o <<Statement("create table", "ddl", "rule_outcomes", "")>> \o Commit
MigrateV9ToV10 == <<Statement("create table", "ddl", "token_ledger", "")>> \o Commit
MigrateV10ToV11 == AddColumns("rules", <<"importance", "scope", "kind">>) \o Commit
MigrateV11ToV12 == AddColumn("knowledge", "refs_json") \o Commit
MigrateV12ToV13 == AddColumn("knowledge", "source_classification")
                       \o AddColumn("rules", "source_classification") \o Commit
MigrateV13ToV14 == AddColumns("knowledge", <<"status", "superseded_by">>) \o Commit
MigrateV14ToV15 == <<Statement("create table", "ddl", "session_metrics", "")>>
                       \o Commit
MigrateV15ToV16 == AddColumn("knowledge", "valid_until") \o Commit
MigrateV16ToV17 == AddColumns("sessions", <<"principal", "workspace">>) \o Commit
MigrateV17ToV18 == ENTRIES_SCHEMA \o Commit
MigrateV18ToV19 ==
    AddColumn("entries", "facets_text") \o DropIndex("entries", "script")
        \o ENTRIES_SCHEMA \o <<Statement("rebuild", "script", "entries", "")>>
        \o Commit

\* Entry n upgrades a database of version n.
Migrations == <<MigrateV1ToV2, MigrateV2ToV3, MigrateV3ToV4, MigrateV4ToV5,
    MigrateV5ToV6, MigrateV6ToV7, MigrateV7ToV8, MigrateV8ToV9, MigrateV9ToV10,
    MigrateV10ToV11, MigrateV11ToV12, MigrateV12ToV13, MigrateV13ToV14,
    MigrateV14ToV15, MigrateV15ToV16, MigrateV16ToV17, MigrateV17ToV18,
    MigrateV18ToV19>>

ColumnsOf(seq) ==
    {<<seq[i].table, seq[i].name>> :
        i \in {j \in DOMAIN seq : seq[j].op = "add column"}}
SqliteColumns == UNION {ColumnsOf(Migrations[n]) : n \in DOMAIN Migrations}

\* migrate_core up to where it reads the version, and after it.
CoreScript == CORE_SCHEMA \o ENTRIES_SCHEMA
                  \o <<Statement("read version", "ddl", "", "")>>
Due(n, from) == IF n >= from /\ n + 1 <= CORE_VERSION THEN Migrations[n] ELSE <<>>
DueUpTo8(from) == Due(1, from) \o Due(2, from) \o Due(3, from) \o Due(4, from)
                      \o Due(5, from) \o Due(6, from) \o Due(7, from)
DueAfter8(from) == Due(8, from) \o Due(9, from) \o Due(10, from) \o Due(11, from)
                       \o Due(12, from) \o Due(13, from) \o Due(14, from)
                       \o Due(15, from) \o Due(16, from) \o Due(17, from)
                       \o Due(18, from)
Upgrade(from) ==
    CASE from \in {Unread, CORE_VERSION} -> <<>>
      [] from = 0 -> <<Statement("insert version", "dml", "", "")>> \o Commit
      [] OTHER -> DueUpTo8(from) \o DueAfter8(from)
                      \o <<Statement("update version", "dml", "", "")>> \o Commit

\* MCMServer: migrate_core, whose errors end the process; then the adapter's
\* ensure_schema, whose errors are logged: migrate_core again and the entries.
SqliteBoot == [from \in {Unread} \cup 0..CORE_VERSION |->
    CoreScript \o Upgrade(from)
        \o (IF from = Unread THEN <<>>
            ELSE CoreScript \o <<Statement("fill", "dml", "entries", "")>> \o Commit)]

----------------------------------------------------------------------------
(* Postgres: _DDL_STATEMENTS; a guarded column stands for those the same   *)
(* block adds.                                                             *)

PgTable(t) == <<Statement("create table", "ddl", t, "")>>
Guarded(t, c) == <<Statement("guarded column", "ddl", t, c)>>

PgEntities == PgTable("knowledge") \o PgTable("sessions")
                  \o Guarded("sessions", "principal")
PgRules == PgTable("rules") \o Guarded("rules", "content")
PgLifecycle == Guarded("rules", "correct_count") \o Guarded("rules", "importance")
                   \o Guarded("knowledge", "refs_json")
                   \o Guarded("knowledge", "source_classification")
                   \o Guarded("rules", "source_classification")
                   \o Guarded("knowledge", "status")
                   \o Guarded("knowledge", "valid_until")
PgLedgers == PgTable("rule_outcomes") \o PgTable("token_ledger")
                 \o PgTable("rule_events") \o PgTable("relations")
                 \o PgTable("snapshots") \o PgTable("session_metrics")
PgClaims == Guarded("knowledge", "subject_keys") \o Guarded("knowledge", "provenance")
PgAudit == PgTable("tokens") \o PgTable("recall_log")
               \o Guarded("recall_log", "entity_type") \o PgTable("sieve_rejections")
PgEntries == PgTable("entries") \o Guarded("entries", "facets_text")
PgDdl == PgEntities \o PgRules \o PgLifecycle \o PgLedgers \o PgClaims
             \o PgAudit \o PgEntries

PgColumns == {<<PgDdl[i].table, PgDdl[i].name>> :
                 i \in {j \in DOMAIN PgDdl : PgDdl[j].op = "guarded column"}}

\* ensure_schema is one transaction.
PgBoot == PgDdl \o <<Statement("stamp", "dml", "", ""),
                     Statement("fill", "dml", "entries", "")>> \o Commit

----------------------------------------------------------------------------
VARIABLES
    backend,
    db,        \* what is committed
    work,      \* what the process in a transaction sees
    owner,     \* that process: it holds the write lock
    proc,      \* per process: where its boot is
    crashes, boots,
    tangled    \* a process died in an upgrade another one had begun as well

vars == <<backend, db, work, owner, proc, crashes, boots, tangled>>

\* The version that introduced a table or a column.
TableVersion(t) ==
    CASE t \in {"knowledge", "sessions"} -> 1 [] t = "rules" -> 2
      [] t = "relations" -> 4 [] t = "snapshots" -> 5
      [] t \in {"tokens", "recall_log", "sieve_rejections"} -> 7
      [] t = "rule_events" -> 8 [] t = "rule_outcomes" -> 9
      [] t = "token_ledger" -> 10 [] t = "session_metrics" -> 15
      [] t = "entries" -> 18
SqliteTables == {"knowledge", "sessions", "rules", "relations", "snapshots",
                 "rule_events", "rule_outcomes", "token_ledger",
                 "session_metrics", "entries"}
TablesOf(b) ==
    IF b = "sqlite" THEN SqliteTables
    ELSE SqliteTables \cup {"tokens", "recall_log", "sieve_rejections"}
ColumnsBy(b) == IF b = "sqlite" THEN SqliteColumns ELSE PgColumns
ColumnVersion(x) ==
    CASE x[2] \in {"subject_keys", "provenance"} -> 7
      [] x[2] = "entity_type" -> 13
      [] OTHER -> 1 + CHOOSE n \in DOMAIN Migrations : x \in ColumnsOf(Migrations[n])

NoIndex == [there |-> FALSE, wide |-> FALSE, stemmed |-> FALSE, rows |-> {}]
Wide(t, v) == CASE t = "rules" -> v >= 8 [] t = "entries" -> v >= 19 [] OTHER -> TRUE

\* A database as a program of version v left it; 0 is an empty one.
Found(b, v) ==
    LET there(t) == v > 0 /\ TableVersion(t) <= v
        stored(t) == IF there(t) THEN {CHOOSE r \in Rows : TRUE} ELSE {}
    IN
    [version |-> v,
     tables |-> {t \in TablesOf(b) : there(t)},
     columns |-> {x \in ColumnsBy(b) : there(x[1]) /\ ColumnVersion(x) <= v},
     index |-> [t \in Indexed |->
                   IF there(t)
                   THEN [there |-> TRUE, wide |-> Wide(t, v), stemmed |-> v >= 6,
                         rows |-> stored(t)]
                   ELSE NoIndex],
     triggers |-> [t \in Indexed |->
                      [s \in Triggers |-> IF ~there(t) THEN "none"
                                          ELSE IF Wide(t, v) THEN "wide" ELSE "narrow"]],
     rows |-> [t \in Indexed |-> stored(t)],
     unfilled |-> IF v = 18 THEN stored("entries") ELSE {}]

Down == [at |-> "down", from |-> Unread, next |-> 1, missing |-> FALSE]

Init ==
    /\ \E start \in Starts :
          backend = start[1] /\ db = Found(start[1], start[2])
    /\ work = db /\ owner = NoProc
    /\ proc = [p \in Procs |-> Down]
    /\ crashes = 0 /\ boots = 0 /\ tangled = FALSE

----------------------------------------------------------------------------
Boot(p) ==
    IF backend = "postgres" THEN PgBoot ELSE SqliteBoot[proc[p].from]
Current(p) == Boot(p)[proc[p].next]
Sees(p) == IF owner = p THEN work ELSE db

\* What a statement makes of the database.
Apply(s, d, missing) ==
    LET t == s.table
        create(wide) == [d EXCEPT !.index[t] =
            [there |-> TRUE, wide |-> wide, stemmed |-> TRUE, rows |-> {}]]
        trigger(kind) == [d EXCEPT !.triggers[t][s.name] = kind]
    IN
    CASE s.op = "create table" /\ t \notin d.tables ->
            [d EXCEPT !.tables = @ \cup {t},
                      !.columns = @ \cup {x \in ColumnsBy(backend) : x[1] = t},
                      !.index = IF backend = "postgres" /\ t \in Indexed
                                THEN [@ EXCEPT ![t].there = TRUE, ![t].wide = TRUE]
                                ELSE @]
      [] s.op = "add column" /\ missing -> [d EXCEPT !.columns = @ \cup {<<t, s.name>>}]
      [] s.op = "guarded column" ->
            [d EXCEPT !.columns = @ \cup {<<t, s.name>>},
                      !.index = IF s.name \in {"content", "facets_text"}
                                THEN [@ EXCEPT ![t].wide = TRUE] ELSE @]
      [] s.op = "create fts" -> create(TRUE)
      [] s.op = "create narrow fts" -> create(FALSE)
      [] s.op = "ensure fts" /\ ~d.index[t].there -> create(TRUE)
      [] s.op = "drop fts" -> [d EXCEPT !.index[t] = NoIndex]
      [] s.op = "rebuild" ->
            [d EXCEPT !.index[t].rows = IF t = "entries" THEN d.rows[t] \ d.unfilled
                                        ELSE d.rows[t]]
      [] s.op = "drop trigger" -> trigger("none")
      [] s.op = "create trigger" -> trigger("wide")
      [] s.op = "create narrow trigger" -> trigger("narrow")
      [] s.op = "ensure trigger" /\ d.triggers[t][s.name] = "none" -> trigger("wide")
      [] s.op \in {"insert version", "update version", "stamp"} ->
            [d EXCEPT !.version = CORE_VERSION]
      [] s.op = "fill" ->
            [d EXCEPT !.unfilled = {},
                      !.index[t].rows = IF d.triggers[t]["au"] = "wide"
                                        THEN @ \cup d.unfilled ELSE @]
      [] OTHER -> d

\* A statement that raises.
Raises(s, d, missing) ==
    \/ s.op = "add column" /\ missing /\ <<s.table, s.name>> \in d.columns
    \/ s.op \in {"create fts", "create narrow fts"} /\ d.index[s.table].there
    \/ /\ s.op \in {"create trigger", "create narrow trigger"}
       /\ d.triggers[s.table][s.name] # "none"
    \/ s.op = "rebuild" /\ ~d.index[s.table].there
    \/ s.op = "insert version" /\ d.version # 0
    \/ /\ s.op = "fill" /\ d.unfilled # {} /\ backend = "sqlite"
       /\ d.triggers[s.table]["au"] # "none" /\ ~d.index[s.table].there

New(p) == Apply(Current(p), Sees(p), proc[p].missing)
Writes(p) == \/ New(p) # Sees(p)
             \/ /\ backend = "sqlite"
                /\ Current(p).how = "dml" \/ Current(p).op = "rebuild"
Blocked(p) == Writes(p) /\ owner \notin {p, NoProc}

\* The next statement, which a version just read and a column just found
\* missing decide; after the last one the server serves.
Advance(p) ==
    proc' = [proc EXCEPT ![p] =
        IF Current(p).op # "read version" /\ proc[p].next = Len(Boot(p))
        THEN [Down EXCEPT !.at = "serving"]
        ELSE [proc[p] EXCEPT
                !.next = proc[p].next + 1,
                !.from = IF Current(p).op = "read version" /\ proc[p].from = Unread
                         THEN db.version ELSE proc[p].from,
                !.missing = Current(p).op = "has column"
                    /\ <<Current(p).table, Current(p).name>> \notin Sees(p).columns]]

Start(p) ==
    /\ proc[p].at = "down" /\ boots < MaxBoots
    /\ proc' = [proc EXCEPT ![p].at = "boot"]
    /\ boots' = boots + 1
    /\ UNCHANGED <<backend, db, work, owner, crashes, tangled>>

\* A statement takes the write lock if it writes: within a transaction it
\* writes there, DML opens one, DDL outside of one commits by itself.
Execute(p) ==
    /\ proc[p].at = "boot" /\ Current(p).op # "commit"
    /\ ~Blocked(p) /\ ~Raises(Current(p), Sees(p), proc[p].missing)
    /\ Advance(p)
    /\ IF Writes(p) /\ (owner = p \/ backend = "postgres" \/ Current(p).how = "dml")
       THEN work' = New(p) /\ owner' = p /\ UNCHANGED db
       ELSE /\ db' = IF Writes(p) THEN New(p) ELSE db
            /\ work' = IF Writes(p) THEN New(p) ELSE work
            /\ UNCHANGED owner
    /\ UNCHANGED <<backend, crashes, boots, tangled>>

CommitWork(p) ==
    /\ proc[p].at = "boot" /\ Current(p).op = "commit"
    /\ Advance(p)
    /\ db' = (IF owner = p THEN work ELSE db)
    /\ owner' = (IF owner = p THEN NoProc ELSE owner)
    /\ UNCHANGED <<backend, work, crashes, boots, tangled>>

RollBack(p) ==
    /\ work' = (IF owner = p THEN db ELSE work)
    /\ owner' = (IF owner = p THEN NoProc ELSE owner)

\* Errors of migrate_core end the process, those of ensure_schema do not.
Swallowed(p) ==
    \/ backend = "postgres"
    \/ /\ proc[p].from # Unread
       /\ proc[p].next > Len(CoreScript) + Len(Upgrade(proc[p].from))

Upgrading(p) == proc[p].at = "boot" /\ proc[p].from \in 1..(CORE_VERSION - 1)

\* p dies in an upgrade that another process has begun or finished.
Tangles(p) ==
    tangled' = \/ tangled
               \/ /\ Upgrading(p)
                  /\ \/ db.version = CORE_VERSION
                     \/ \E q \in Procs \ {p} : Upgrading(q)

\* Postgres: CREATE INDEX IF NOT EXISTS leaves a share lock on each table
\* that exists, so two boots of which one waits for the other's changes
\* deadlock as soon as that one changes a table again.
Deadlocked(p) ==
    /\ backend = "postgres" /\ db.version # 0
    /\ \E q \in Procs \ {owner} :
          proc[q].at = "boot" /\ Blocked(q) /\ p \in {q, owner}

\* A statement raises; on SQLite one that waits for the write lock does so
\* after busy_timeout; filling the entries does when a row does not verify.
Fail(p) ==
    /\ proc[p].at = "boot"
    /\ \/ Raises(Current(p), Sees(p), proc[p].missing)
       \/ backend = "sqlite" /\ Blocked(p)
       \/ Deadlocked(p)
       \/ Current(p).op = "fill"
    /\ RollBack(p)
    /\ proc' = [proc EXCEPT ![p] =
                   [Down EXCEPT !.at = IF Swallowed(p) THEN "degraded" ELSE "down"]]
    /\ Tangles(p)
    /\ UNCHANGED <<backend, db, crashes, boots>>

Crash(p) ==
    /\ proc[p].at # "down" /\ crashes < MaxCrashes
    /\ crashes' = crashes + 1
    /\ RollBack(p)
    /\ proc' = [proc EXCEPT ![p] = Down]
    /\ Tangles(p)
    /\ UNCHANGED <<backend, db, boots>>

\* A server stores a row; the insert trigger, if there is one, indexes it.
Store(p, t, r) ==
    LET trigger == db.triggers[t]["ai"]
        index == db.index[t]
    IN
    /\ backend = "sqlite" /\ proc[p].at \in {"serving", "degraded"} /\ owner = NoProc
    /\ r \notin db.rows[t]
    /\ trigger # "none" => index.there /\ (trigger = "wide" => index.wide)
    /\ db' = [db EXCEPT !.rows[t] = @ \cup {r},
                        !.index[t].rows =
                            IF index.there /\ trigger = (IF index.wide THEN "wide"
                                                         ELSE "narrow")
                            THEN @ \cup {r} ELSE @]
    /\ work' = db'
    /\ UNCHANGED <<backend, owner, proc, crashes, boots, tangled>>

Next ==
    \E p \in Procs :
        \/ Start(p) \/ Execute(p) \/ CommitWork(p) \/ Fail(p) \/ Crash(p)
        \/ \E t \in Indexed, r \in Rows : Store(p, t, r)

Spec == Init /\ [][Next]_vars

----------------------------------------------------------------------------
(* Properties.                                                             *)

TypeOK ==
    /\ backend \in {"sqlite", "postgres"}
    /\ owner \in Procs \cup {NoProc}
    /\ \A d \in {db, work} :
          /\ d.version \in 0..CORE_VERSION
          /\ d.tables \subseteq TablesOf(backend)
          /\ d.columns \subseteq ColumnsBy(backend)
          /\ \A t \in Indexed : d.index[t].rows \subseteq d.rows[t]
          /\ d.rows \in [Indexed -> SUBSET Rows]
    /\ \A p \in Procs :
          /\ proc[p].at \in {"down", "boot", "serving", "degraded"}
          /\ proc[p].at = "boot" => proc[p].next \in 1..Len(Boot(p))
    /\ crashes \in 0..MaxCrashes /\ boots \in 0..MaxBoots

\* Every table and column of the latest version; on SQLite every index and
\* trigger of the latest shape, and every row in its index.
Complete ==
    /\ db.tables = TablesOf(backend) /\ db.columns = ColumnsBy(backend)
    /\ \A t \in Indexed : db.index[t].there /\ db.index[t].wide
    /\ backend = "sqlite" => \A t \in Indexed :
          /\ db.index[t].stemmed
          /\ \A s \in Triggers : db.triggers[t][s] = "wide"
          /\ db.index[t].rows = IF t = "entries" THEN db.rows[t] \ db.unfilled
                                ELSE db.rows[t]

\* A database stamped with the latest version, and on which no upgrade is
\* under way, has the latest schema and every row in its index, at whatever
\* statement earlier upgrades of it died: a stamp is never followed by an
\* upgrade that would repair it.  Except if one of two concurrent upgrades
\* was killed.
StampIsTrue ==
    db.version = CORE_VERSION /\ (\A p \in Procs : proc[p].at # "boot") /\ ~tangled
        => Complete

\* Boots beside a serving server, of the same version or of a killed one
\* again, never take a stored row out of an index: only an upgrade that is
\* under way empties one, to rebuild it.
RestartsDisturbNothing ==
    [][(\A p \in Procs : ~Upgrading(p)) =>
          \A t \in Indexed : db.index[t].rows \subseteq db'.index[t].rows]_vars
=============================================================================
