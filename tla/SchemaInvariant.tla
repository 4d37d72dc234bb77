--------------------------- MODULE SchemaInvariant ---------------------------
(***************************************************************************)
(* What SchemaUpgradeProofs proves invariant.                              *)
(*                                                                         *)
(* The first half is about lists of statements alone.  A statement spoils  *)
(* some aspects of an index (a trigger, its shape, its rows) and repairs   *)
(* others; Opens is what a prefix of a list has spoiled and not repaired,  *)
(* with the transaction a DML statement opens as one more aspect.  Every   *)
(* boot list Runs from nothing open to nothing open, keeping to three      *)
(* rules: Careful, Apart and Dropping.                                     *)
(*                                                                         *)
(* The second half is about states.  IInv(v) is the invariant of a run     *)
(* that found a database of version v: whatever is wrong with an index is  *)
(* open in a boot that is under way, or will be made anew by an upgrade    *)
(* that has not dropped it yet.                                            *)
(***************************************************************************)
EXTENDS SchemaUpgrade

----------------------------------------------------------------------------
(* What a list of statements spoils and repairs.                           *)

Ops == {"create table", "has column", "add column", "guarded column", "read version",
        "drop trigger", "drop fts", "create fts", "create narrow fts", "ensure fts",
        "rebuild", "create trigger", "create narrow trigger", "ensure trigger",
        "insert version", "update version", "stamp", "fill", "commit"}

Hows == {"ddl", "dml", "script"}
Tables == SqliteTables \cup {"tokens", "recall_log", "sieve_rejections", ""}

SqliteNames == {"last_hit_at", "reinforcement_count", "pinned", "content_hash",
    "archived", "archived_at", "content", "created_by", "updated_by", "correct_count",
    "incorrect_count", "valid_until", "superseded_by", "status", "importance", "scope",
    "kind", "refs_json", "source_classification", "principal", "workspace",
    "facets_text"}

Names == SqliteNames \cup {"subject_keys", "provenance", "entity_type", ""} \cup Triggers
Statements == [op : Ops, how : Hows, table : Tables, name : Names]

\* What can be wrong with the full-text index of a table: one of its triggers,
\* its columns and stemmer, its rows.  And a transaction can be open.
Trig(t, x) == <<"trigger", t, x>>
Shape(t) == <<"index", t, "">>
RowsIn(t) == <<"rows", t, "">>
Tx == <<"transaction", "", "">>

Aspects == {Trig(t, x) : t \in Indexed, x \in Triggers} \cup {Shape(t) : t \in Indexed}
               \cup {RowsIn(t) : t \in Indexed} \cup {Tx}

\* A statement leaves an aspect wrong, or makes it right.
Spoils(s) ==
    CASE s.op \in {"drop trigger", "create narrow trigger"} ->
            {Trig(s.table, s.name), RowsIn(s.table)}
      [] s.op \in {"drop fts", "create narrow fts"} -> {Shape(s.table), RowsIn(s.table)}
      [] s.op = "create fts" -> {RowsIn(s.table)}
      [] OTHER -> IF s.how = "dml" THEN {Tx} ELSE {}

Repairs(s) ==
    CASE s.op = "create trigger" \/ (s.op = "ensure trigger" /\ s.table = "entries") ->
            {Trig(s.table, s.name)}
      [] s.op = "create fts" \/ (s.op = "ensure fts" /\ s.table = "entries") ->
            {Shape(s.table)}
      [] s.op = "rebuild" -> {RowsIn(s.table)}
      [] s.op = "commit" -> IF s.how = "dml" THEN {} ELSE {Tx}
      [] OTHER -> {}

\* The aspects wrong after k statements of L, if those of O were at first.
Spoilt(L, k, a) == \E i \in 1..k :
    a \in Spoils(L[i]) /\ \A j \in (i + 1)..k : a \notin Repairs(L[j])

Unrepaired(L, k, a) == \A j \in 1..k : a \notin Repairs(L[j])
Opens(L, k, O) == {a \in Aspects : Spoilt(L, k, a) \/ (a \in O /\ Unrepaired(L, k, a))}

\* The rows of an index are rebuilt last, or in the transaction that ends it.
Careful(O) == \A t \in Indexed :
    (Shape(t) \in O \/ \E x \in Triggers : Trig(t, x) \in O) => RowsIn(t) \in O \/ Tx \in O

\* No transaction looks at what is there, or changes the entries but to fill them.
Apart(s, O) == Tx \in O =>
    s.op \notin {"ensure fts", "ensure trigger", "fill"} /\ s.table # "entries"

\* An index is dropped after its triggers.
Dropping(s, O) == s.op = "drop fts" =>
    RowsIn(s.table) \in O /\ \A x \in Triggers : Trig(s.table, x) \in O

Fits(s, O) == Apart(s, O) /\ Dropping(s, O)

\* L keeps to these rules and leads from O to P.
Runs(L, O, P) ==
    /\ L \in Seq(Statements) /\ O \subseteq Aspects
    /\ \A k \in 0..Len(L) : Careful(Opens(L, k, O))
    /\ \A k \in 1..Len(L) : Fits(L[k], Opens(L, k - 1, O))
    /\ Opens(L, Len(L), O) = P

----------------------------------------------------------------------------
(* Lists that keep to the rules.                                           *)

\* What is wrong after a statement.
After(s, O) == (O \cup (Spoils(s) \cap Aspects)) \ Repairs(s)

\* A list that does nothing to an index that has something wrong.
Plain(L, O) == \A k \in 1..Len(L) :
    Spoils(L[k]) = {} /\ Repairs(L[k]) \cap O = {} /\ L[k].op # "drop fts"

----------------------------------------------------------------------------
(* What the statements of an upgrade spoil and repair.                     *)

Idx(t) == {Trig(t, x) : x \in Triggers} \cup {Shape(t), RowsIn(t)}

Calm(s) == \/ s.op = "create table" \/ s.op = "has column" \/ s.op = "add column"
           \/ s.op = "read version" \/ s.op = "guarded column"

Stamps(s) == \/ s.op = "insert version" \/ s.op = "update version" \/ s.op = "stamp"
             \/ s.op = "fill"

----------------------------------------------------------------------------
(* The statements of a migration.                                          *)

\* An upgrade from v makes the index of t anew.
Touched(t, v) == v > 0 /\ ((t = "knowledge" /\ v <= 5) \/ (t = "rules" /\ v <= 7)
                           \/ (t = "entries" /\ v <= 18))

OnTriggers(s) == \/ s.op = "drop trigger" \/ s.op = "create trigger"
                 \/ s.op = "create narrow trigger" \/ s.op = "ensure trigger"

Makes(s) == \/ s.op = "create fts" \/ s.op = "create narrow fts"
            \/ s.op = "create trigger" \/ s.op = "create narrow trigger"

Drops(s) == s.op = "drop trigger" \/ s.op = "drop fts"
Ensures(s) == s.op = "ensure fts" \/ s.op = "ensure trigger"
Columns(s) == s.op = "has column" \/ s.op = "add column"

\* What may stand in migrations of version v and later ones.
Legal(s, v) ==
    /\ \/ Columns(s) \/ Ensures(s) \/ Drops(s) \/ Makes(s)
       \/ s.op = "create table" \/ s.op = "rebuild" \/ s.op = "commit"
       \/ s.op = "read version"
    /\ Columns(s) => s.table \in SqliteTables /\ s.name \in SqliteNames
    /\ s.op = "create table" => s.table \in SqliteTables
    /\ Ensures(s) \/ Drops(s) \/ Makes(s) \/ s.op = "rebuild" => s.table \in Indexed
    /\ OnTriggers(s) => s.name \in Triggers
    /\ Makes(s) => s.table # "entries"
    /\ Drops(s) \/ Makes(s) \/ s.op = "rebuild" => Touched(s.table, v)
    /\ s.how = "dml" => s.op = "rebuild" /\ s.table # "entries"

\* A column is added where it was just found missing.
Paired(L) == \A k \in 1..Len(L) : L[k].op = "add column" =>
    /\ k > 1 /\ L[k - 1].op = "has column"
    /\ L[k - 1].table = L[k].table /\ L[k - 1].name = L[k].name

Steps(L, v) == L \in Seq(Statements) /\ Paired(L) /\ \A k \in 1..Len(L) : Legal(L[k], v)

----------------------------------------------------------------------------
(* The migrations.                                                         *)

\* A column looked for and added.
Pair(a, b) == a.op = "has column" /\ a.table = b.table /\ a.name = b.name

----------------------------------------------------------------------------
(* The whole of a boot.                                                    *)

Elems(L) == {L[i] : i \in 1..Len(L)}

\* The migrations by number, and those that make no index anew.
Remakes == {5, 7, 18}

\* What comes between reading the version and stamping the latest one.
Migrated(f) == IF f = 0 THEN <<>> ELSE DueUpTo8(f) \o DueAfter8(f)

StampOf(f) == IF f = 0 THEN Statement("insert version", "dml", "", "")
              ELSE Statement("update version", "dml", "", "")

Fill == Statement("fill", "dml", "entries", "")
End == Statement("commit", "ddl", "", "")

\* What follows the upgrade: the adapter runs all of it again.
Rerun == CoreScript \o <<Fill>> \o Commit

\* The statements up to the stamp.
Before(f) == CoreScript \o Migrated(f)

----------------------------------------------------------------------------
(* Where the statements of a boot stand.                                   *)

Past(f) == Len(CoreScript) + Len(Upgrade(f))

\* The script that every boot runs makes no index anew and adds no column.
Core(s) == Ensures(s) \/ s.op = "create table" \/ s.op = "read version"

----------------------------------------------------------------------------
(* The Postgres list.                                                      *)

PgTables == SqliteTables \cup {"tokens", "recall_log", "sieve_rejections"}

PgNames == {"principal", "content", "correct_count", "importance", "refs_json",
            "source_classification", "status", "valid_until", "subject_keys", "provenance",
            "entity_type", "facets_text"}

PgLegal(s) ==
    /\ s.how = "ddl"
    /\ \/ s.op = "create table" /\ s.table \in PgTables
       \/ /\ s.op = "guarded column" /\ s.table \in PgTables /\ s.name \in PgNames
          /\ s.name = "content" => s.table = "rules"
          /\ s.name = "facets_text" => s.table = "entries"

PgSteps(L) == L \in Seq(Statements) /\ \A s \in Elems(L) : PgLegal(s)
Creates(t) == Statement("create table", "ddl", t, "")
Guards(t, c) == Statement("guarded column", "ddl", t, c)

\* List A, which a migration n may hold, adds a column.
Adds(A, t, c, n) == Steps(A, n) /\ Statement("add column", "ddl", t, c) \in Elems(A)
Stamp == Statement("stamp", "dml", "", "")

GuardedName(s) == s.op = "guarded column" /\
    (<<s.table, s.name>> \in SqliteColumns
     \/ s.name \in {"subject_keys", "provenance", "entity_type"})

----------------------------------------------------------------------------
(* The databases.                                                          *)

Shapes == [there : BOOLEAN, wide : BOOLEAN, stemmed : BOOLEAN, rows : SUBSET Rows]
Kinds == {"none", "narrow", "wide"}

Databases(b) ==
    [version : 0..19, tables : SUBSET TablesOf(b), columns : SUBSET ColumnsBy(b),
     index : [Indexed -> Shapes], triggers : [Indexed -> [Triggers -> Kinds]],
     rows : [Indexed -> SUBSET Rows], unfilled : SUBSET Rows]

\* An index has rows of its table, and none if there is no index.
Sound(b, d) ==
    /\ d \in Databases(b)
    /\ \A t \in Indexed : d.index[t].rows \subseteq d.rows[t]
    /\ d.unfilled \subseteq d.rows["entries"]
    /\ b = "sqlite" => \A t \in Indexed : d.index[t].there \/ d.index[t].rows = {}

\* A statement that may stand in a boot of a backend.
Proper(b, s) ==
    /\ s \in Statements
    /\ s.op = "create table" => s.table \in TablesOf(b)
    /\ s.op = "add column" \/ s.op = "guarded column" => <<s.table, s.name>> \in ColumnsBy(b)
    /\ s.op = "guarded column" /\ s.name \in {"content", "facets_text"} => s.table \in Indexed
    /\ Ensures(s) \/ Drops(s) \/ Makes(s) \/ s.op = "rebuild" => s.table \in Indexed
    /\ OnTriggers(s) => s.name \in Triggers
    /\ s.op = "fill" => s.table = "entries"
    /\ b = "sqlite" => s.op # "guarded column"
    /\ b = "postgres" => \/ s.op = "create table" \/ s.op = "guarded column"
                         \/ s.op = "stamp" \/ s.op = "fill" \/ s.op = "commit"

----------------------------------------------------------------------------
(* What each kind of statement makes of a database.                        *)

\* New tables and columns, and an index of a table that has them.
With(d, tables, columns, index) ==
    [d EXCEPT !.tables = tables, !.columns = columns, !.index = index]

Indexing(f, t) == [f EXCEPT ![t].there = TRUE, ![t].wide = TRUE]
Widening(f, t) == [f EXCEPT ![t].wide = TRUE]

TableIndex(d, t) ==
    IF backend = "postgres" /\ t \in Indexed THEN Indexing(d.index, t) ELSE d.index

GuardedIndex(d, s) ==
    IF s.name \in {"content", "facets_text"} THEN Widening(d.index, s.table) ELSE d.index

ColumnsIn(t) == {x \in ColumnsBy(backend) : x[1] = t}

Made(d, t, wide) ==
    [d EXCEPT !.index[t] = [there |-> TRUE, wide |-> wide, stemmed |-> TRUE, rows |-> {}]]

Hung(d, t, x, kind) == [d EXCEPT !.triggers[t][x] = kind]
Versions(s) == s.op = "insert version" \/ s.op = "update version" \/ s.op = "stamp"

----------------------------------------------------------------------------
(* Where the processes are.                                                *)

Places == [at : {"down", "boot", "serving", "degraded"}, from : {Unread} \cup 0..19,
           next : Nat, missing : BOOLEAN]

Placed(v) ==
    /\ proc \in [Procs -> Places]
    /\ \A p \in Procs :
          /\ proc[p].from \in {Unread, v, 19}
          /\ backend = "postgres" => proc[p].from = Unread
          /\ proc[p].at = "boot" => proc[p].next \in 1..Len(Boot(p))
          /\ proc[p].at # "boot" => proc[p].from = Unread /\ proc[p].next = 1

\* What holds of a database that was found at version v.
TypeInv(v) ==
    /\ v \in 0..19 /\ backend \in {"sqlite", "postgres"}
    /\ Sound(backend, db) /\ Sound(backend, work)
    /\ db.version \in {v, 19} /\ work.version \in {v, 19}
    /\ owner \in Procs \cup {NoProc}
    /\ owner = NoProc => work = db
    /\ owner # NoProc => /\ proc[owner].at = "boot"
                         /\ backend = "sqlite" => proc[owner].from # Unread
    /\ Placed(v)
    /\ crashes \in 0..MaxCrashes /\ boots \in 0..MaxBoots

BootFrom(f) == IF backend = "postgres" THEN PgBoot ELSE SqliteBoot[f]

\* The place after the next statement.
Served == [Down EXCEPT !.at = "serving"]

NextPlace(p) ==
    [proc[p] EXCEPT !.next = proc[p].next + 1,
        !.from = IF Current(p).op = "read version" /\ proc[p].from = Unread
                 THEN db.version ELSE proc[p].from,
        !.missing = Current(p).op = "has column"
            /\ <<Current(p).table, Current(p).name>> \notin Sees(p).columns]

Ends(p) == Current(p).op # "read version" /\ proc[p].next = Len(Boot(p))
Goes(r, n, f, m) == [r EXCEPT !.next = n, !.from = f, !.missing = m]

----------------------------------------------------------------------------
(* The fields that a statement changes.                                    *)

SameBut(d, e, field) ==
    /\ field # "version" => e.version = d.version
    /\ field # "tables" => e.tables = d.tables /\ e.columns = d.columns
    /\ field # "index" => e.index = d.index
    /\ field # "triggers" => e.triggers = d.triggers
    /\ e.rows = d.rows

NoneOf(d, t) == [d EXCEPT !.index[t] = NoIndex]
Stamped(d) == [d EXCEPT !.version = CORE_VERSION]
RowsOf(d, t, S) == [d EXCEPT !.index[t].rows = S]
Filled(d, t, S) == [d EXCEPT !.unfilled = {}, !.index[t].rows = S]

\* No statement takes a table or a column away, or a stamp; only Postgres
\* says that an index is there or wide where it says so of a table.
Grows(d, e) ==
    /\ d.tables \subseteq e.tables /\ d.columns \subseteq e.columns
    /\ d.version = 19 => e.version = 19
    /\ backend = "postgres" => \A t \in Indexed :
          /\ d.index[t].there => e.index[t].there
          /\ d.index[t].wide => e.index[t].wide

Keeps(s, d, e) ==
    /\ e.rows = d.rows
    /\ Versions(s) => e.version = 19
    /\ ~Versions(s) => e.version = d.version
    /\ s.op = "fill" => e.unfilled = {}
    /\ s.op # "fill" => e.unfilled = d.unfilled
    /\ s.op # "create table" => e.tables = d.tables

----------------------------------------------------------------------------
(* The database that is found.                                             *)

There(t, v) == v > 0 /\ TableVersion(t) <= v
Stored(t, v) == IF There(t, v) THEN {CHOOSE r \in Rows : TRUE} ELSE {}

FoundIndex(t, v) ==
    IF There(t, v) THEN [there |-> TRUE, wide |-> Wide(t, v), stemmed |-> v >= 6,
                         rows |-> Stored(t, v)]
    ELSE NoIndex

FoundTrigger(t, v) == IF ~There(t, v) THEN "none" ELSE IF Wide(t, v) THEN "wide" ELSE "narrow"

----------------------------------------------------------------------------
(* Type correctness.                                                       *)

\* A stored row, and the insert trigger.
StoredIn(d, t, r, S) == [d EXCEPT !.rows[t] = d.rows[t] \cup {r}, !.index[t].rows = S]

\* The rows of the index of t with r, as far as the trigger knows it.
NewRows(d, t, r) ==
    IF d.index[t].there
         /\ d.triggers[t]["ai"] = (IF d.index[t].wide THEN "wide" ELSE "narrow")
    THEN d.index[t].rows \cup {r} ELSE d.index[t].rows

Typed == \E v \in 0..19 : TypeInv(v)

----------------------------------------------------------------------------
(* Boots that upgrade nothing take no row out of an index.                 *)

Gentle(s) == \/ s.op = "create table" \/ s.op = "guarded column" \/ Ensures(s)
             \/ Versions(s) \/ s.op = "fill" \/ s.op = "read version" \/ s.op = "commit"

RowsGrow(d, e) == \A t \in Indexed : d.index[t].rows \subseteq e.index[t].rows

\* A transaction of a boot that upgrades nothing has every row of an index.
Grown == owner # NoProc /\ ~Upgrading(owner) => RowsGrow(db, work)

----------------------------------------------------------------------------
(* What a step is.                                                         *)

\* A statement that writes sees what a transaction would: nobody else is in one.
ExecutesInside(p) ==
    /\ Writes(p) /\ (owner = p \/ owner = NoProc) /\ Sees(p) = work
    /\ owner = p \/ backend = "postgres" \/ Current(p).how = "dml"
    /\ work' = New(p) /\ db' = db /\ owner' = p
    /\ backend = "postgres" \/ proc[p].from # Unread

ExecutesAlone(p) ==
    /\ Writes(p) /\ owner = NoProc /\ Sees(p) = work /\ work = db
    /\ backend = "sqlite" /\ Current(p).how # "dml"
    /\ work' = New(p) /\ db' = New(p) /\ owner' = NoProc

Reads(p) ==
    /\ ~Writes(p) /\ New(p) = Sees(p)
    /\ backend = "sqlite" => Current(p).how # "dml" /\ Current(p).op # "rebuild"
    /\ work' = work /\ db' = db /\ owner' = owner

Executes(p) ==
    /\ proc[p].at = "boot" /\ Current(p).op # "commit" /\ backend' = backend
    /\ ~Raises(Current(p), Sees(p), proc[p].missing)
    /\ proc'[p] = NextPlace(p) /\ ~Ends(p) /\ (\A q \in Procs \ {p} : proc'[q] = proc[q])
    /\ tangled' = tangled
    /\ ExecutesInside(p) \/ ExecutesAlone(p) \/ Reads(p)

Commits(p) ==
    /\ proc[p].at = "boot" /\ Current(p).op = "commit" /\ backend' = backend
    /\ proc'[p] = (IF Ends(p) THEN Served ELSE NextPlace(p))
    /\ (\A q \in Procs \ {p} : proc'[q] = proc[q]) /\ tangled' = tangled
    /\ work' = work
    /\ \/ owner = p /\ db' = work /\ owner' = NoProc
       \/ owner # p /\ db' = db /\ owner' = owner

Leaves(p) ==
    /\ backend' = backend /\ db' = db /\ proc'[p].from = Unread
    /\ \/ proc'[p].at = "down"
       \/ /\ proc'[p].at = "degraded" /\ proc[p].at = "boot"
          /\ backend = "sqlite" =>
                proc[p].from # Unread /\ proc[p].next > Past(proc[p].from)
    /\ (\A q \in Procs \ {p} : proc'[q] = proc[q])
    /\ \/ owner = p /\ work' = db /\ owner' = NoProc
       \/ owner # p /\ work' = work /\ owner' = owner
    /\ Tangles(p)

Begins(p) ==
    /\ proc[p].at = "down" /\ backend' = backend /\ db' = db /\ work' = work
    /\ owner' = owner /\ tangled' = tangled
    /\ proc'[p].at = "boot" /\ proc'[p].from = Unread /\ proc'[p].next = 1
    /\ \A q \in Procs \ {p} : proc'[q] = proc[q]

Stores(p) ==
    /\ backend = "sqlite" /\ backend' = backend /\ owner = NoProc /\ owner' = NoProc
    /\ proc[p].at = "serving" \/ proc[p].at = "degraded"
    /\ proc' = proc /\ work = db /\ work' = db' /\ tangled' = tangled
    /\ \E t \in Indexed, r \in Rows :
          /\ db' = StoredIn(db, t, r, NewRows(db, t, r)) /\ r \notin db.rows[t]
          /\ NewRows(db, t, r) = db.index[t].rows
             \/ (db.index[t].there /\ NewRows(db, t, r) = db.index[t].rows \cup {r})

Stutters ==
    /\ backend' = backend /\ db' = db /\ work' = work /\ owner' = owner /\ proc' = proc
    /\ tangled' = tangled

Moves(p) == Executes(p) \/ Commits(p) \/ Leaves(p) \/ Begins(p) \/ Stores(p)

----------------------------------------------------------------------------
(* What a boot has run.                                                    *)

Ran(p) == IF proc[p].at = "boot" THEN {Boot(p)[i] : i \in 1..(proc[p].next - 1)} ELSE {}
Advances(p) == proc[p].at = "boot" /\ ~Ends(p) /\ proc'[p] = NextPlace(p) /\ backend' = backend

----------------------------------------------------------------------------
(* Every statement that has run has left what it makes.                    *)

Left(d, s) ==
    /\ s.op = "create table" => s.table \in d.tables
    /\ s.op = "add column" \/ s.op = "guarded column" => <<s.table, s.name>> \in d.columns
    /\ s.op = "guarded column" /\ s.name \in {"content", "facets_text"} => d.index[s.table].wide

\* A column that is not added is there.
Known(s, d, m) == s.op = "add column" /\ ~m => <<s.table, s.name>> \in d.columns

Looked(p) ==
    proc[p].at = "boot" /\ proc[p].next > 1 /\ Boot(p)[proc[p].next - 1].op = "has column"
          /\ ~proc[p].missing =>
       <<Boot(p)[proc[p].next - 1].table, Boot(p)[proc[p].next - 1].name>> \in Sees(p).columns

Done ==
    /\ Grows(db, work)
    /\ \A p \in Procs : \A s \in Ran(p) : Left(Sees(p), s)
    /\ \A p \in Procs : Looked(p)

----------------------------------------------------------------------------
(* Tables and columns.                                                     *)

\* A table has every column that no migration is still going to add.
Schema(v, d) ==
    /\ backend = "sqlite" => \A x \in SqliteColumns :
          x \in d.columns \/ x[1] \notin d.tables
             \/ (v > 0 /\ \E n \in 1..18 : n >= v /\ x \in ColumnsOf(Migrations[n]))
    /\ backend = "postgres" => \A t \in Indexed : t \in d.tables =>
          d.index[t].there /\ (t = "knowledge" => d.index[t].wide)

\* A database with the last stamp has every table and column.
Full(d) ==
    /\ d.tables = TablesOf(backend) /\ d.columns = ColumnsBy(backend)
    /\ backend = "postgres" => \A t \in Indexed : d.index[t].there /\ d.index[t].wide

Whole(d) == d.version = 19 => Full(d)
Tabled(v) == \A d \in {db, work} : Schema(v, d) /\ Whole(d)

----------------------------------------------------------------------------
(* When a boot is past the stamp.                                          *)

VersionedAt(p) ==
    /\ proc[p].at = "boot" /\ proc[p].from # Unread /\ proc[p].next > Past(proc[p].from)
          => db.version = 19
    /\ proc[p].at = "boot" /\ proc[p].from \in 0..18 /\ proc[p].next = Past(proc[p].from)
          => owner = p /\ work.version = 19
    /\ proc[p].at = "serving" \/ proc[p].at = "degraded" => db.version = 19
    /\ proc[p].from = 19 => db.version = 19

\* A server serves, and the adapter repeats the boot, on a stamped database.
Versioned == backend = "sqlite" => \A p \in Procs : VersionedAt(p)

----------------------------------------------------------------------------
(* What is open: spoiled by a boot and not repaired.                       *)

Opened(p) ==
    IF backend = "sqlite" /\ proc[p].at = "boot" THEN Opens(Boot(p), proc[p].next - 1, {})
    ELSE {}

\* The statements of a boot.
Kindly(s, f) ==
    /\ s.how = "dml" => Spoils(s) = {Tx} /\ ~Ensures(s) /\ ~Drops(s) /\ ~Makes(s)
    /\ s.op = "commit" => s.how # "dml"
    /\ Drops(s) \/ Makes(s) \/ s.op = "rebuild" => f \in 1..18 /\ Touched(s.table, f)
    /\ Makes(s) => s.table # "entries"
    /\ OnTriggers(s) => s.name \in Triggers

\* A process is in a transaction where its list has one.
Held == backend = "sqlite" => \A p \in Procs : Tx \in Opened(p) <=> owner = p

----------------------------------------------------------------------------
(* What is right about an index, and what statements do to it.             *)

Filed(d, t) == IF t = "entries" THEN d.rows[t] \ d.unfilled ELSE d.rows[t]
Has(d, t) == d.index[t].there
Finished(i) == i.there /\ i.wide /\ i.stemmed
Alike(i, j) == (i.there <=> j.there) /\ (i.wide <=> j.wide) /\ (i.stemmed <=> j.stemmed)

Right(d, a) ==
    /\ \A t \in Indexed, x \in Triggers : a = Trig(t, x) => d.triggers[t][x] = "wide"
    /\ \A t \in Indexed : a = Shape(t) => Finished(d.index[t])
    /\ \A t \in Indexed : a = RowsIn(t) => d.index[t].rows = Filed(d, t)

Missing(d, a) ==
    \/ \E t \in Indexed, x \in Triggers : a = Trig(t, x) /\ d.triggers[t][x] = "none"
    \/ \E t \in Indexed : a = Shape(t) /\ ~Has(d, t)

Sane(d, a) == Right(d, a) \/ Missing(d, a)

OnIndex(s) ==
    \/ s.op = "create fts" \/ s.op = "create narrow fts" \/ s.op = "ensure fts"
    \/ s.op = "drop fts" \/ s.op = "rebuild" \/ s.op = "fill"

IndexAfter(s, d, e) ==
    /\ e.rows = d.rows
    /\ \A t \in Indexed : t # s.table \/ ~OnIndex(s) => e.index[t] = d.index[t]
    /\ s.op = "create fts" => Finished(e.index[s.table])
    /\ s.op = "ensure fts" /\ Has(d, s.table) => e.index[s.table] = d.index[s.table]
    /\ s.op = "ensure fts" /\ ~Has(d, s.table) =>
          Finished(e.index[s.table]) /\ e.index[s.table].rows = {}
    /\ s.op = "drop fts" => ~Has(e, s.table)
    /\ s.op = "rebuild" => Alike(e.index[s.table], d.index[s.table])
          /\ e.index[s.table].rows = Filed(d, s.table)
    /\ s.op = "fill" => s.table = "entries" /\ Alike(e.index[s.table], d.index[s.table])
          /\ e.unfilled = {}
          /\ (d.triggers["entries"]["au"] = "wide" =>
                 e.index["entries"].rows = d.index["entries"].rows \cup d.unfilled)
    /\ s.op # "fill" => e.unfilled = d.unfilled

TriggersAfter(s, d, e) ==
    /\ \A t \in Indexed, x \in Triggers :
          t # s.table \/ x # s.name \/ ~OnTriggers(s) => e.triggers[t][x] = d.triggers[t][x]
    /\ s.op = "drop trigger" => e.triggers[s.table][s.name] = "none"
    /\ s.op = "create trigger" => e.triggers[s.table][s.name] = "wide"
    /\ s.op = "ensure trigger" =>
          \/ d.triggers[s.table][s.name] = "none" /\ e.triggers[s.table][s.name] = "wide"
          \/ d.triggers[s.table][s.name] # "none"
             /\ e.triggers[s.table][s.name] = d.triggers[s.table][s.name]

\* CREATE ... IF NOT EXISTS.
Assures(s, a) == \/ s.op = "ensure fts" /\ a = Shape(s.table)
                 \/ s.op = "ensure trigger" /\ a = Trig(s.table, s.name)

----------------------------------------------------------------------------
(* A database that was found empty has nothing made with an old list.      *)

Solid(d) ==
    /\ d.version # 19 => \A t \in Indexed : d.rows[t] = {}
    /\ \A t \in Indexed : \A a \in Idx(t) : Right(d, a) \/ (Missing(d, a) /\ d.version # 19)

Firm(d, e) == \A t \in Indexed : \A a \in Idx(t) : a # RowsIn(t) /\ Right(d, a) => Right(e, a)
Assured(R, d) == \A s \in R : \A a \in Aspects : Assures(s, a) => Right(d, a)

Bare(v) ==
    backend = "sqlite" /\ v = 0 =>
        /\ Solid(db) /\ Solid(work) /\ Firm(db, work)
        /\ \A p \in Procs : Assured(Ran(p), Sees(p))

----------------------------------------------------------------------------
(* The entries: what CREATE ... IF NOT EXISTS finds of their index.        *)

Agrees(d, e) == \A a \in Idx("entries") : a # RowsIn("entries") =>
    (Right(d, a) <=> Right(e, a)) /\ (Missing(d, a) <=> Missing(e, a))

\* No transaction changes the index of the entries but to fill it.
Agree == backend = "sqlite" => Agrees(db, work)
Unspoiled(a) == \A p \in Procs : \A s \in Ran(p) : a \notin Spoils(s)

\* A trigger of the entries, or their index, is missing or right, if not old.
EntriesOk(v) == backend = "sqlite" /\ v \in 1..18 =>
    \A a \in Idx("entries") : a # RowsIn("entries") =>
        Sane(work, a) \/ (work.version # 19 /\ Unspoiled(a))

----------------------------------------------------------------------------
(* Indexes are right, or open, or an upgrade will make them anew.          *)

OpenNow == UNION {Opened(p) : p \in Procs}

\* The tables whose index a boot has dropped.
Begun == {t \in Indexed : \E p \in Procs : \E s \in Ran(p) : s.op = "drop fts" /\ s.table = t}

Kept(d, t, v, O, B) == \A a \in Idx(t) :
    Right(d, a) \/ a \in O \/ (Touched(t, v) /\ d.version # 19 /\ t \notin B)

\* The transaction of an upgrade that makes the index of t anew.
Remaking(t, v) == Touched(t, v) /\ \E q \in Procs : owner = q /\ Upgrading(q)

KeptInv(v) == backend = "sqlite" /\ v > 0 /\ ~tangled =>
    \A t \in Indexed : /\ Kept(work, t, v, OpenNow, Begun)
                       /\ ~Remaking(t, v) => Kept(db, t, v, OpenNow, Begun)

----------------------------------------------------------------------------
(* The stamp is true.                                                      *)

IInv(v) ==
    /\ TypeInv(v) /\ Done /\ Tabled(v)
    /\ Versioned /\ Held
    /\ Bare(v) /\ Agree /\ EntriesOk(v) /\ KeptInv(v)
============================================================================
