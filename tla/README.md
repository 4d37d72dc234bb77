# mcm-engine in TLA+

mcm-engine is a shared store of knowledge, rules and session state for coding
agents, served over MCP.  The interesting part is not the SQL but what happens
between two statements: several threads of a server share one SQLite
connection, several servers or pods share one database, two tables are kept
alike by every write, schemas are upgraded statement by statement on databases
of any age, rule files come and go on disk while they are being indexed, hook
processes share a state file without a lock, searches run beside the writes that
retire what they have found, ingests are interrupted and repeated, and a session
is nudged, then blocked, by counters that every tool call moves.  This directory
models those parts, checks them with TLC on small instances and proves the main
results with TLAPS for every value of the constants.

Paths below are relative to `src/src/mcm_engine/` unless they begin with
`docs/` or `tests/`.

## 1. The system and its parts

| Component | State | Operations | Hard because of |
|---|---|---|---|
| Connection wrapper, `db.py` | one sqlite3 connection, `_lock` (re-entrant), `_tx_depth` | `execute_write`, `commit`, `execute`, `begin/end_transaction`, `transaction()`, `_reconnect` | threads sharing a connection, processes sharing a file, reconnects, nested blocks, crashes |
| SQLite storage, `adapters/sqlite/storage.py` | the legacy tables, `entries`, relations, sessions, snapshots, usage | one method per row operation; mirrored ones in `transaction()` | which calls are in a block and which are not |
| SQLite counters, `adapters/sqlite/counters.py` | hit and outcome columns | `increment`, `set`, `get` | two statements and a commit outside a block |
| Postgres storage, counters and pool, `adapters/postgres/` | the same tables, a pool of connections | one transaction per mutation, its mirror included | READ COMMITTED, row locks, deadlocks, DDL locks at every boot |
| Unified entries, `entries.py` | table `entries`, a copy of four legacy tables | backfill and reconcile at boot, mirror after each mutation | mirrors racing mutations, missed mirrors |
| Schema, `schema.py`, `ensure_schema` | tables, columns, full-text indexes, triggers, a version stamp | the creation script and 18 migrations on every start | killed or refused half way, two upgrades at once, starts beside a serving process |
| Rule tools, `tools/rules.py`, `destructive.py` | rows of `rules`, the audit trail, the rule files | add, import, update, restore, sync, supersede, unsupersede, promote, metadata, outcome, export | check-then-act, several transactions per tool, files changing under a sync |
| Rules watcher, `files/watcher.py` | a debounce timer per path | created, modified, deleted, moved events; `sync_once` | timers replaced while they fire, swallowed errors |
| Knowledge and decisions, `tools/knowledge.py`, `tools/decisions.py` | rows of `knowledge`, relations, the recall log | add, list, pin, supersede, unsupersede, recall, decide | the relation and the status are two transactions |
| Relations, `tools/relations.py` | directed typed edges | link, trace, related | a walk over rows that are retired meanwhile |
| Corpus tools, `tools/corpus.py` | - | recall, adjudicate, export, drift | terminal states, batches |
| Session tools, `tools/session.py` | sessions, snapshots | start, handoff, snapshot, summary | sequence numbers, checkpoint before the insert |
| Session tracker, `tracker.py` | turn counters, watermarks, pending nudges, ignore counts | `record_call`, `record_store`, `record_checkpoint`, `record_query`, `get_nudge`, `reset_all` | long sequences of calls, suppressed repeats that still count |
| Enforcement hooks, `hooks/` | a JSON state file | one short process per client event | read-modify-write by concurrent processes, one temporary name |
| Search and ranking, `tools/search.py`, `scoring.py`, the search adapters | none; OpenSearch an index of its own | query, filter, rank, count, link | rows that change between query and lookup, an index several processes fill, bonuses against relevance |
| Ingest, `ingest/`, `cli.py` | a progress file, files of verdicts | `ingest`, `ingest --remote`, `ingest --auto`, `apply-rules` | timeouts, splits, retries, kills, repetition, two clients at once |
| Migration, transport, wiring, plugins, Redis counters, admin, evaluation, deployment | request-scoped or none | copying, start-up, presentation | little that a model checker reaches |

How they interact.  A tool of the server (a synchronous function run by the
event loop) first calls the tracker (`record_call`, which may raise), then
storage, then the tracker again (`get_nudge`).  Storage and counters go through
the one `KnowledgeDB` of the process.  The watcher's `threading.Timer` threads
use the same storage object, hence the same connection.  Rule tools and watcher
read and write the rule files.  Several servers (stdio sessions on one SQLite
file, pods on one Postgres) run the tools side by side without knowing of each
other.  On Postgres every mutation of a legacy row re-projects it into `entries`
in its own transaction, and a pod that boots repairs what was missed.  The
hooks are processes of the client and share only a state file with each other.
Ingest clients talk to a server through one tool and leave their progress in a
file of the project; `apply-rules` writes to the store directly.

What makes each part correct:

- *connection wrapper*: a batch is all or nothing, its caller is told the
  truth, readers never see half of it, a sibling's write is neither lost with
  it nor committed by it, every call ends;
- *rule lifecycle*: a rule that is hidden leads to one that is not, the audit
  trail tells which rules are archived, a sync leaves rows as the files are,
  terminal states are terminal, a file has one row;
- *tracker*: no block without a message, obeying a message helps, reading is
  free, stores cannot outrun checkpoints for ever;
- *watcher*: no change of a file is forgotten, and after the last one the row
  equals the file; a path has one row;
- *entries*: `entries` equals legacy but where the design admits a drift, which
  a boot repairs; what is recalled stays recalled and is logged; counters are
  exact; a hidden finding is explained;
- *schema*: the stamp tells the truth, a start disturbs nobody;
- *hooks*: counts are lost, never invented, and exact while hooks do not
  overlap; a notice comes once per streak; the coverage gate holds;
- *search*: nothing hidden is shown, nothing that matches is missed for lack of
  room, counters do not outvote a match, errors do not cost the answer;
- *ingest*: done means answered, resuming repeats nothing, applying twice adds
  nothing, reports are honest.

`PROJECT.json` lists every component with its status and every hazard at its
line, those no property covers yet included.

## 2. Modules

| Module | What it is |
|---|---|
| `AtomicBatches` | abstract: batches that take effect at one instant or never |
| `KnowledgeDB` | the connection wrapper: processes, threads, lock, reconnect, blocks, crashes |
| `KnowledgeDBProofs` | its inductive invariant, its safety theorems, isolation and the refinement of `AtomicBatches` |
| `RuleLifecycle` | the rows of `rules` under the rule tools and recall, with the files on disk |
| `RuleLifecycleProofs` | types for any number of servers; the safety theorems for one |
| `RulesWatcher` | rule files, events, debounce timers, cascades, startup sync, stop |
| `RulesWatcherProofs` | its inductive invariant, types and two safety theorems |
| `SessionTracker` | the nudges of one session |
| `UnifiedEntries` | Postgres pods: mutations, mirror, boots, deadlocks, crashes |
| `UnifiedEntriesProofs` | its inductive invariant, three safety theorems and two action properties |
| `SchemaUpgrade` | every statement of the schema script and the migrations, on both backends |
| `SchemaInvariant` | what is invariant about it: what lists of statements spoil and repair, and what holds of the database between two statements |
| `SchemaUpgradeProofs` | that it is; types, and the two properties of the run |
| `HookState` | hook processes and their state file |
| `EnforcementProofs` | of `SessionTracker` its inductive invariant and four theorems; of `HookState` two inductive invariants, with and without overlap, and five safety theorems |
| `SearchIndex` | searches over SQL and OpenSearch beside writes |
| `SearchIndexProofs` | its inductive invariant and four safety theorems |
| `RemoteIngest` | `ingest --remote`: batches, failures, the progress file |
| `RuleIngest` | the sieve, verdicts and their application |
| `IngestProofs` | of `RuleIngest` its two safety theorems; of `RemoteIngest` its inductive invariant, types and two safety theorems |
| `MC_*` | the threads, rows, files, databases and texts of the runs, and the symmetry of some; `SessionTracker` needs none |

### KnowledgeDB

`pending[p]` and `inTxn[p]` are the uncommitted writes of process `p`'s
connection and whether sqlite3 has opened its implicit transaction; `holder[p]`
and `txDepth[p]` are `_lock` and `_tx_depth`; `durable` is the file.  A thread
runs one *operation*, a sequence of write statements, in one of two ways:

- an operation of `TxOps` inside `transaction()`: the lock is kept from the
  outermost entry (`EnterTransaction`) to the outermost exit (`TxCommit`,
  `TxCommitFails`, `TxRollback`), inner blocks only move the depth
  (`EnterNested`, `LeaveNested`), errors unwind (`TxBodyRaises`);
- an operation of `PlainOps` by `execute_write` for each statement and then
  `commit()`: each of these takes and gives up the lock, so each is a step
  (`PlainWrite`, `PlainCommit`); on "readonly" or "locked" the wrapper
  reconnects, dropping what was not committed, and retries once with the lock
  kept (`PlainWriteReconnects`, `RetrySucceeds`, `RetryRaises`).
  `PlainWriteRejected` is the constraint error that `insert_relation` catches.

`Read` is `execute` outside a block.  `Crash` kills a process and starts it
again: its connection's uncommitted writes are gone and so is its memory.  It is
a process crash; the power loss that `synchronous=NORMAL` gives up is left out.
SQLite itself is modelled by what the code relies on: one connection at a time
may hold the write lock, a waiter gives up after `busy_timeout`, a rolled-back
or closed connection loses exactly its uncommitted writes.  A `Fault` is a stale
("readonly") connection, a constraint error, or an exception of the caller's
own code inside a block; a commit that fails for another reason (a full disk) is
left out.  Each operation runs at most once, so that what its caller was told
can be compared with the file for ever after.

`ImplementsAtomicBatches` maps the blocks onto `AtomicBatches`: a batch is
committed when all its writes are durable.

### RuleLifecycle

Rows are numbered and never deleted (the SQL never deletes from `rules`; recall
is a status).  `archived`, `status`, `succ` and `file` are the columns, `trail`
the last archived/restored event of each row, `disk` the files present.  Every
storage call is one transaction, hence one step; a tool that makes several is
several steps: `supersede_rule` and `unsupersede_rule` read, then write;
`add_rule` in files mode writes the file, then the row; `sync_rules` goes
through the files it listed at its start, one by one, each with a look-up, an
insert or a restore and, in a transaction of its own, the event, and then
archives the rows without a file, unless `archive_would_storm`.  `FilesChange`
is everybody else who touches the directory, at any moment.  `calm[c]` is
history: no file changed since the sync of `c` began.

Abstractions: titles and bodies are left out, so an add finds any row or none;
where several rows have a path, `find_rule_by_file_path` returns any of them
(Postgres promises no order); every file has a title, since `sync_rules` skips
those without; `restore_rule` reads and writes in one transaction and is one
step; the text update of a known file changes none of these columns.
`Recall` (`recall_entry`) exists on Postgres only and is one transaction.
Promotion, metadata, outcome and reinforcement reports touch columns not
modelled here (reports are in `SearchIndex`, reinforcement in `RuleIngest` and,
as a counter, in `UnifiedEntries`).

### RulesWatcher

`disk` is what each path holds (a text, `Untitled` for a file without a title,
or `Absent`); `path`, `hash`, `body`, `archived`, `recalled` are the columns of
the rows, where `hash` is the text that `content_hash` was computed from and
`body` the text that column `content` came from.  A text stands for all that is
parsed from a file and for its hash.  `queue` holds the events the observer's
thread has still to hand to `_schedule`; `reg` is the dictionary `_timers`; `op`
what a timer was made for.

A *task* is a timer, `main` (the startup sync, which runs before the observer
starts) or `engine` (`add_rule`).  A timer is armed by `Schedule`, which cancels
the path's older one if that still waits; `Elapse` ends its wait, and from then
on cancelling it has no effect; `Fire` is the locked part of `_fire`, which
takes out of `_timers` *whatever* timer the path has.  There is no clock: an
armed timer may elapse at any moment.  The cascades then go step by step, one
step per look at the disk (`Check`, `Read`) and per storage call (`FindsNone`,
`FindsCurrent`, `FindsStale`, `Update`, `Restore`, `Insert`, `MissingHasNone`,
`MissingHasRow`, `Archive`), so that other tasks and file changes come in
between.  `CascadeFails` is the swallowed storage error, `SyncFails` the error
of the startup sync that the transport swallows, `StopObserver` and
`StopCancels` the two halves of `stop()`.

A change of a file is `Edit` or `Move`; an edit may be followed by a spurious
deletion event, as atomic-rename saves cause.  `disturbed` is history: the files
for which something happened that the design leaves open, and for which the
properties claim nothing: a change before the observer is on, a storage error,
a cascade that overlaps another one (or an `add_rule` between its file and its
row) on the same path, a refused sweep, and `add_rule` on a path that had a row.
Some of these are real weaknesses, listed as hazards; that they are excluded is
a statement about the design, not an accident of the model.

Not in it: the `sync_rules` tool (in `RuleLifecycle`), wikilink relations,
directories, and paths outside the rules directory.  Python's `isinstance`
filters and the hidden-file test only select the events that are modelled.

### SessionTracker

One session's tracker; `ScopedTracker` keeps one per session and forwards.  A
tool call is one step, since the tools are synchronous functions on one event
loop: `record_call` (`RecordCall`, `Refused`), the store or checkpoint mark, then
`get_nudge` (`GetNudge`) or not, where the tool raised or does not end with it
(`NoNudge`).  `session_handoff` is never refused and ends in `reset_all`
(`Handoff`).  `shown` (pending nudges whose text was sent), `told` (what the last
refusal named), `obeyed` and `read` are history the properties need.  One tool
stands for all that the tracker treats alike, one topic and one periodic tool
for all.  The coverage ledger and plugin nudges have no influence on blocking.

### UnifiedEntries

`legacy` and `entries` are the two tables as committed, one row per id; the
table `knowledge` stands for the four entity tables, which are mirrored alike.
`ownL[p]` and `ownE[p]` are the uncommitted rows of pod `p`'s transaction, so that
`SeenLegacy` and `SeenEntry` are what a statement under READ COMMITTED reads;
`Writers` is who holds a row's lock, `Sharers` the boots whose DDL keeps SHARE
locks, `VersionHolders` the boot that has stamped the version row.  `WaitsFor`
is the wait relation, and `RollBack` ends a statement that `Fails`: a unique
violation, a deadlock that Postgres breaks, or the bound on rows.

A call begins (`CallTool`, or `PostClaim` of the HTTP endpoint, which inserts
unasked), reads what it checks (`AddKnowledge`, `Accept`, `Refuse`), and then runs
its statements: the relation in a transaction of its own (`InsertRelation`,
`DeleteRelation`), the mutation, and for each id it mirrors `find_by_id`
(`Project`), `find_entry` (`Lookup`) and the write (`InsertEntry`, `UpdateEntry`,
`DeleteEntry`), then `Commit`.  `Increment` and `IncrementEntry` are the counter
and its copy.  `ensure_schema` is `BootLock`, `BootVersion`, `BootRepair`,
`BootCommit`; a boot whose transaction fails serves all the same, as
`server.py` does.  A row's `facet` stands for the JSON facets, of which the
projection drops the empty ones.

### SchemaUpgrade

A database is its tables, columns, full-text indexes (there, stemmed, with the
late column, and the rows they hold), triggers, the version stamp and the rows of
the content tables.  Every migration is the sequence of statements its function
runs, and `Boot(p)` the whole list of a start; each statement is marked as DDL,
DML or part of an `executescript`, because that decides when SQLite commits:
after every statement, or only with the next `commit()` once a DML statement has
opened a transaction.  On Postgres the list is one transaction.  `db` is what is
committed, `work` what the owner of the write transaction sees.  `Fail` is a
statement that raises (a column, index or trigger that another process has added
meanwhile, an index to rebuild that it has dropped, a lock not got within
`busy_timeout`, a deadlock, an entry that does not verify), `Crash` a
process killed between two statements.  `tangled` is history: a boot failed or
died while another one was upgrading.

A database starts at any version the run lists, with its rows indexed as that
version did.  Columns with no role in indexing are told apart only by the
migration that brought them.

### HookState

`name` is the inode the state file's name stands for, `tmp` the inode of the one
temporary name, `content` what reading an inode yields (`Torn` for text that does
not parse), `fd` the inode a process has open.  A hook reads and decides
(`ToolHook`, `CompactHook`, `FailureHook`, `CoverHook`, `ClaimHook`, by the
event), which is one step since nothing is written in between, and then writes:
`OpenTmp` truncates whatever the temporary name stands for, `WriteTmp` may leave
the tail of a longer text when two processes write one inode, `Replace` is
`os.replace`, which raises when the name is gone.  An entry holds the streak, the
marks of notices given, the edit counters, the covered topics, the compaction
boundary and the once-only sets.  `edits`, `streak`, `full`, `retrieved` and
`compacted` are history, what the agents really did; `overlap` records that two
hooks have been between reading and renaming at once.

The clock counts compaction stamps, the only times that are compared; entries
are younger than the limits of age.  The ambient recall's count per session (off
by default) is left out.

### SearchIndex

`rows` are the stored rows with their text, status and `net`, what their ledger of
outcome reports comes to at rank time (nothing takes a report back); `docs` the OpenSearch documents; a text is only how it meets the query, from 0 (not at
all) to 4 (all terms in the title).  `Writer` is every other call: a row is
written, retired, deleted, reported on or linked.  A search takes its scopes one
after the other: with OpenSearch it first copies all kinds (`SyncKind`,
`CreateIndex`, `Bulk`), each kind read before it is written; then `Query` takes
`Window` hits of the first rung of the backend's ladder that has any, `FormatHit`
looks each up and drops what is gone, hidden, foreign or below the gate, `Rank`
orders the rest by the composite of `scoring.py` (in thousandths, `tanh` as a
table) and cuts to `Limit`, `CountHit` or `CountFails` counts each, `Spread` and
`Relate` append linked rules.  `QueryFails` is the error the OpenSearch adapter
swallows.  `since[p]` is history: the values each row had since the search began.

### RemoteIngest

A client holds a `stack` of batches; a call may be answered, fail for the moment
(`Transient`), fail for good (`Fails`), time out and be split (`TimesOut`) or be
refused (`AuthFails`).  After an answer the progress is saved (`Truncate`,
`Write`, as `write_text` does, or `CannotOpen`) and then printed.  `file` is the one
progress file of the project, which names the source it belongs to.  A client may
be killed at any step.  `disturbed` is history: another client ran or wrote the
file in between, or a write failed.

### RuleIngest

`Candidates` is the sieve: rule-like spans of which no rule of nearly that text
exists, equal spans once.  `Novelty` stands for the similarity bands.
`AgentJudges` is `ingest` and the agent that turns its output into a file of
verdicts; `ApplyRules` applies a file, any number of times; `IngestAuto` has the
model judge, applies the confident verdicts and queues the rest
(`QueueForReview`).  A verdict is `Look` (the reads of its transaction) and
`Insert` or `Reinforce` (its writes and commit); on Postgres the reinforcement
counter commits by itself before its event (`Event`).  `VerdictFails` is an error of
either, which may come after the verdict has been counted.  `crossed` is history:
two processes were about to write at once.

## 3. Runs

Deadlock is not checked: every run has a bound (operations, calls, turns,
events, boots, searches, runs) after which the system rests.

| Run | Question | Bounds | Result |
|---|---|---|---|
| `kdb_threads` | Do two threads on one connection keep batches atomic, honest, unread, isolated, and is this `AtomicBatches`? | event loop and timer thread, a batch of two writes, a batch of one, a counter increment; depth 2, two faults, one crash | holds, 228,767 states |
| `kdb_procs` | One writer at a time? Is a one-statement call durable once acknowledged? Does every call return? | two processes of one thread; a batch of two, an increment, an edge; depth 2, two faults, one crash; fair | holds, 140,979 states |
| `kdb_folded` | Is a sibling's acknowledged write safe from another thread's batch? | two threads, one edge, one fault | **violated** |
| `rules_one` | Acyclic supersession, faithful trail, converging sync | one server, two files, three rows, floor 1 | holds, 1,306,304 states |
| `watcher_mirror` | Is nothing forgotten, has a path one row, and do the files win in the end? | two files, one with a possible row, two texts, two timers; two changes, recalls or errors; floor 0; fair | holds, 1,467,946 states |
| `tracker_session` | Blocks are announced, obedience works, stores wait, reads are free | six turns, thresholds 1 to 3 | holds, 310,196 states |
| `entries_pods` | Do the tables drift only where they may, does a boot repair them, do recalls, counters and audit relations survive races and crashes, does everything end? | two pods, two stored rows and a new one, two calls, one crash; fair | holds, 131,999 states |
| `hooks_overlap` | Are counts never invented, and exact without overlap? Do notices and the coverage gate work? | an agent and its subagent, two hooks at once, three events, thresholds 1 and 2 | holds, 1,653,027 states |
| `schema_boots` | Does the stamp tell the truth, and does a start disturb nobody? | two processes, three boots, one kill; SQLite at versions 0, 5, 18 and Postgres at 0, 7; two rows | holds, 2,319,687 states |
| `search_pods` | Nothing hidden, nothing missed, no outvoted match, no lost answer | two searches at once, one write beside them, three rules and two findings; SQL and OpenSearch; limit 1 | holds, 917,529 states |
| `ingest_resume` | Does done mean answered, does resuming repeat nothing, do runs end? | two clients, a source with a repeated span and one of one span, batch 2, two attempts, three runs, one fault; fair | holds, 355,817 states |
| `ingest_apply` | Is applying verdicts idempotent, is the report honest? | two appliers, both backends, four spans of which two are equal, one stored rule, two files, three runs, one kill | holds, 925,822 states |

Why these are enough.  *KnowledgeDB*: the batch of two writes is the smallest
with an inside; depth 2 has an inner and an outer exit; two faults allow one
before and one during a retry; one crash meets every state of the others.  The
two runs divide threads and processes because the lock separates threads and
the file's write lock separates processes.  *RuleLifecycle*: three rows give
every chain and cycle up to length three, and, with floor 1, a sweep of two rows
out of two or three is refused and one of one row goes ahead, so both sides of
the guard occur; two files give two rows of one file and one of another.
*RulesWatcher*: two files give a rename in both directions; two timers are
two of one path (one armed, one firing) or one of each; two changes are a
removal and a recreation, an edit during a cascade, or a rename back; `MaxRules`
is never reached.  Rows left by an earlier daemon are archived or live, current
or stale; with floor 0 the sweep of an only row is refused, and the same
orphan beside the row of the other file is archived.
*SessionTracker*: the thresholds are small but ordered as the defaults are, and
six turns reach the store reminder, the checkpoint, the mandatory stop, the
grace and an escalation, one after the other.
*UnifiedEntries*: every hazard here is between two transactions, so two calls on
two pods are each against each; one crash and the boot that follows may come at
any statement of them, and the second pod boots beside.  Two stored rows supersede
each other, are deleted under a mirror or left to a boot's repair; one insert
more is one that the other pod's call meets half way.
*HookState*: two hooks are what one temporary name and one read-modify-write
need; three events are two that overlap and one that reads what they left, or an
edit, a compaction and an edit; thresholds of 1 and 2 are crossed in that many.
*SchemaUpgrade*: of three boots two may overlap and a third come after a kill;
version 5 is before every migration that rebuilds an index or replaces a trigger,
18 before the last of them alone, 0 is the empty database, and the Postgres
versions are an empty one and one before the late columns; one row is stored
before and one may be stored meanwhile.
*SearchIndex*: there are three rules, as many as the window takes (limit 1), so a
scope may be filled with rows it drops; one of them is a best match, one a
favoured row that hardly matches, one is written only meanwhile and has expired;
one row of knowledge belongs to another project.  Two searches are enough for
one to fill the index while the other reads it, and the one write (a new row, a
new text, a retirement, a deletion, a report, a link) lands at every step of
both.
*RemoteIngest*: batch 2 can be split once, two attempts are a retry and the
last; three spans make two batches, so a run can die with one done; three runs
are one killed, one of another client and one that resumes.
*RuleIngest*: three runs are two at once and one after; the equal spans meet
within one file, over two files and over two processes; the near text gives the
refinement and the reinforcement.
Symmetry is used for the files of `rules_one`, the hooks, the processes of
`schema_boots`, the pods of `search_pods` and the appliers of `ingest_apply`, which
no property names; no run with a liveness property uses it.

What the violated run shows (the quotation is in `PROJECT.json` "findings"):
`execute_write` and `commit` lock separately (`db.py` 166, 182).  A timer thread's
block entered between them takes the loop's write into its own transaction; its
rollback discards it; the loop's `commit()` then commits nothing and returns.
The comment in `transaction()` says this cannot happen.

Fairness.  Four runs need it.  In `KnowledgeDB`,
`FairSpec` has weak fairness, for
each thread, of the statements of a block's body and of the rest of a call:
Python schedules every runnable thread, and SQLite ends a wait for the write
lock with an error after `busy_timeout`, so a waiting step is never disabled,
it fails.  Nothing obliges a call to begin, a body to nest, a fault or a crash to
happen.  A thread of the same process that waits for `_lock` needs no strong
fairness in `kdb_procs`, where a process has one thread; that a thread of a
busy process gets the lock eventually is not claimed.  In `RulesWatcher` it is
weak fairness of the observer's thread, of each timer and of the startup sync:
the observer takes its events one by one, a `threading.Timer` elapses, and a
thread that can go on does.  No file change, error, recall or stop is obliged to
happen, and the files rest because the bound on changes is spent.  In
`UnifiedEntries` it is strong fairness of a pod's next statement and of its boot:
a statement that waits is enabled and disabled by others' locks, and Postgres
queues those who wait and serves them in order.  Deadlocks are broken by Postgres
(`deadlock_timeout`), which is the step `RollBack`.  In `RemoteIngest` it is weak
fairness of a running client's step: a call to the server ends in an answer, an
error or the timeout that `_sift_remote_call` sets.

Every property of a passing run has a mutant in `PROJECT.json`: a definition
changed as a bug would change it (a lock not taken, a reconnect inside a block,
a commit error swallowed, a watermark not reset, a trigger with the old columns,
a batch given up but noted as done), with which the run fails.

### What the properties leave out, and why

The properties say what the code achieves.  Where it does not, an exclusion is
written into the property or into its history variable, and stands for a real
weakness a maintainer may want to know of:

- *SQLite*: a duplicate edge that `insert_relation` swallows leaves the implicit
  write transaction open until the process writes again.
- *Rules*: two servers that supersede A by B and B by A at once hide both;
  `supersede_rule` takes a recalled rule as the old one, so recalled is not
  terminal.
- *Watcher*: `_fire` removes whatever timer its path has, so `stop()` may miss a
  newer one; a cascade writes `content_hash` without `content`, and from then on
  the hash check skips the row; overlapping cascades of one path, changes before
  the observer is on and swallowed storage errors (`disturbed`).
- *Tracker*: `record_decision` moves the store mark but does not resolve the
  reminder, whose ignores go on.
- *Entries*: the successor of a supersession is re-projected without its row
  being locked, so an older copy may overwrite a newer one, or bring a recalled
  row back into `entries`, or undo what a later commit has just put right, until
  the next boot.  `OnlySuccessorsDrift` allows it of every row that a relation
  has named as successor, and of no other.
- *Schema*: an upgrade killed beside a concurrent one can leave the stamp at 19
  over a narrow or empty index, which no later start repairs (`tangled`).
  `storage.py` 998-1000 says that a server refuses to start on a failed
  `ensure_schema`; `server.py` 117-120 logs it and serves.
- *Search*: a copy of a kind read earlier may land in the index after a newer
  one, between another search's copy and its query (`crossed`), where the adapter
  says "Slow but correct"; two processes that create an index at once make one
  search raise; a query error reads as "No results"; a best match whose outcomes
  are negative can be outvoted (`NeverFailing`), though `scoring.py` says never;
  the penalty of an expired row divides a negative composite by ten, which raises
  it; the ladder stops at a rung on which all hits are hidden.
- *Ingest*: the `isError` of a tool result is not read, so a refused sift counts
  as an answer, is saved as done and skipped by later runs (`Answered`); a client
  killed between save and print loses the answer of one batch
  (`SpansAreAnswered` allows as much); all sources share one progress file; on
  Postgres a reinforcement is not all-or-nothing, although `adjudicate.py`
  117-118 says so; a refinement is not guarded against repetition; two processes
  that add the same text at once both insert (`crossed`); a commit that raises
  leaves its verdict counted as created and as an error; a killed `--auto` loses
  the verdicts it would have queued.

## 4. Proofs

All proofs are for any values of the constants that satisfy the named
assumptions of the modules, and TLC evaluates the assumptions on every run.

*KnowledgeDBProofs.*  `TxAtomic` is not inductive: one has to know which thread
wrote what.  `IInv` adds: `_lock` is kept exactly by threads in a block or about
to retry (`LockInv`); a running operation belongs to one thread (`CallInv`);
uncommitted writes of a batch belong to a thread inside its block, and while the
body runs all statements executed so far are there (`PendingInv`, what a
reconnect inside a block would break); and what the file holds of a batch by
what its call has come to (`DurableInv`).  From `Invariant`: `BatchesAreAtomic`,
`BatchesAreHonest`, `WriteLockIsExclusive`, `ReadsSeeWholeBatches` (the last two
with an invariant of their own added) and `Refinement`, where a block's commit
is the abstract `Commit`, a return the abstract `Return`, a crash the abstract
`Die`, and everything else a stutter.  `BlocksAreIsolated` is an action property:
a thread inside a block keeps the lock, so no step of a sibling reaches the
connection.  `SiblingIsKept` assumes `OneThreadEach`, and needs to know where the
statement is from its execution on: uncommitted on its own connection, or in the
file.  With two threads on a connection it is false, as `kdb_folded` shows.

*RuleLifecycleProofs.*  `Types` holds for any number of servers.  The other three
assume `OneServer`, without which the first is false.
`SupersessionIsAcyclic`: a supersede about to be written names a successor that
is not superseded (`SupersedeInv`), so the rule it hides leads out of every set
of superseded rules that contains it.  `TrailIsFaithful`: trail and flags differ
at most on the row whose event is due (`TrailInv`).  `SyncLeavesRowsAsFiles`:
during a calm sync every file is still to come, in hand or covered by a live
row, and the sweep list holds all rows without a file and no others
(`ConvergeInv`).

*RulesWatcherProofs.*  That nothing is forgotten needs to be known of every step
of a cascade, not only of what it reads.  `IInv` says: at most one task works on
an undisturbed path (`Exclusive`), so what a cascade found it still finds when it
writes; a path about to be inserted has no row (`InsertInv`), which gives
`PathsHaveOneRow`; `_timers` names only timers of its own path that have not
fired (`RegInv`), so that an event which replaces a timer is itself on its way;
the last event of a path that is gone is a deletion (`LastEvent`), since an
upsert as the last one would find no file and leave the row; and every path has
an event or a timer pending, or is as its file, or is in a cascade whose
position and findings lead there (`WatchInv`).  `StartInv` is the same for the
startup sync, where nothing is pending: what has been taken off the list is
handled, what was never on it is about to be swept.  With these,
`EventsAreNotForgotten` follows case by case.  It holds for any number of
files, timers, rows, changes and errors, with the exclusions of `disturbed`.

*EnforcementProofs.*  Of the tracker, `SessionInv` adds to the properties that
every pending nudge was shown (what makes the suppression of repeats safe), that
the nudge last named is pending unless it is the mandatory stop, and that one
obeyed is neither pending nor counted.  `ReadsAreFree` assumes `Escalation > 1`:
with 1, the first read-only call after a nudge is triggered would let the next
write count it and be refused at once, as the code has it.

Of the hooks there are two invariants.  `IInv` holds however hooks overlap: a hook
has an inode open exactly while it writes and renames, so the name always
stands for one of them (`FileIsThere`), and *whatever* can be read or is held in
memory charges its agent with no more edits than it made (`NobodyCharged`);
since every version of the file, lost updates and all, was made from such a
version by its own agent's event, `NobodyIsCharged` follows.  One has to count
the compactions still to be stamped to know that the clock stays within its
bound (`ClockBehind`).  `EInv` adds what holds as long as nothing has overlapped:
at most one hook is between reading and renaming, and the file at rest, or what
that hook holds, is exactly what the history says, its marks and counters
included (`Alone`).  With it come `FileIsExact` and `NoticesComeOnce`, for any
thresholds and any number of agents and hooks.  `GateHolds` is an action property
that needs of every version of the file, held, torn or overwritten, that the
topics it covers were looked up by the agent it covers them for
(`CoverageIsReal`, the counterpart of `NobodyCharged`), and for its second half,
without overlap, that the entry is exactly the history.

*UnifiedEntriesProofs.*  A transaction writes one row of the legacy tables and,
holding its lock, up to two of `entries`; all of the following is about what may
be uncommitted at a time.  `Locks`: a transaction has written its target and no
other row, no two the same one, and where it has written none the row is gone.
`Gone` is final, since every writer looks at the row after it has the lock
(`Audit`).  `RowsOK`: a row, committed or not, counts every acknowledged
increment and has its relation recorded; with `CallsOK`, that a supersede about
to write has committed its relation, these give `RecallAudited`,
`CountersAreExact` and `SupersessionExplained`.  `Boots`: a boot that has its
locks runs beside no transaction, so what it has repaired stays repaired until
it commits (`BootsRepair`).  `OnlySuccessors` needs how far each mirror has come
(`Mirrors`): from the projection it wants, which is still that of the row, since
the row is locked, to the entry as its transaction sees it (or, for a counter,
an entry that agrees if it agreed before).  This is claimed only of rows that no
relation names as successor, and `EntryWrites` says that nobody else writes
theirs.  The stored database may be of a version before `entries` or of one that
kept it, with any rows in it whose supersessions name rows of it.

*SearchIndexProofs.*  Each search has an invariant of its own, of which the
writers and the other searches must not take anything away.  `FlowOK`: the
history `since` holds the present value of every row, so what a look-up finds,
or what was read to be copied, is in it; hence `HiddenStaysHidden`, by `HitsOK`
and `ShownOK`, since a hit is kept only if the row was showable when it was
looked up.  `RacesOK`: `create` raises only if another made the index after this
one looked (`OnlyRacesFail`).  `CopiesOK`: unless `crossed`, a document of a kind
already copied is the text of every row not written since.  Then the query finds
such a row on the first rung that answers, the window has room for all
candidates (an ordering of at most `3 * Limit` of them is not cut), and the row
is in the hits still to look up or already kept (`CompleteOK`), which gives
`QuietIsComplete` on all three backends.  `ScoresOK`: the composite of a best
match that nothing speaks against is at least 2000, that of an unpinned worst
match less, whatever the counters (`CompositeBound`, from the bounds of
`Saturate` and `Tanh`); with the order of `Ranked` this is `BestMatchStays`.

*IngestProofs.*  Applying verdicts.  `ReportsAreHonest`: each step moves the
report and what was made together, a failure adds an error.  `AddsHappenOnce`
needs that a process about to write an ADD has looked, and that what it looked
for is still not there (`LookedFor`), which others' writes leave so unless
`crossed`; that no step but an insert changes a rule's text or how it came, or
makes it active again (`Settles`); and that an insert is the last row.

Remote ingest.  A client's stack is its source cut into batches, so both
properties are about sums over sequences; the proof counts instead.
`SpansAreAnsweredAlways`: a span is `Lost` if it is noted as done, in the file,
in some client's memory or by the end of a run, its answer was not printed, and
it is in nobody's hands.  Only a kill between the first save and the print makes
spans lost, those of one batch, so there are at most `BatchSize * kills` of them
(`FewLost`), and when nothing runs and the source ended well, every unprinted
span is lost.  It holds of every source, disturbed or not, with any number of
clients on the one file.  `ResumeRepeatsNothingAlways` needs that an undisturbed
source has one client, alone (`Alone`), whose truncated file nobody else filled
(`Emptied`), and a ledger of every span (`Ledger`): what was printed of it and
what the stack still holds of it, counted as places in the stack so that halving
a batch is a bijection, are at most the copies in the source, once per kill and
once more; and one round less as long as this run's memory, or the file, does
not have it as done.

*SchemaUpgradeProofs.*  The statement lists are data, 18 migrations joined and
selected by version; the proof never runs one.  Its first half (the first half
of `SchemaInvariant`) is about lists alone.  Each statement spoils some aspects
of a full-text index (a trigger, its shape, its rows) and repairs others; a DML
statement opens a transaction, one more aspect, that a commit closes.
`Runs(L, O, P)` says that a list leads from the aspects `O` open to `P` and keeps
to three rules on the way: where a trigger or the shape is open the rows are too,
or a transaction is (`Careful`); nothing that asks IF NOT EXISTS, or that touches
the entries, stands in a transaction (`Apart`); an index is dropped after its
triggers (`Dropping`).  `Runs` composes, holds of one statement by computation
and so of every migration, every upgrade and every boot, from nothing open to
nothing open.

The second half puts the lists beside each other in any interleaving.  `IInv(v)`,
for the version `v` that was found: every statement that a boot has run has left
the table or column it makes (`Done`); a table has all its columns but for those
of migrations still to come, and a stamped database has everything (`Tabled`);
a server serves, and an adapter repeats the script, on a stamped database only
(`Versioned`); a process holds the write transaction exactly where its list has
one open (`Held`); in a database found empty no index is ever of an old shape
(`Bare`); what IF NOT EXISTS finds of the entries' index is right, or missing and
made (`Agree`, `EntriesOk`).  From these follows the core, `KeptInv`: unless
`tangled`, every aspect of every index is right, or open in a boot that is under
way, or of a table whose index an upgrade from `v` makes anew and no boot has
dropped yet; inside the transaction of such an upgrade the committed database
may lag.  When nobody boots nothing is open, and a stamped database has no upgrade
to come, so everything is right: `StampIsAlwaysTrue`, for any processes, starts,
crashes and errors.  `RestartsAlwaysDisturbNothing` needs less: a boot at version
19 or 0 runs only statements that take no row out of an index (`Gentle`), and the
transaction of one has at least the rows that are committed (`Grown`).

Only model-checked:

- `EveryCallReturns`, `FilesWin`, `EveryCallEnds` and `EveryRunEnds`: liveness,
  out of reach of the prover.

Every safety invariant and every safety action property of a passing run is
proved.

No theorem about a component depends on another's, no proof uses induction over
data, and no module uses RECURSIVE.

## 5. Not modelled, and why

Not modelled at all: pure text (sanitizers, style, parsers, token counting,
duplicate grouping, snippets), wiring and plugin registration, the admin views,
evaluation and deployment: they keep no state that a step of another actor
changes.  Of the HTTP transport only the claims endpoint and the startup sync
are modelled; principals are request-scoped.  A Redis counter is one command on
one key.  `migrate.py` is one pass of inserts whose only guard is the refusal of
a non-empty destination; note that it copies none of status, archived,
superseded_by, pinned and the counters, while the main README speaks of copying
every row, and that a crash leaves a destination the next run refuses.  Sessions
and snapshots (`next_snapshot_seq` reads a maximum that another server may read
as well) and the paging of exports promise nothing about concurrent change that
could be checked.  The external services are modelled only by what the code
assumes of them.

`PROJECT.json` marks a component "partly" when operations that change state are
missing, and its note names them.

## 6. Plan

Done so far: the connection, the rule life cycle, the watcher, the tracker; then
the Postgres dual write, schema upgrades, hooks, search, remote ingest and the
application of verdicts.

Next, in this order:

1. `SessionStore`, composed with `SessionTracker`: sessions, snapshots and their
   numbers, marks moved before an insert that fails, a handoff that resets the
   tracker before it builds its context, a scoped session paired with the global
   snapshot.
2. The rest of the rule tools: promotion, metadata, outcome reports, export.
3. `Migration`: a killed copy and its repetition.
4. Pure algorithms as operators against reference definitions: the chain trace
   (breadth-first walk against reachability), duplicate grouping.
