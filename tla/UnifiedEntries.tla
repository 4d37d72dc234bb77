--------------------------- MODULE UnifiedEntries ---------------------------
(***************************************************************************)
(* The dual write of the Postgres backend.  Every mutation of a legacy row *)
(* (the table knowledge stands for the four entity tables) re-projects the *)
(* row into the unified table entries within the same transaction          *)
(* (entries.py, adapters/postgres/storage.py); reads and searches use      *)
(* either table.  Several pods share the database.  Each handles one call  *)
(* at a time on one pooled connection under READ COMMITTED: a statement    *)
(* sees what is committed when it runs and the transaction's own writes,   *)
(* and an UPDATE or DELETE waits for the row's writer.  A pod that boots   *)
(* runs the DDL, which leaves SHARE locks on the tables until it commits,  *)
(* and fills or repairs entries.                                           *)
(***************************************************************************)
EXTENDS Integers, FiniteSets, Sequences

CONSTANTS
    Pods,
    MaxId,       \* bound: rows ever inserted
    Stored,      \* the rows (and their topics) an earlier version stored
    Topics,
    Texts,       \* contents of a row (its summary)
    MaxCalls,    \* bound: tool calls and claims
    MaxCrashes,  \* bound: pods that die
    Absent,      \* no row
    Same         \* in a transaction's own writes: the row is not written

Ids == 1..MaxId
Facets == {"null", "empty", "set"}

Row == [topic : Topics, text : Texts, facet : Facets, pinned : BOOLEAN,
        status : {"active", "superseded"}, by : 0..MaxId, hits : Nat]

ASSUME ValueAssumption ==
    Absent \notin Row /\ Same \notin Row /\ Absent # Same
ASSUME EntriesBoundAssumption ==
    MaxId \in Nat /\ MaxCalls \in Nat /\ MaxCrashes \in Nat
ASSUME ContentAssumption == Topics # {} /\ Texts # {}
\* A superseded row of an earlier version names another row of it.
ASSUME StoredAssumption ==
    \E n \in 0..MaxId :
        /\ Stored \in [1..n -> Row]
        /\ \A i \in 1..n : Stored[i].status = "superseded" =>
              Stored[i].by \in (1..n) \ {i}

VARIABLES
    legacy,   \* table knowledge, as committed
    entries,  \* table entries, as committed
    edges,    \* table relations, verb supersedes: the rows <<new, old>>
    log,      \* table recall_log: per id, how many rows name it
    nextId,   \* the identity sequence of knowledge, not transactional
    ownL,     \* per pod: its transaction's uncommitted rows of knowledge
    ownE,     \* per pod: its transaction's uncommitted rows of entries
    pc,       \* per pod: the next statement of the call or of the boot
    call,     \* per pod: the call and its arguments
    todo,     \* per pod: ids still to mirror in this transaction
    want,     \* per pod: the row mirror_entry has just read
    acked,    \* per id: increments whose transaction committed
    calls, crashes

vars == <<legacy, entries, edges, log, nextId, ownL, ownE, pc, call, todo,
          want, acked, calls, crashes>>
tables == <<legacy, entries, edges, log>>
counts == <<acked, calls, crashes>>

Tools == {"add", "update", "insert", "decide", "supersede", "unsupersede",
          "link", "unlink", "pin", "reinforce", "recall", "none"}
EdgeState == {"never", "there", "deleted"}
Call == [tool : Tools, id : 0..MaxId, new : 0..MaxId, topic : Topics,
         text : Texts, facet : Facets, pinned : BOOLEAN]

BootSteps == {"ddl", "versioned", "filled"}
TxSteps == {"project", "lookup", "insertEntry", "updateEntry", "dropEntry",
            "countEntry", "commit"}
PC == {"down", "idle", "check", "edge", "write", "unlink"}
          \cup BootSteps \cup TxSteps

TypeOK ==
    /\ legacy \in [Ids -> Row \cup {Absent}]
    /\ entries \in [Ids -> Row \cup {Absent}]
    /\ edges \in [Ids \X Ids -> EdgeState]
    /\ log \in [Ids -> Nat]
    /\ nextId \in Nat \ {0}
    /\ ownL \in [Pods -> [Ids -> Row \cup {Absent, Same}]]
    /\ ownE \in [Pods -> [Ids -> Row \cup {Absent, Same}]]
    /\ pc \in [Pods -> PC]
    /\ call \in [Pods -> Call]
    /\ todo \in [Pods -> Seq(Ids)]
    /\ want \in [Pods -> Row \cup {Absent}]
    /\ acked \in [Ids -> Nat]
    /\ calls \in 0..MaxCalls
    /\ crashes \in 0..MaxCrashes

----------------------------------------------------------------------------
(* Projections.                                                            *)

\* The row as its entry has it: a facet (rationale, alternatives, a rule's
\* category, ...) is kept only if it is truthy, so "" is dropped like NULL.
ToEntry(row) ==
    [row EXCEPT !.facet = IF @ = "empty" THEN "null" ELSE @]

Projection(row) == IF row = Absent THEN Absent ELSE ToEntry(row)

Unwritten == [i \in Ids |-> Same]
NoCall == [tool |-> "none", id |-> 0, new |-> 0,
           topic |-> CHOOSE t \in Topics : TRUE,
           text |-> CHOOSE t \in Texts : TRUE,
           facet |-> "null", pinned |-> FALSE]

StoredRow(i) == IF i \in DOMAIN Stored THEN Stored[i] ELSE Absent
StoredHits(i) == IF i \in DOMAIN Stored THEN Stored[i].hits ELSE 0
\* The supersessions an earlier version recorded: the rows <<new, old>>.
StoredEdges ==
    {<<Stored[i].by, i>> : i \in {j \in DOMAIN Stored : Stored[j].status = "superseded"}}

\* A database of a version before entries (nothing in it), or of one that
\* kept it.
Init ==
    /\ legacy = [i \in Ids |-> StoredRow(i)]
    /\ entries \in {[i \in Ids |-> Absent],
                    [i \in Ids |-> Projection(StoredRow(i))]}
    /\ edges = [e \in Ids \X Ids |-> IF e \in StoredEdges THEN "there" ELSE "never"]
    /\ log = [i \in Ids |-> 0]
    /\ nextId = Cardinality(DOMAIN Stored) + 1
    /\ ownL = [p \in Pods |-> Unwritten]
    /\ ownE = [p \in Pods |-> Unwritten]
    /\ pc = [p \in Pods |-> "down"]
    /\ call = [p \in Pods |-> NoCall]
    /\ todo = [p \in Pods |-> << >>]
    /\ want = [p \in Pods |-> Absent]
    /\ acked = [i \in Ids |-> 0]
    /\ calls = 0
    /\ crashes = 0

----------------------------------------------------------------------------
(* READ COMMITTED transactions and the locks of Postgres.                  *)

Visible(own, table, i) == IF own[i] = Same THEN table[i] ELSE own[i]
SeenLegacy(p, i) == Visible(ownL[p], legacy, i)
SeenEntry(p, i) == Visible(ownE[p], entries, i)
Merge(own, table) == [i \in Ids |-> Visible(own, table, i)]

\* Mutant: an UPDATE does not wait for the row's writer.
WritersNever(own, p, i) == {}

\* Who holds the row lock of id i in the table that own belongs to.
Writers(own, p, i) == {q \in Pods \ {p} : own[q][i] # Same}

\* The boots that hold SHARE locks on the tables: CREATE INDEX IF NOT EXISTS
\* takes one even if the index is there, and the whole of ensure_schema is
\* one transaction.
Sharers(p) == {q \in Pods \ {p} : pc[q] \in BootSteps}

\* The stamp in _mcm_versions locks its row even when it changes nothing.
VersionHolders(p) == {q \in Pods \ {p} : pc[q] \in {"versioned", "filled"}}

\* Transactions that have written, and so keep ROW EXCLUSIVE locks.
InTx(p) == {q \in Pods \ {p} : pc[q] \in TxSteps}

Goto(p, label) == pc' = [pc EXCEPT ![p] = label]
WriteLegacy(p, i, row) == ownL' = [ownL EXCEPT ![p][i] = row]
WriteEntry(p, i, row) == ownE' = [ownE EXCEPT ![p][i] = row]

NeedsBackfill ==
    /\ \A i \in Ids : entries[i] = Absent
    /\ \E i \in Ids : legacy[i] # Absent

\* insert_entry(if_absent) for every legacy row of an empty entries table.
Backfill == [i \in Ids |-> IF legacy[i] = Absent THEN Same
                           ELSE ToEntry(legacy[i])]

\* Mutant: reconcile does not delete entries that have no legacy row.
ReconcileKeepsOrphans ==
    [i \in Ids |-> IF entries[i] = Projection(legacy[i]) \/ legacy[i] = Absent
                   THEN Same ELSE Projection(legacy[i])]

\* mirror_entry for every legacy row, then delete_entry for the other ids.
Reconcile == [i \in Ids |-> IF entries[i] = Projection(legacy[i])
                            THEN Same ELSE Projection(legacy[i])]

Repair == IF NeedsBackfill THEN Backfill ELSE Reconcile

\* The row that the first statement of the mutation locks.
LockedRow(c) == IF c.tool \in {"insert", "decide"} THEN {} ELSE {c.id}

\* The pods p's next statement has to wait for.
WaitsFor(p) ==
    CASE pc[p] = "down" -> InTx(p)
      [] pc[p] = "ddl" -> VersionHolders(p)
      [] pc[p] = "versioned" ->
            IF Repair = Unwritten THEN {} ELSE Sharers(p)
      [] pc[p] \in {"edge", "unlink"} -> Sharers(p)
      [] pc[p] = "write" ->
            Sharers(p) \cup
            UNION {Writers(ownL, p, i) : i \in LockedRow(call[p])}
      [] pc[p] \in {"insertEntry", "updateEntry", "dropEntry"} ->
            Writers(ownE, p, Head(todo[p]))
      [] pc[p] = "countEntry" -> Writers(ownE, p, call[p].id)
      [] OTHER -> {}

Proceeds(p, label) == pc[p] = label /\ WaitsFor(p) = {}

\* Every pod of a set waits for another one of it.
Deadlocked(p) ==
    \E S \in SUBSET Pods : p \in S /\ \A q \in S : WaitsFor(q) \cap S # {}

----------------------------------------------------------------------------
(* A pod boots: ensure_schema.                                             *)

\* The DDL. A lock request queues behind the writers that already wait.
BootLock(p) ==
    /\ Proceeds(p, "down")
    /\ \A q \in Pods : pc[q] \in {"versioned", "edge", "write", "unlink"}
                          => WaitsFor(q) = {}
    /\ Goto(p, "ddl")
    /\ UNCHANGED <<tables, nextId, ownL, ownE, call, todo, want, counts>>

BootVersion(p) ==
    /\ Proceeds(p, "ddl")
    /\ Goto(p, "versioned")
    /\ UNCHANGED <<tables, nextId, ownL, ownE, call, todo, want, counts>>

\* Backfill or reconcile. Under the SHARE locks no call can interfere.
BootRepair(p) ==
    /\ Proceeds(p, "versioned")
    /\ ownE' = [ownE EXCEPT ![p] = Repair]
    /\ Goto(p, "filled")
    /\ UNCHANGED <<tables, nextId, ownL, call, todo, want, counts>>

BootCommit(p) ==
    /\ Proceeds(p, "filled")
    /\ entries' = Merge(ownE[p], entries)
    /\ ownE' = [ownE EXCEPT ![p] = Unwritten]
    /\ Goto(p, "idle")
    /\ UNCHANGED <<legacy, edges, log, nextId, ownL, call, todo, want, counts>>

----------------------------------------------------------------------------
(* A call begins, and reads before it writes.                              *)

Finish(p) ==
    /\ Goto(p, "idle")
    /\ call' = [call EXCEPT ![p] = NoCall]

Begin(p, c) ==
    /\ pc[p] = "idle"
    /\ calls < MaxCalls
    /\ calls' = calls + 1
    /\ call' = [call EXCEPT ![p] = c]
    /\ UNCHANGED <<tables, nextId, ownL, ownE, todo, want, acked, crashes>>

\* POST /v1/claims inserts without looking for the topic.
PostClaim(p, topic, text) ==
    /\ Begin(p, [NoCall EXCEPT !.tool = "insert", !.topic = topic,
                               !.text = text])
    /\ Goto(p, "write")

CallTool(p, c) ==
    /\ Begin(p, c)
    /\ Goto(p, "check")

Adding(topic, text, facet) ==
    [NoCall EXCEPT !.tool = "add", !.topic = topic, !.text = text, !.facet = facet]
Naming(tool, id, new) == [NoCall EXCEPT !.tool = tool, !.id = id, !.new = new]
Pinning(id, pinned) == [NoCall EXCEPT !.tool = "pin", !.id = id, !.pinned = pinned]

Requests ==
    {Adding(topic, text, facet) :
        topic \in Topics, text \in Texts, facet \in {"empty", "set"}}
    \cup {Naming(tool, old, new) : tool \in {"supersede", "link", "unlink"},
                                   old \in Ids, new \in Ids}
    \cup {Pinning(i, b) : i \in Ids, b \in BOOLEAN}
    \cup {Naming(tool, i, 0) :
             tool \in {"decide", "unsupersede", "reinforce", "recall"},
             i \in Ids}

Exists(i) == legacy[i] # Absent

\* find_knowledge_by_topic_kind: any row of that topic.
AddKnowledge(p) ==
    LET same == {i \in Ids : Exists(i) /\ legacy[i].topic = call[p].topic} IN
    /\ pc[p] = "check" /\ call[p].tool = "add"
    /\ \/ \E i \in same :
             call' = [call EXCEPT ![p] = [@ EXCEPT !.tool = "update", !.id = i]]
       \/ /\ same = {}
          /\ call' = [call EXCEPT ![p].tool = "insert"]
    /\ Goto(p, "write")
    /\ UNCHANGED <<tables, nextId, ownL, ownE, todo, want, counts>>

\* What the other tools check before they write.
Accepted(c) ==
    /\ c.tool # "unlink" => Exists(c.id)
    /\ c.tool \in {"supersede", "link"} => Exists(c.new)
    /\ c.tool = "supersede" =>
          c.id # c.new /\ legacy[c.new].status = "active"
    /\ c.tool = "decide" => legacy[c.id].status = "active"
    /\ c.tool = "unsupersede" => legacy[c.id].status = "superseded"

\* Mutant: the status is flipped first, the relation recorded afterwards.
FlipFirst(tool) == IF tool = "link" THEN "edge"
                   ELSE IF tool = "unlink" THEN "unlink" ELSE "write"

\* A supersession records its audit relation first, then flips the status.
FirstStep(tool) == IF tool \in {"supersede", "link"} THEN "edge"
                   ELSE IF tool = "unlink" THEN "unlink" ELSE "write"

Refuse(p) ==
    /\ pc[p] = "check" /\ call[p].tool # "add"
    /\ ~Accepted(call[p])
    /\ Finish(p)
    /\ UNCHANGED <<tables, nextId, ownL, ownE, todo, want, counts>>

\* Mutant: the row of recall_log is written in a transaction of its own.
AcceptLogs(p) ==
    /\ pc[p] = "check" /\ call[p].tool # "add"
    /\ Accepted(call[p])
    /\ log' = IF call[p].tool = "recall"
              THEN [log EXCEPT ![call[p].id] = @ + 1] ELSE log
    /\ Goto(p, FirstStep(call[p].tool))
    /\ UNCHANGED <<legacy, entries, edges, nextId, ownL, ownE, call, todo,
                   want, counts>>

\* unsupersede_knowledge keeps the superseded_by it has read for later.
Accept(p) ==
    /\ pc[p] = "check" /\ call[p].tool # "add"
    /\ Accepted(call[p])
    /\ IF call[p].tool = "unsupersede"
       THEN call' = [call EXCEPT ![p].new = legacy[call[p].id].by]
       ELSE UNCHANGED call
    /\ Goto(p, FirstStep(call[p].tool))
    /\ UNCHANGED <<tables, nextId, ownL, ownE, todo, want, counts>>

----------------------------------------------------------------------------
(* The statements of a call.                                               *)

\* insert_relation, a transaction of its own; an edge that is there stays.
InsertRelation(p) ==
    /\ Proceeds(p, "edge")
    /\ edges' = [edges EXCEPT ![<<call[p].new, call[p].id>>] = "there"]
    /\ IF call[p].tool = "link" THEN Finish(p)
       ELSE Goto(p, "write") /\ UNCHANGED call
    /\ UNCHANGED <<legacy, entries, log, nextId, ownL, ownE, todo, want,
                   counts>>

\* The ids whose rows the mirror re-projects after the mutation.
Mirrored(c) == IF c.tool = "supersede" THEN <<c.id, c.new>> ELSE <<c.id>>

InsertKnowledge(p) ==
    LET c == call[p] IN
    /\ c.tool \in {"insert", "decide"}
    /\ Proceeds(p, "write")
    /\ nextId <= MaxId
    /\ nextId' = nextId + 1
    /\ WriteLegacy(p, nextId,
                   [topic |-> c.topic, text |-> c.text, pinned |-> FALSE,
                    facet |-> IF c.facet = "empty" THEN "null" ELSE c.facet,
                    status |-> "active", by |-> 0, hits |-> 0])
    /\ IF c.tool = "decide" THEN call' = [call EXCEPT ![p].new = nextId]
                            ELSE call' = [call EXCEPT ![p].id = nextId]
    /\ todo' = [todo EXCEPT ![p] = <<nextId>>]
    /\ Goto(p, "project")
    /\ UNCHANGED <<tables, ownE, want, counts>>

\* One UPDATE; of a row that is gone by now it changes nothing.
Mutate(p, tool, row) ==
    LET c == call[p] IN
    /\ c.tool = tool
    /\ Proceeds(p, "write")
    /\ IF Exists(c.id) THEN WriteLegacy(p, c.id, row) ELSE UNCHANGED ownL
    /\ todo' = [todo EXCEPT ![p] = Mirrored(c)]
    /\ Goto(p, "project")
    /\ UNCHANGED <<tables, nextId, ownE, call, want, counts>>

UpdateKnowledge(p) ==
    Mutate(p, "update", [legacy[call[p].id] EXCEPT !.text = call[p].text,
                                                   !.facet = call[p].facet])
SupersedeKnowledge(p) ==
    Mutate(p, "supersede", [legacy[call[p].id] EXCEPT !.status = "superseded",
                                                      !.by = call[p].new])
UnsupersedeKnowledge(p) ==
    Mutate(p, "unsupersede", [legacy[call[p].id] EXCEPT !.status = "active",
                                                        !.by = 0])
SetPinned(p) ==
    Mutate(p, "pin", [legacy[call[p].id] EXCEPT !.pinned = call[p].pinned])

\* kb_recall, recall_entry: DELETE, then delete_entry of the same id.
RecallEntry(p) ==
    LET i == call[p].id IN
    /\ call[p].tool = "recall"
    /\ Proceeds(p, "write")
    /\ IF Exists(i) THEN WriteLegacy(p, i, Absent) ELSE UNCHANGED ownL
    /\ todo' = [todo EXCEPT ![p] = <<i>>]
    /\ Goto(p, "dropEntry")
    /\ UNCHANGED <<tables, nextId, ownE, call, want, counts>>

\* increment: the legacy counter is computed by the UPDATE itself ...
Increment(p) ==
    LET i == call[p].id IN
    /\ call[p].tool = "reinforce"
    /\ Proceeds(p, "write")
    /\ IF Exists(i) THEN WriteLegacy(p, i, [legacy[i] EXCEPT !.hits = @ + 1])
                    ELSE UNCHANGED ownL
    /\ Goto(p, "countEntry")
    /\ UNCHANGED <<tables, nextId, ownE, call, todo, want, counts>>

\* Mutant: the counter is not copied into the entry.
IncrementLegacyOnly(p) ==
    /\ Proceeds(p, "countEntry")
    /\ Goto(p, "commit")
    /\ UNCHANGED <<tables, nextId, ownL, ownE, call, todo, want, counts>>

\* ... and copied into the entry, whose other columns stay.
IncrementEntry(p) ==
    LET i == call[p].id IN
    /\ Proceeds(p, "countEntry")
    /\ IF SeenLegacy(p, i) # Absent /\ SeenEntry(p, i) # Absent
       THEN WriteEntry(p, i, [SeenEntry(p, i) EXCEPT
                                 !.hits = SeenLegacy(p, i).hits])
       ELSE UNCHANGED ownE
    /\ Goto(p, "commit")
    /\ UNCHANGED <<tables, nextId, ownL, call, todo, want, counts>>

----------------------------------------------------------------------------
(* mirror_entry for the next id, one statement at a time.                  *)

Current(p) == Head(todo[p])

MirrorNext(p) ==
    /\ todo' = [todo EXCEPT ![p] = Tail(@)]
    /\ Goto(p, IF Len(todo[p]) = 1 THEN "commit" ELSE "project")

\* find_by_id
Project(p) ==
    /\ pc[p] = "project"
    /\ want' = [want EXCEPT ![p] = Projection(SeenLegacy(p, Current(p)))]
    /\ Goto(p, IF SeenLegacy(p, Current(p)) = Absent THEN "dropEntry"
               ELSE "lookup")
    /\ UNCHANGED <<tables, nextId, ownL, ownE, call, todo, counts>>

\* find_entry, and the hashes compared
Lookup(p) ==
    LET got == SeenEntry(p, Current(p)) IN
    /\ pc[p] = "lookup"
    /\ \/ got = Absent /\ Goto(p, "insertEntry") /\ UNCHANGED todo
       \/ got # Absent /\ got # want[p] /\ Goto(p, "updateEntry")
          /\ UNCHANGED todo
       \/ got = want[p] /\ MirrorNext(p)
    /\ UNCHANGED <<tables, nextId, ownL, ownE, call, want, counts>>

InsertEntry(p) ==
    /\ Proceeds(p, "insertEntry")
    /\ SeenEntry(p, Current(p)) = Absent
    /\ WriteEntry(p, Current(p), want[p])
    /\ MirrorNext(p)
    /\ UNCHANGED <<tables, nextId, ownL, call, want, counts>>

UpdateEntry(p) ==
    /\ Proceeds(p, "updateEntry")
    /\ IF SeenEntry(p, Current(p)) # Absent
       THEN WriteEntry(p, Current(p), want[p])
       ELSE UNCHANGED ownE
    /\ MirrorNext(p)
    /\ UNCHANGED <<tables, nextId, ownL, call, want, counts>>

DeleteEntry(p) ==
    /\ Proceeds(p, "dropEntry")
    /\ IF SeenEntry(p, Current(p)) # Absent
       THEN WriteEntry(p, Current(p), Absent)
       ELSE UNCHANGED ownE
    /\ MirrorNext(p)
    /\ UNCHANGED <<tables, nextId, ownL, call, want, counts>>

----------------------------------------------------------------------------
(* The end of a transaction.                                               *)

Forget(p) ==
    /\ ownL' = [ownL EXCEPT ![p] = Unwritten]
    /\ ownE' = [ownE EXCEPT ![p] = Unwritten]
    /\ todo' = [todo EXCEPT ![p] = << >>]
    /\ want' = [want EXCEPT ![p] = Absent]

Commit(p) ==
    LET c == call[p] IN
    /\ pc[p] = "commit"
    /\ legacy' = Merge(ownL[p], legacy)
    /\ entries' = Merge(ownE[p], entries)
    /\ log' = IF c.tool = "recall" THEN [log EXCEPT ![c.id] = @ + 1] ELSE log
    /\ acked' = IF c.tool = "reinforce" /\ ownL[p][c.id] # Same
                THEN [acked EXCEPT ![c.id] = @ + 1] ELSE acked
    /\ Forget(p)
    /\ \/ c.tool = "unsupersede" /\ Goto(p, "unlink") /\ UNCHANGED call
       \/ c.tool = "decide" /\ Goto(p, "edge")
          /\ call' = [call EXCEPT ![p].tool = "supersede"]
       \/ c.tool \notin {"unsupersede", "decide"} /\ Finish(p)
    /\ UNCHANGED <<edges, nextId, calls, crashes>>

\* unlink_knowledge; unsupersede_knowledge, of the edge it read at the start.
DeleteRelation(p) ==
    /\ Proceeds(p, "unlink")
    /\ edges' = [edges EXCEPT ![<<call[p].new, call[p].id>>] =
                     IF @ = "there" THEN "deleted" ELSE @]
    /\ Finish(p)
    /\ UNCHANGED <<legacy, entries, log, nextId, ownL, ownE, todo, want,
                   counts>>

\* A statement fails: another transaction has inserted the entry meanwhile
\* (UniqueViolation), Postgres breaks a deadlock, or the bound MaxId is
\* reached.
Fails(p) ==
    \/ Proceeds(p, "insertEntry") /\ SeenEntry(p, Current(p)) # Absent
    \/ Deadlocked(p)
    \/ pc[p] = "write" /\ call[p].tool \in {"insert", "decide"}
       /\ nextId > MaxId

\* Mutant: the failed statement is tried again, nothing is rolled back.
RollBackNever(p) == Fails(p) /\ UNCHANGED vars

\* An error rolls the transaction back. A server whose ensure_schema fails
\* logs that and serves all the same.
RollBack(p) ==
    /\ Fails(p)
    /\ Forget(p)
    /\ Goto(p, "idle")
    /\ call' = [call EXCEPT ![p] = NoCall]
    /\ UNCHANGED <<tables, nextId, counts>>

\* The pod dies; its transaction is rolled back.
Crash(p) ==
    /\ pc[p] # "down"
    /\ crashes < MaxCrashes
    /\ crashes' = crashes + 1
    /\ Forget(p)
    /\ Goto(p, "down")
    /\ call' = [call EXCEPT ![p] = NoCall]
    /\ UNCHANGED <<tables, nextId, acked, calls>>

Boot(p) == BootLock(p) \/ BootVersion(p) \/ BootRepair(p) \/ BootCommit(p)

Statement(p) ==
    \/ AddKnowledge(p) \/ Refuse(p) \/ Accept(p) \/ InsertRelation(p)
    \/ InsertKnowledge(p) \/ UpdateKnowledge(p) \/ SupersedeKnowledge(p)
    \/ UnsupersedeKnowledge(p) \/ SetPinned(p) \/ RecallEntry(p)
    \/ Increment(p) \/ IncrementEntry(p)
    \/ Project(p) \/ Lookup(p) \/ InsertEntry(p) \/ UpdateEntry(p)
    \/ DeleteEntry(p) \/ Commit(p) \/ DeleteRelation(p) \/ RollBack(p)

Next ==
    \E p \in Pods :
        \/ \E topic \in Topics, text \in Texts : PostClaim(p, topic, text)
        \/ \E c \in Requests : CallTool(p, c)
        \/ Boot(p) \/ Statement(p) \/ Crash(p)

Spec == Init /\ [][Next]_vars

\* A pod runs its call's next statement and its boot once the locks allow it.
\* Strong fairness: a statement that has to wait is queued, and Postgres
\* grants the lock to it when its holder ends, before later requests.
FairSpec ==
    /\ Spec
    /\ \A p \in Pods : SF_vars(Statement(p)) /\ SF_vars(Boot(p))

----------------------------------------------------------------------------
(* What the dual write promises.                                           *)

Agrees(i) == entries[i] = Projection(legacy[i])

\* Only a row that a supersession has named as its successor can drift from
\* its entry: mirrored() re-projects that row without having locked it, so a
\* stale copy may overwrite a newer one, or bring a recalled row back into
\* entries, or undo what a later commit had put right.  Of every other row no
\* commit, boot or crash ever breaks the agreement.
OnlySuccessorsDrift ==
    [][\A i \in Ids : Agrees(i) /\ ~Agrees(i)' =>
          \E old \in Ids : edges[<<i, old>>] # "never"]_vars

\* A boot leaves the two tables row for row alike, whatever the version
\* before it or a drift had left: reconcile is not disturbed by the calls of
\* the pods that already serve.
BootRepairs ==
    [][\A p \in Pods : pc[p] = "filled" /\ pc'[p] = "idle" =>
          \A i \in Ids : Agrees(i)']_vars

\* A row is gone exactly when the recall log names it, and nothing that was
\* under way when it was recalled brings it back.
RecallIsAudited ==
    \A i \in Ids :
        /\ log[i] > 0 => legacy[i] = Absent
                         /\ \A p \in Pods : ownL[p][i] \in {Same, Absent}
        /\ i \in DOMAIN Stored /\ legacy[i] = Absent => log[i] > 0

\* A superseded finding is always explained: whenever its row says so, the
\* supersedes relation has been recorded before, even if the pod died between
\* the two transactions (it may have been deleted since).
SupersessionIsExplained ==
    \A i \in Ids : legacy[i] # Absent /\ legacy[i].status = "superseded" =>
        edges[<<legacy[i].by, i>>] # "never"

\* No acknowledged increment is lost to an update, a pin, a supersession or
\* another increment of the same row at the same time.
CountersExact ==
    \A i \in Ids : legacy[i] # Absent => legacy[i].hits = StoredHits(i) + acked[i]

\* A pod that boots or serves a call comes to an end of it, also when pods
\* boot at once and deadlock on the locks of their DDL.
EveryCallEnds ==
    \A p \in Pods : pc[p] \notin {"down", "idle"} ~> pc[p] \in {"down", "idle"}
=============================================================================
