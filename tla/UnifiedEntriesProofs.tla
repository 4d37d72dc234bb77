------------------------ MODULE UnifiedEntriesProofs ------------------------
(***************************************************************************)
(* Proofs about UnifiedEntries, for any pods, rows, topics and texts, any  *)
(* stored database and any number of calls and crashes.                    *)
(***************************************************************************)
EXTENDS UnifiedEntries, FiniteSetTheorems, TLAPS

----------------------------------------------------------------------------
(* The inductive invariant.                                                *)

CheckTools == {"add", "supersede", "link", "unlink", "pin", "decide",
               "unsupersede", "reinforce", "recall"}
WriteTools == {"insert", "decide", "update", "supersede", "unsupersede",
               "pin", "reinforce", "recall"}
MirrorSteps == {"project", "lookup", "insertEntry", "updateEntry", "dropEntry"}

\* The row a transaction is about: a decision inserts its successor first.
Target(c) == IF c.tool = "decide" THEN c.new ELSE c.id

\* The supersedes relation to the successor has been recorded.
Recorded(c) == c.new \in Ids /\ edges[<<c.new, c.id>>] # "never"

\* What the arguments of a call are, by how far it has come.
CallOK(p) ==
    LET c == call[p] IN
    /\ pc[p] = "check" =>
          /\ c.tool \in CheckTools
          /\ c.tool # "add" => c.id \in Ids
          /\ c.tool \in {"supersede", "link", "unlink"} => c.new \in Ids
    /\ pc[p] = "edge" =>
          /\ c.tool \in {"supersede", "link"}
          /\ c.id \in Ids /\ c.new \in Ids /\ c.id < nextId
    /\ pc[p] = "write" =>
          /\ c.tool \in WriteTools
          /\ c.tool # "insert" => c.id \in Ids /\ c.id < nextId
          /\ c.tool = "supersede" => Recorded(c)
    /\ pc[p] \in TxSteps =>
          /\ c.tool \in WriteTools
          /\ c.id \in Ids /\ c.id < nextId
          /\ Target(c) \in Ids /\ Target(c) < nextId
          /\ c.tool = "supersede" => Recorded(c)
          /\ c.tool = "reinforce" => pc[p] \in {"countEntry", "commit"}
    /\ pc[p] = "countEntry" => c.tool = "reinforce"
    /\ pc[p] \in MirrorSteps =>
          \/ todo[p] = <<Target(c)>>
          \/ c.tool = "supersede" /\ todo[p] \in {<<c.id, c.new>>, <<c.new>>}

CallsOK == \A p \in Pods : CallOK(p)

\* The pod's transaction has written, and so locked, the row.
Held(p, i) == ownL[p][i] # Same

\* The row has been deleted, and nobody is about to write it.
Gone(i) == i < nextId /\ legacy[i] = Absent /\ \A q \in Pods : ~Held(q, i)

FreshIds ==
    \A i \in Ids : i >= nextId =>
        /\ legacy[i] = Absent /\ log[i] = 0 /\ acked[i] = 0
        /\ i \notin DOMAIN Stored
        /\ \A p \in Pods : ~Held(p, i)

\* A transaction writes its target, if that is still there, and no other row;
\* no two write the same one.
Locks ==
    /\ \A p \in Pods, i \in Ids :
          Held(p, i) => pc[p] \in TxSteps /\ i = Target(call[p])
    /\ \A p, q \in Pods, i \in Ids : Held(p, i) /\ Held(q, i) => p = q
    /\ \A p \in Pods : pc[p] \in TxSteps =>
          Held(p, Target(call[p])) \/ Gone(Target(call[p]))

\* The relation of a superseded row has been recorded.
Explained(relation, row, i) ==
    row.status = "superseded" => row.by \in Ids /\ relation[<<row.by, i>>] # "never"

\* A row, committed or not, counts every increment that was acknowledged
\* (and the one of its own transaction) and is explained.
RowsOK ==
    /\ \A i \in Ids : legacy[i] # Absent =>
          /\ legacy[i].hits = StoredHits(i) + acked[i]
          /\ Explained(edges, legacy[i], i)
    /\ \A p \in Pods, i \in Ids : Held(p, i) =>
          /\ (ownL[p][i] = Absent) <=> (call[p].tool = "recall")
          /\ (legacy[i] = Absent) <=> (call[p].tool \in {"insert", "decide"})
          /\ ownL[p][i] # Absent /\ call[p].tool # "reinforce" =>
                ownL[p][i].hits = StoredHits(i) + acked[i]
          /\ ownL[p][i] # Absent => Explained(edges, ownL[p][i], i)
          /\ call[p].tool = "reinforce" => ownL[p][i] = [legacy[i] EXCEPT !.hits = @ + 1]

\* What the recall log names is gone for good, and no stored row goes unnamed.
Audit ==
    \A i \in Ids : /\ log[i] > 0 => Gone(i)
                   /\ i \in DOMAIN Stored /\ legacy[i] = Absent => log[i] > 0

Ledger == FreshIds /\ Locks /\ RowsOK /\ Audit

\* A boot runs beside no transaction, and one boot at a time fills entries.
Boots ==
    /\ \A p, q \in Pods : pc[p] \in BootSteps => pc[q] \notin TxSteps
    /\ \A p, q \in Pods :
          pc[p] \in {"versioned", "filled"} /\ pc[q] \in {"versioned", "filled"} => p = q
    /\ \A p \in Pods : pc[p] = "filled" =>
          \A i \in Ids : SeenEntry(p, i) = Projection(legacy[i])

\* A call writes the entries of its target and of the successor it names.
EntryWrites ==
    /\ \A p \in Pods, i \in Ids : ownE[p][i] # Same =>
          \/ pc[p] = "filled"
          \/ pc[p] \in TxSteps /\ i = Target(call[p])
          \/ pc[p] \in TxSteps /\ call[p].tool = "supersede" /\ i = call[p].new
    /\ \A p \in Pods, i \in Ids : pc[p] = "countEntry" => ownE[p][i] = Same

NoSuccessor(i) == \A old \in Ids : edges[<<i, old>>] = "never"

\* The transaction is still about its own row (and not about the successor).
AtFirst(p, t) == pc[p] \in MirrorSteps /\ Head(todo[p]) = t

\* How far the mirror of a row that no relation names as successor has come.
Mirroring(p, t) ==
    /\ AtFirst(p, t) /\ pc[p] \in {"lookup", "insertEntry", "updateEntry"} =>
          want[p] = Projection(SeenLegacy(p, t)) /\ SeenLegacy(p, t) # Absent
    /\ AtFirst(p, t) /\ pc[p] = "updateEntry" => SeenEntry(p, t) # Absent
    /\ AtFirst(p, t) /\ pc[p] = "dropEntry" => SeenLegacy(p, t) = Absent
    /\ /\ call[p].tool # "reinforce"
       /\ pc[p] = "commit" \/ (pc[p] \in MirrorSteps /\ ~AtFirst(p, t))
       => SeenEntry(p, t) = Projection(SeenLegacy(p, t))
    /\ call[p].tool = "reinforce" /\ pc[p] = "commit" =>
          /\ Agrees(t) => SeenEntry(p, t) = Projection(SeenLegacy(p, t))
          /\ SeenLegacy(p, t) = Absent => ownE[p][t] = Same

MirrorOK(p) ==
    pc[p] \in TxSteps /\ NoSuccessor(Target(call[p])) => Mirroring(p, Target(call[p]))
Mirrors == \A p \in Pods : MirrorOK(p)

IInv == TypeOK /\ CallsOK /\ Ledger /\ Boots /\ EntryWrites /\ Mirrors

----------------------------------------------------------------------------
(* Types: rows and calls.                                                  *)

LEMMA RowIsARow == Absent \notin Row /\ Same \notin Row /\ Absent # Same
BY ValueAssumption

LEMMA BoundIsNat == MaxId \in Nat /\ MaxCalls \in Nat /\ MaxCrashes \in Nat
BY EntriesBoundAssumption

LEMMA EntryIsARow ==
  ASSUME NEW row \in Row
  PROVE  ToEntry(row) \in Row
BY DEF ToEntry, Row, Facets

LEMMA ProjectionType ==
  ASSUME NEW row \in Row \cup {Absent}
  PROVE  /\ Projection(row) \in Row \cup {Absent}
         /\ Projection(row) = Absent <=> row = Absent
<1>1. CASE row = Absent
  BY <1>1 DEF Projection
<1>2. CASE row # Absent
  BY <1>2, EntryIsARow, RowIsARow DEF Projection
<1> QED
  BY <1>1, <1>2

\* The counter of a row and the counter of its entry change alike.
LEMMA EntryOfCounted ==
  ASSUME NEW row \in Row, NEW n \in Nat
  PROVE  ToEntry([row EXCEPT !.hits = n]) = [ToEntry(row) EXCEPT !.hits = n]
BY DEF ToEntry, Row

LEMMA NoCallType == NoCall \in Call
<1>1. (CHOOSE t \in Topics : TRUE) \in Topics /\ (CHOOSE t \in Texts : TRUE) \in Texts
  BY ContentAssumption
<1> DEFINE topic == CHOOSE t \in Topics : TRUE
           text == CHOOSE t \in Texts : TRUE
<1>2. topic \in Topics /\ text \in Texts
  BY <1>1
<1> HIDE DEF topic, text
<1>3. [tool |-> "none", id |-> 0, new |-> 0, topic |-> topic, text |-> text,
       facet |-> "null", pinned |-> FALSE] \in Call
  BY <1>2, BoundIsNat DEF Call, Tools, Facets
<1> QED
  BY <1>3 DEF NoCall, topic, text

\* The calls a pod begins with, and what they name.
LEMMA RequestType ==
  ASSUME NEW c \in Requests
  PROVE  /\ c \in Call /\ c.tool \in CheckTools
         /\ c.tool # "add" => c.id \in Ids
         /\ c.tool \in {"supersede", "link", "unlink"} => c.new \in Ids
<1>1. ASSUME NEW topic \in Topics, NEW text \in Texts, NEW facet \in {"empty", "set"}
      PROVE  Adding(topic, text, facet) \in Call /\ Adding(topic, text, facet).tool = "add"
  BY NoCallType DEF Adding, Facets, Call, Tools
<1>2. ASSUME NEW tool \in Tools, NEW old \in Ids, NEW new \in 0..MaxId
      PROVE  /\ Naming(tool, old, new) \in Call
             /\ Naming(tool, old, new).tool = tool
             /\ Naming(tool, old, new).id = old
             /\ Naming(tool, old, new).new = new
  <2>1. old \in 0..MaxId
    BY BoundIsNat DEF Ids
  <2> QED
    BY <2>1, NoCallType DEF Naming, Call
<1>3. ASSUME NEW i \in Ids, NEW b \in BOOLEAN
      PROVE  Pinning(i, b) \in Call /\ Pinning(i, b).tool = "pin" /\ Pinning(i, b).id = i
  <2>1. i \in 0..MaxId /\ "pin" \in Tools
    BY BoundIsNat DEF Ids, Tools
  <2> QED
    BY <2>1, NoCallType DEF Pinning, Call
<1>4. 0 \in 0..MaxId /\ Ids \subseteq 0..MaxId
  BY BoundIsNat DEF Ids
<1> QED
  BY <1>1, <1>2, <1>3, <1>4 DEF Requests, CheckTools, Tools

LEMMA ClaimType ==
  ASSUME NEW topic \in Topics, NEW text \in Texts
  PROVE  /\ [NoCall EXCEPT !.tool = "insert", !.topic = topic, !.text = text] \in Call
         /\ [NoCall EXCEPT !.tool = "insert", !.topic = topic,
                           !.text = text].tool = "insert"
BY NoCallType DEF Call, Tools

\* The rows the statements write.
LEMMA RowWrites ==
  ASSUME NEW row \in Row, NEW c \in Call
  PROVE  /\ [row EXCEPT !.text = c.text, !.facet = c.facet] \in Row
         /\ [row EXCEPT !.status = "superseded", !.by = c.new] \in Row
         /\ [row EXCEPT !.status = "active", !.by = 0] \in Row
         /\ [row EXCEPT !.pinned = c.pinned] \in Row
         /\ [row EXCEPT !.hits = @ + 1] \in Row
<1>1. row.hits + 1 \in Nat
  BY DEF Row
<1> DEFINE n == row.hits + 1
<1>2. [row EXCEPT !.hits = n] \in Row
  <2> HIDE DEF n
  <2> QED
    BY <1>1 DEF Row, n
<1>3. /\ c.text \in Texts /\ c.facet \in Facets /\ c.new \in 0..MaxId /\ 0 \in 0..MaxId
  BY BoundIsNat DEF Call
<1>4. [row EXCEPT !.text = c.text, !.facet = c.facet] \in Row
  BY <1>3 DEF Row
<1>5. [row EXCEPT !.status = "superseded", !.by = c.new] \in Row
  BY <1>3 DEF Row
<1>6. [row EXCEPT !.status = "active", !.by = 0] \in Row
  BY <1>3 DEF Row
<1>7. [row EXCEPT !.pinned = c.pinned] \in Row
  BY DEF Row, Call
<1> QED
  BY <1>2, <1>4, <1>5, <1>6, <1>7

LEMMA VisibleType ==
  ASSUME TypeOK, NEW p \in Pods, NEW i \in Ids
  PROVE  SeenLegacy(p, i) \in Row \cup {Absent} /\ SeenEntry(p, i) \in Row \cup {Absent}
BY DEF TypeOK, SeenLegacy, SeenEntry, Visible

LEMMA MergeType ==
  ASSUME NEW own \in [Ids -> Row \cup {Absent, Same}], NEW table \in [Ids -> Row \cup {Absent}]
  PROVE  /\ Merge(own, table) \in [Ids -> Row \cup {Absent}]
         /\ \A i \in Ids : Merge(own, table)[i] = Visible(own, table, i)
BY DEF Merge, Visible

LEMMA RepairType ==
  ASSUME TypeOK
  PROVE  /\ Repair \in [Ids -> Row \cup {Absent, Same}]
         /\ \A i \in Ids : Visible(Repair, entries, i) = Projection(legacy[i])
<1>1. \A i \in Ids : /\ legacy[i] # Absent => legacy[i] \in Row /\ ToEntry(legacy[i]) \in Row
                     /\ Projection(legacy[i]) \in Row \cup {Absent}
  BY EntryIsARow, ProjectionType DEF TypeOK
<1> QED
  BY <1>1, RowIsARow DEF Repair, Backfill, Reconcile, NeedsBackfill, Visible, Projection

----------------------------------------------------------------------------
(* Every step keeps the types.                                             *)

LEMMA TypeInit == Init => TypeOK
<1> SUFFICES ASSUME Init PROVE TypeOK
  OBVIOUS
<1>1. PICK n \in 0..MaxId : Stored \in [1..n -> Row]
  BY StoredAssumption
<1>2. n \in Nat /\ IsFiniteSet(1..n) /\ Cardinality(1..n) = n
  BY <1>1, BoundIsNat, FS_Interval
<1>3. Cardinality(DOMAIN Stored) + 1 \in Nat \ {0}
  BY <1>1, <1>2
<1>4. \A i \in Ids : StoredRow(i) \in Row \cup {Absent}
  BY <1>1 DEF StoredRow
<1>5. \A i \in Ids : Projection(StoredRow(i)) \in Row \cup {Absent}
  BY <1>4, ProjectionType
<1>6. legacy \in [Ids -> Row \cup {Absent}] /\ entries \in [Ids -> Row \cup {Absent}]
  BY <1>4, <1>5 DEF Init
<1>7. Unwritten \in [Ids -> Row \cup {Absent, Same}]
  BY DEF Unwritten
<1> QED
  BY <1>3, <1>6, <1>7, NoCallType, BoundIsNat DEF Init, TypeOK, EdgeState, PC

\* A mirrored list of ids, and what is left of it.
LEMMA TodoType ==
  ASSUME NEW s \in Seq(Ids), s # << >>
  PROVE  Head(s) \in Ids /\ Tail(s) \in Seq(Ids)
OBVIOUS

\* What a mutation of one row leaves well typed.
LEMMA MutateType ==
  ASSUME TypeOK, CallsOK, NEW p \in Pods, NEW tool \in WriteTools \ {"insert"}, NEW row,
         Mutate(p, tool, row), legacy[call[p].id] # Absent => row \in Row
  PROVE  TypeOK'
<1>1. call[p].id \in Ids /\ (tool = "supersede" => call[p].new \in Ids)
  BY DEF Mutate, Proceeds, CallsOK, CallOK, Recorded
<1>2. Mirrored(call[p]) \in Seq(Ids)
  <2>1. call[p].tool = tool
    BY DEF Mutate
  <2>2. tool = "supersede" => Mirrored(call[p]) = <<call[p].id, call[p].new>>
    BY <2>1 DEF Mirrored
  <2>3. tool # "supersede" => Mirrored(call[p]) = <<call[p].id>>
    BY <2>1 DEF Mirrored
  <2>4. \A i \in Ids : <<i>> \in Seq(Ids)
    OBVIOUS
  <2>5. \A i, j \in Ids : <<i, j>> \in Seq(Ids)
    OBVIOUS
  <2> QED
    BY <1>1, <2>2, <2>3, <2>4, <2>5
<1>3. ownL' \in [Pods -> [Ids -> Row \cup {Absent, Same}]]
  <2>1. ownL \in [Pods -> [Ids -> Row \cup {Absent, Same}]]
    BY DEF TypeOK
  <2>2. \/ ownL' = ownL
        \/ row \in Row /\ ownL' = [ownL EXCEPT ![p][call[p].id] = row]
    BY DEF Mutate, Exists, WriteLegacy
  <2> QED
    BY <1>1, <2>1, <2>2
<1>4. todo' \in [Pods -> Seq(Ids)]
  BY <1>2 DEF Mutate, TypeOK
<1>5. pc' \in [Pods -> PC]
  BY DEF Mutate, TypeOK, Goto, PC, TxSteps
<1>6. UNCHANGED <<tables, nextId, ownE, call, want, counts>>
  BY DEF Mutate
<1> QED
  BY <1>3, <1>4, <1>5, <1>6 DEF TypeOK, tables, counts

\* The id that is mirrored next, and those that are left.
LEMMA MirrorTodo ==
  ASSUME TypeOK, CallsOK, NEW p \in Pods, pc[p] \in MirrorSteps
  PROVE  /\ todo[p] # << >> /\ Current(p) \in Ids /\ Tail(todo[p]) \in Seq(Ids)
         /\ SeenLegacy(p, Current(p)) \in Row \cup {Absent}
         /\ SeenEntry(p, Current(p)) \in Row \cup {Absent}
<1>1. /\ todo[p] \in Seq(Ids)
      /\ \/ todo[p] = <<Target(call[p])>>
         \/ todo[p] = <<call[p].id, call[p].new>>
         \/ todo[p] = <<call[p].new>>
  BY DEF CallsOK, CallOK, TypeOK
<1>3. todo[p] # << >>
  <2>1. \A x, y : <<x>> # << >> /\ <<x, y>> # << >>
    OBVIOUS
  <2> QED
    BY <1>1, <2>1
<1>2. Current(p) \in Ids /\ Tail(todo[p]) \in Seq(Ids)
  BY <1>1, <1>3, TodoType DEF Current
<1> QED
  BY <1>2, <1>3, VisibleType

\* What the mirror's writes leave well typed.
LEMMA MirrorWriteType ==
  ASSUME TypeOK, CallsOK, NEW p \in Pods, pc[p] \in MirrorSteps, MirrorNext(p),
         NEW row \in Row \cup {Absent},
         ownE' = ownE \/ WriteEntry(p, Current(p), row),
         UNCHANGED <<tables, nextId, ownL, call, want, counts>>
  PROVE  TypeOK'
<1>1. /\ todo' = [todo EXCEPT ![p] = Tail(todo[p])]
      /\ pc' = [pc EXCEPT ![p] = IF Len(todo[p]) = 1 THEN "commit" ELSE "project"]
  BY DEF MirrorNext, Goto, TypeOK
<1>2. ownE' = ownE \/ ownE' = [ownE EXCEPT ![p][Current(p)] = row]
  BY DEF WriteEntry
<1>3. Current(p) \in Ids /\ Tail(todo[p]) \in Seq(Ids)
  BY MirrorTodo
<1>4. ownE' \in [Pods -> [Ids -> Row \cup {Absent, Same}]]
  <2>1. ownE \in [Pods -> [Ids -> Row \cup {Absent, Same}]]
    BY DEF TypeOK
  <2> QED
    BY <1>2, <1>3, <2>1
<1>5. pc' \in [Pods -> PC]
  BY <1>1 DEF TypeOK, PC, TxSteps
<1>6. todo' \in [Pods -> Seq(Ids)]
  BY <1>1, <1>3 DEF TypeOK
<1> QED
  BY <1>1, <1>4, <1>5, <1>6 DEF TypeOK, tables, counts

LEMMA ForgetType ==
  ASSUME TypeOK, NEW p \in Pods, Forget(p)
  PROVE  /\ ownL' \in [Pods -> [Ids -> Row \cup {Absent, Same}]]
         /\ ownE' \in [Pods -> [Ids -> Row \cup {Absent, Same}]]
         /\ todo' \in [Pods -> Seq(Ids)]
         /\ want' \in [Pods -> Row \cup {Absent}]
<1>1. Unwritten \in [Ids -> Row \cup {Absent, Same}] /\ << >> \in Seq(Ids)
  BY DEF Unwritten
<1> QED
  BY <1>1 DEF Forget, TypeOK

LEMMA TypeStep ==
  ASSUME TypeOK, CallsOK, [Next]_vars
  PROVE  TypeOK'
<1> USE BoundIsNat
<1>1. ASSUME NEW p \in Pods, NEW topic \in Topics, NEW text \in Texts,
             PostClaim(p, topic, text)
      PROVE  TypeOK'
  <2> DEFINE c == [NoCall EXCEPT !.tool = "insert", !.topic = topic, !.text = text]
  <2>1. c \in Call
    BY ClaimType
  <2>2. Begin(p, c) /\ Goto(p, "write")
    BY <1>1 DEF PostClaim
  <2> HIDE DEF c
  <2> QED
    BY <2>1, <2>2 DEF Begin, Goto, TypeOK, tables, PC
<1>2. ASSUME NEW p \in Pods, NEW c \in Requests, CallTool(p, c) PROVE TypeOK'
  <2>1. c \in Call
    BY RequestType
  <2> QED
    BY <1>2, <2>1 DEF CallTool, Begin, Goto, TypeOK, tables, PC
<1>3. ASSUME NEW p \in Pods, Boot(p) PROVE TypeOK'
  <2>1. CASE BootLock(p)
    BY <2>1 DEF BootLock, Goto, TypeOK, tables, counts, PC, BootSteps
  <2>2. CASE BootVersion(p)
    BY <2>2 DEF BootVersion, Goto, TypeOK, tables, counts, PC, BootSteps
  <2>3. CASE BootRepair(p)
    <3> HIDE DEF Repair
    <3> QED
      BY <2>3, RepairType DEF BootRepair, Goto, TypeOK, tables, counts, PC, BootSteps
  <2>4. CASE BootCommit(p)
    <3>1. Merge(ownE[p], entries) \in [Ids -> Row \cup {Absent}]
      BY MergeType DEF TypeOK
    <3>2. Unwritten \in [Ids -> Row \cup {Absent, Same}]
      BY DEF Unwritten
    <3> QED
      BY <2>4, <3>1, <3>2 DEF BootCommit, Goto, TypeOK, counts, PC
  <2> QED
    BY <1>3, <2>1, <2>2, <2>3, <2>4 DEF Boot
<1>4. ASSUME NEW p \in Pods, AddKnowledge(p) PROVE TypeOK'
  <2>1. call'[p] \in Call /\ call' = [call EXCEPT ![p] = call'[p]]
    <3>1. call[p] \in Call /\ Ids \subseteq 0..MaxId
      BY DEF TypeOK, Ids
    <3>2. [call[p] EXCEPT !.tool = "insert"] \in Call
      BY <3>1 DEF Call, Tools
    <3>3. \A i \in Ids : [call[p] EXCEPT !.tool = "update", !.id = i] \in Call
      BY <3>1 DEF Call, Tools
    <3>4. \/ \E i \in Ids : call' = [call EXCEPT ![p] = [call[p] EXCEPT !.tool = "update", !.id = i]]
          \/ call' = [call EXCEPT ![p] = [call[p] EXCEPT !.tool = "insert"]]
      BY <1>4 DEF AddKnowledge, TypeOK
    <3> QED
      BY <3>2, <3>3, <3>4 DEF TypeOK
  <2> QED
    BY <1>4, <2>1 DEF AddKnowledge, Goto, TypeOK, tables, counts, PC
<1>5. ASSUME NEW p \in Pods, Refuse(p) PROVE TypeOK'
  BY <1>5, NoCallType DEF Refuse, Finish, Goto, TypeOK, tables, counts, PC
<1>6. ASSUME NEW p \in Pods, Accept(p) PROVE TypeOK'
  <2>1. call' \in [Pods -> Call]
    <3>1. call[p].tool = "unsupersede" => legacy[call[p].id] \in Row
      BY <1>6 DEF Accept, Accepted, Exists, TypeOK, CallsOK, CallOK
    <3>2. ASSUME NEW n \in 0..MaxId PROVE [call[p] EXCEPT !.new = n] \in Call
      BY DEF TypeOK, Call
    <3> QED
      BY <1>6, <3>1, <3>2 DEF Accept, TypeOK, Row
  <2> QED
    BY <1>6, <2>1 DEF Accept, FirstStep, Goto, TypeOK, tables, counts, PC
<1>7. ASSUME NEW p \in Pods, InsertRelation(p) PROVE TypeOK'
  BY <1>7, NoCallType DEF InsertRelation, Proceeds, Finish, Goto, TypeOK, counts, PC, EdgeState
<1>8. ASSUME NEW p \in Pods, DeleteRelation(p) PROVE TypeOK'
  BY <1>8, NoCallType DEF DeleteRelation, Finish, Goto, TypeOK, counts, PC, EdgeState
<1>9. ASSUME NEW p \in Pods, InsertKnowledge(p) PROVE TypeOK'
  <2> DEFINE c == call[p]
             row == [topic |-> c.topic, text |-> c.text, pinned |-> FALSE,
                     facet |-> IF c.facet = "empty" THEN "null" ELSE c.facet,
                     status |-> "active", by |-> 0, hits |-> 0]
  <2>1. nextId \in Ids /\ nextId \in 0..MaxId /\ nextId' \in Nat \ {0} /\ c \in Call
    BY <1>9 DEF InsertKnowledge, TypeOK, Ids
  <2>2. row \in Row
    BY <2>1 DEF Call, Row, Facets
  <2>3. ownL' = [ownL EXCEPT ![p][nextId] = row]
    BY <1>9 DEF InsertKnowledge, WriteLegacy
  <2> HIDE DEF row
  <2>4. ownL' \in [Pods -> [Ids -> Row \cup {Absent, Same}]]
    BY <2>1, <2>2, <2>3 DEF TypeOK
  <2>5. call' \in [Pods -> Call]
    <3>1. [c EXCEPT !.new = nextId] \in Call /\ [c EXCEPT !.id = nextId] \in Call
      BY <2>1 DEF Call
    <3>2. \/ call' = [call EXCEPT ![p] = [c EXCEPT !.new = nextId]]
          \/ call' = [call EXCEPT ![p] = [c EXCEPT !.id = nextId]]
      BY <1>9 DEF InsertKnowledge, TypeOK
    <3> QED
      BY <3>1, <3>2 DEF TypeOK
  <2>6. <<nextId>> \in Seq(Ids)
    BY <2>1
  <2> QED
    BY <1>9, <2>1, <2>4, <2>5, <2>6 DEF InsertKnowledge, Goto, TypeOK, tables, counts, PC, TxSteps
<1>10. ASSUME NEW p \in Pods, UpdateKnowledge(p) PROVE TypeOK'
  <2> DEFINE row == [legacy[call[p].id] EXCEPT !.text = call[p].text,
                                                     !.facet = call[p].facet]
  <2>1. legacy[call[p].id] # Absent => row \in Row
    BY <1>10, RowWrites DEF UpdateKnowledge, Mutate, Proceeds, CallsOK, CallOK, TypeOK
  <2>2. Mutate(p, "update", row)
    BY <1>10 DEF UpdateKnowledge
  <2> HIDE DEF row
  <2> QED
    BY <2>1, <2>2, MutateType DEF WriteTools
<1>11. ASSUME NEW p \in Pods, SupersedeKnowledge(p) PROVE TypeOK'
  <2> DEFINE row == [legacy[call[p].id] EXCEPT !.status = "superseded",
                                                     !.by = call[p].new]
  <2>1. legacy[call[p].id] # Absent => row \in Row
    BY <1>11, RowWrites DEF SupersedeKnowledge, Mutate, Proceeds, CallsOK, CallOK, TypeOK
  <2>2. Mutate(p, "supersede", row)
    BY <1>11 DEF SupersedeKnowledge
  <2> HIDE DEF row
  <2> QED
    BY <2>1, <2>2, MutateType DEF WriteTools
<1>12. ASSUME NEW p \in Pods, UnsupersedeKnowledge(p) PROVE TypeOK'
  <2> DEFINE row == [legacy[call[p].id] EXCEPT !.status = "active",
                                                     !.by = 0]
  <2>1. legacy[call[p].id] # Absent => row \in Row
    BY <1>12, RowWrites DEF UnsupersedeKnowledge, Mutate, Proceeds, CallsOK, CallOK, TypeOK
  <2>2. Mutate(p, "unsupersede", row)
    BY <1>12 DEF UnsupersedeKnowledge
  <2> HIDE DEF row
  <2> QED
    BY <2>1, <2>2, MutateType DEF WriteTools
<1>13. ASSUME NEW p \in Pods, SetPinned(p) PROVE TypeOK'
  <2> DEFINE row == [legacy[call[p].id] EXCEPT !.pinned = call[p].pinned]
  <2>1. legacy[call[p].id] # Absent => row \in Row
    BY <1>13, RowWrites DEF SetPinned, Mutate, Proceeds, CallsOK, CallOK, TypeOK
  <2>2. Mutate(p, "pin", row)
    BY <1>13 DEF SetPinned
  <2> HIDE DEF row
  <2> QED
    BY <2>1, <2>2, MutateType DEF WriteTools
<1>14. ASSUME NEW p \in Pods, RecallEntry(p) PROVE TypeOK'
  <2>1. call[p].id \in Ids /\ <<call[p].id>> \in Seq(Ids)
    BY <1>14 DEF RecallEntry, Proceeds, CallsOK, CallOK
  <2>2. ownL' \in [Pods -> [Ids -> Row \cup {Absent, Same}]]
    <3>1. ownL \in [Pods -> [Ids -> Row \cup {Absent, Same}]]
      BY DEF TypeOK
    <3>2. ownL' = ownL \/ ownL' = [ownL EXCEPT ![p][call[p].id] = Absent]
      BY <1>14 DEF RecallEntry, WriteLegacy
    <3> QED
      BY <2>1, <3>1, <3>2
  <2>3. /\ todo' = [todo EXCEPT ![p] = <<call[p].id>>]
        /\ pc' = [pc EXCEPT ![p] = "dropEntry"]
        /\ UNCHANGED <<tables, nextId, ownE, call, want, counts>>
    BY <1>14 DEF RecallEntry, Goto
  <2>9. pc' \in [Pods -> PC]
    BY <2>1, <2>2, <2>3 DEF TypeOK, PC, TxSteps
  <2> QED
    BY <2>1, <2>2, <2>3, <2>9 DEF TypeOK, tables, counts
<1>15. ASSUME NEW p \in Pods, Increment(p) PROVE TypeOK'
  <2> DEFINE row == [legacy[call[p].id] EXCEPT !.hits = @ + 1]
  <2>1. call[p].id \in Ids /\ (legacy[call[p].id] # Absent => row \in Row)
    BY <1>15, RowWrites DEF Increment, Proceeds, CallsOK, CallOK, TypeOK
  <2>2. \/ ownL' = ownL
        \/ row \in Row /\ ownL' = [ownL EXCEPT ![p][call[p].id] = row]
    BY <1>15, <2>1 DEF Increment, WriteLegacy, Exists
  <2> HIDE DEF row
  <2>3. ownL' \in [Pods -> [Ids -> Row \cup {Absent, Same}]]
    <3>1. ownL \in [Pods -> [Ids -> Row \cup {Absent, Same}]]
      BY DEF TypeOK
    <3> QED
      BY <2>1, <2>2, <3>1
  <2>4. /\ pc' = [pc EXCEPT ![p] = "countEntry"]
        /\ UNCHANGED <<tables, nextId, ownE, call, todo, want, counts>>
    BY <1>15 DEF Increment, Goto
  <2>9. pc' \in [Pods -> PC]
    BY <2>3, <2>4 DEF TypeOK, PC, TxSteps
  <2> QED
    BY <2>3, <2>4, <2>9 DEF TypeOK, tables, counts
<1>16. ASSUME NEW p \in Pods, IncrementEntry(p) PROVE TypeOK'
  <2> DEFINE i == call[p].id
             row == [SeenEntry(p, i) EXCEPT !.hits = SeenLegacy(p, i).hits]
  <2>1. i \in Ids
    BY <1>16 DEF IncrementEntry, Proceeds, CallsOK, CallOK, TxSteps
  <2>2. /\ SeenLegacy(p, i) \in Row \cup {Absent}
        /\ SeenEntry(p, i) \in Row \cup {Absent}
    BY <2>1, VisibleType
  <2>3. SeenLegacy(p, i) # Absent /\ SeenEntry(p, i) # Absent => row \in Row
    BY <2>2 DEF Row
  <2>4. \/ ownE' = ownE
        \/ row \in Row /\ ownE' = [ownE EXCEPT ![p][i] = row]
    BY <1>16, <2>3 DEF IncrementEntry, WriteEntry
  <2>5. /\ pc' = [pc EXCEPT ![p] = "commit"]
        /\ UNCHANGED <<tables, nextId, ownL, call, todo, want, counts>>
    BY <1>16 DEF IncrementEntry, Goto
  <2> HIDE DEF row, i
  <2>6. ownE' \in [Pods -> [Ids -> Row \cup {Absent, Same}]]
    <3>1. ownE \in [Pods -> [Ids -> Row \cup {Absent, Same}]]
      BY DEF TypeOK
    <3> QED
      BY <2>1, <2>4, <3>1
  <2> QED
    BY <2>5, <2>6 DEF TypeOK, tables, counts, PC, TxSteps
<1>17. ASSUME NEW p \in Pods, Project(p) PROVE TypeOK'
  <2>1. SeenLegacy(p, Current(p)) \in Row \cup {Absent}
    BY <1>17, MirrorTodo DEF Project, MirrorSteps
  <2> DEFINE row == Projection(SeenLegacy(p, Current(p)))
             gone == SeenLegacy(p, Current(p)) = Absent
  <2>2. row \in Row \cup {Absent}
    BY <2>1, ProjectionType
  <2>3. /\ want' = [want EXCEPT ![p] = row]
        /\ pc' = [pc EXCEPT ![p] = IF gone THEN "dropEntry" ELSE "lookup"]
        /\ UNCHANGED <<tables, nextId, ownL, ownE, call, todo, counts>>
    BY <1>17 DEF Project, Goto
  <2> HIDE DEF row, gone
  <2>9. pc' \in [Pods -> PC]
    BY <2>2, <2>3 DEF TypeOK, PC, TxSteps
  <2> QED
    BY <2>2, <2>3, <2>9 DEF TypeOK, tables, counts
<1>18. ASSUME NEW p \in Pods, Lookup(p) PROVE TypeOK'
  <2>1. pc[p] \in MirrorSteps
    BY <1>18 DEF Lookup, MirrorSteps
  <2>2. CASE MirrorNext(p) /\ UNCHANGED <<tables, nextId, ownL, ownE, call, want, counts>>
    BY <2>1, <2>2, MirrorWriteType
  <2>3. CASE ~MirrorNext(p)
    BY <1>18, <2>3 DEF Lookup, Goto, TypeOK, tables, counts, PC, TxSteps
  <2> QED
    BY <1>18, <2>2, <2>3 DEF Lookup
<1>19. ASSUME NEW p \in Pods, InsertEntry(p) \/ UpdateEntry(p) PROVE TypeOK'
  BY <1>19, MirrorWriteType DEF InsertEntry, UpdateEntry, Proceeds, MirrorSteps, TypeOK
<1>20. ASSUME NEW p \in Pods, DeleteEntry(p) PROVE TypeOK'
  BY <1>20, MirrorWriteType DEF DeleteEntry, Proceeds, MirrorSteps
<1>21. ASSUME NEW p \in Pods, Commit(p) PROVE TypeOK'
  <2>1. call[p] \in Call /\ call[p].id \in Ids
    BY <1>21 DEF Commit, CallsOK, CallOK, TxSteps, TypeOK
  <2>2. legacy' \in [Ids -> Row \cup {Absent}] /\ entries' \in [Ids -> Row \cup {Absent}]
    BY <1>21, MergeType DEF Commit, TypeOK
  <2>3. log' \in [Ids -> Nat] /\ acked' \in [Ids -> Nat]
    BY SMTT(30), <1>21, <2>1 DEF Commit, TypeOK
  <2>4. call' \in [Pods -> Call]
    <3>1. [call[p] EXCEPT !.tool = "supersede"] \in Call
      BY <2>1 DEF Call, Tools
    <3>2. \/ call' = call \/ call' = [call EXCEPT ![p] = NoCall]
          \/ call' = [call EXCEPT ![p] = [call[p] EXCEPT !.tool = "supersede"]]
      BY <1>21 DEF Commit, Finish, TypeOK
    <3> QED
      BY <3>1, <3>2, NoCallType DEF TypeOK
  <2>5. pc' \in [Pods -> PC]
    BY <1>21 DEF Commit, Finish, Goto, TypeOK, PC
  <2>6. Forget(p) /\ UNCHANGED <<edges, nextId, calls, crashes>>
    BY <1>21 DEF Commit
  <2> QED
    BY <2>2, <2>3, <2>4, <2>5, <2>6, ForgetType DEF TypeOK
<1>22. ASSUME NEW p \in Pods, RollBack(p) \/ Crash(p) PROVE TypeOK'
  <2>1. /\ Forget(p) /\ call' = [call EXCEPT ![p] = NoCall]
        /\ pc' = [pc EXCEPT ![p] = "idle"] \/ pc' = [pc EXCEPT ![p] = "down"]
        /\ UNCHANGED <<tables, nextId, acked, calls>>
        /\ crashes' \in 0..MaxCrashes
    BY <1>22 DEF RollBack, Crash, Goto, counts, TypeOK
  <2> QED
    BY <2>1, NoCallType, ForgetType DEF TypeOK, tables, PC
<1>23. CASE UNCHANGED vars
  BY <1>23 DEF TypeOK, vars, tables, counts
<1> QED
  BY <1>1, <1>2, <1>3, <1>4, <1>5, <1>6, <1>7, <1>8, <1>9, <1>10, <1>11, <1>12, <1>13,
     <1>14, <1>15, <1>16, <1>17, <1>18, <1>19, <1>20, <1>21, <1>22, <1>23 DEF Next, Statement

----------------------------------------------------------------------------
(* What a step of one pod leaves alone.                                    *)

\* The calls and the transactions of the other pods stay as they are.
Alone(p) ==
    \A q \in Pods \ {p} :
        /\ pc'[q] = pc[q] /\ call'[q] = call[q]
        /\ todo'[q] = todo[q] /\ want'[q] = want[q]
        /\ ownL'[q] = ownL[q] /\ ownE'[q] = ownE[q]

\* A relation that has been recorded is never forgotten.
EdgesGrow == \A e \in Ids \X Ids : edges[e] # "never" => edges'[e] # "never"

Frame(p) == Alone(p) /\ EdgesGrow /\ nextId <= nextId'

Step(p) ==
    \/ \E topic \in Topics, text \in Texts : PostClaim(p, topic, text)
    \/ \E c \in Requests : CallTool(p, c)
    \/ Boot(p) \/ Statement(p) \/ Crash(p)

LEMMA MutateFrame ==
  ASSUME TypeOK, NEW p \in Pods, NEW tool, NEW row, Mutate(p, tool, row)
  PROVE  Frame(p)
<1>1. ownL' = ownL \/ ownL' = [ownL EXCEPT ![p][call[p].id] = row]
  BY DEF Mutate, WriteLegacy
<1>2. /\ pc' = [pc EXCEPT ![p] = "project"]
      /\ todo' = [todo EXCEPT ![p] = Mirrored(call[p])]
      /\ UNCHANGED <<tables, nextId, ownE, call, want, counts>>
  BY DEF Mutate, Goto
<1> QED
  BY <1>1, <1>2 DEF TypeOK, Frame, Alone, EdgesGrow, tables

LEMMA FrameStep ==
  ASSUME TypeOK, CallsOK, NEW p \in Pods, Step(p)
  PROVE  Frame(p)
<1> USE DEF Frame, Alone, EdgesGrow, TypeOK, Goto, tables
<1>1. ASSUME NEW topic, NEW text, PostClaim(p, topic, text) PROVE Frame(p)
  BY <1>1 DEF PostClaim, Begin
<1>2. ASSUME NEW c, CallTool(p, c) PROVE Frame(p)
  BY <1>2 DEF CallTool, Begin
<1>3. CASE BootLock(p) \/ BootVersion(p)
  BY <1>3 DEF BootLock, BootVersion
<1>4. CASE BootRepair(p) \/ BootCommit(p)
  BY <1>4 DEF BootRepair, BootCommit
<1>5. CASE AddKnowledge(p)
  <2>1. /\ call' = [call EXCEPT ![p] = call'[p]]
        /\ pc' = [pc EXCEPT ![p] = "write"]
        /\ UNCHANGED <<tables, nextId, ownL, ownE, todo, want, counts>>
    BY <1>5 DEF AddKnowledge
  <2> QED
    BY <2>1
<1>6. CASE Refuse(p) \/ Accept(p)
  BY <1>6 DEF Refuse, Accept, Finish
<1>7. CASE InsertRelation(p)
  BY <1>7 DEF InsertRelation, Finish
<1>8. CASE DeleteRelation(p)
  <2> DEFINE x == <<call[p].new, call[p].id>>
             y == IF edges[x] = "there" THEN "deleted" ELSE edges[x]
  <2>1. y = "never" <=> edges[x] = "never"
    OBVIOUS
  <2>2. edges' = edges \/ edges' = [edges EXCEPT ![x] = y]
    BY <1>8 DEF DeleteRelation
  <2>3. UNCHANGED <<nextId, ownL, ownE, todo, want>> /\ call' = [call EXCEPT ![p] = NoCall]
        /\ pc' = [pc EXCEPT ![p] = "idle"]
    BY <1>8 DEF DeleteRelation, Finish
  <2> HIDE DEF x, y
  <2>4. EdgesGrow
    BY <2>1, <2>2
  <2> QED
    BY <2>3, <2>4
<1>9. CASE InsertKnowledge(p)
  <2>1. /\ \E row : ownL' = [ownL EXCEPT ![p][nextId] = row]
        /\ call' = [call EXCEPT ![p] = call'[p]]
        /\ todo' = [todo EXCEPT ![p] = <<nextId>>]
        /\ pc' = [pc EXCEPT ![p] = "project"]
        /\ nextId' = nextId + 1
        /\ UNCHANGED <<tables, ownE, want, counts>>
    BY <1>9 DEF InsertKnowledge, WriteLegacy
  <2> QED
    BY <2>1
<1>10. CASE UpdateKnowledge(p) \/ SupersedeKnowledge(p) \/ UnsupersedeKnowledge(p) \/ SetPinned(p)
  BY <1>10, MutateFrame DEF UpdateKnowledge, SupersedeKnowledge, UnsupersedeKnowledge, SetPinned
<1>11. CASE RecallEntry(p)
  <2>1. /\ ownL' = ownL \/ ownL' = [ownL EXCEPT ![p][call[p].id] = Absent]
        /\ todo' = [todo EXCEPT ![p] = <<call[p].id>>]
        /\ pc' = [pc EXCEPT ![p] = "dropEntry"]
        /\ UNCHANGED <<tables, nextId, ownE, call, want, counts>>
    BY <1>11 DEF RecallEntry, WriteLegacy
  <2> QED
    BY <2>1
<1>12. CASE Increment(p)
  <2>1. /\ ownL' = ownL \/ \E row : ownL' = [ownL EXCEPT ![p][call[p].id] = row]
        /\ pc' = [pc EXCEPT ![p] = "countEntry"]
        /\ UNCHANGED <<tables, nextId, ownE, call, todo, want, counts>>
    BY <1>12 DEF Increment, WriteLegacy
  <2> QED
    BY <2>1
<1>13. CASE IncrementEntry(p)
  <2>1. /\ ownE' = ownE \/ \E row : ownE' = [ownE EXCEPT ![p][call[p].id] = row]
        /\ pc' = [pc EXCEPT ![p] = "commit"]
        /\ UNCHANGED <<tables, nextId, ownL, call, todo, want, counts>>
    BY <1>13 DEF IncrementEntry, WriteEntry
  <2> QED
    BY <2>1
<1>14. CASE Project(p)
  BY <1>14 DEF Project
<1>15. CASE Lookup(p)
  BY <1>15 DEF Lookup, MirrorNext
<1>16. CASE InsertEntry(p) \/ UpdateEntry(p) \/ DeleteEntry(p)
  <2>1. /\ ownE' = ownE \/ \E row : ownE' = [ownE EXCEPT ![p][Current(p)] = row]
        /\ MirrorNext(p)
        /\ UNCHANGED <<tables, nextId, ownL, call, want, counts>>
    BY <1>16 DEF InsertEntry, UpdateEntry, DeleteEntry, WriteEntry
  <2> QED
    BY <2>1 DEF MirrorNext
<1>17. CASE Commit(p)
  <2>1. /\ \/ call' = call \/ call' = [call EXCEPT ![p] = NoCall]
           \/ call' = [call EXCEPT ![p] = [call[p] EXCEPT !.tool = "supersede"]]
        /\ pc' = [pc EXCEPT ![p] = pc'[p]]
        /\ Forget(p) /\ UNCHANGED <<edges, nextId, calls, crashes>>
    BY <1>17 DEF Commit, Finish
  <2> QED
    BY <2>1 DEF Forget
<1>18. CASE RollBack(p) \/ Crash(p)
  <2>1. /\ Forget(p) /\ call' = [call EXCEPT ![p] = NoCall]
        /\ pc' = [pc EXCEPT ![p] = "idle"] \/ pc' = [pc EXCEPT ![p] = "down"]
        /\ UNCHANGED <<tables, nextId>>
    BY <1>18 DEF RollBack, Crash
  <2> QED
    BY <2>1 DEF Forget
<1> HIDE DEF Frame
<1>19. CASE Boot(p)
  BY <1>3, <1>4, <1>19 DEF Boot
<1>20. CASE Statement(p)
  BY <1>5, <1>6, <1>7, <1>8, <1>9, <1>10, <1>11, <1>12, <1>13, <1>14, <1>15, <1>16,
     <1>17, <1>18, <1>20, Zenon DEF Statement
<1> QED
  BY <1>1, <1>2, <1>18, <1>19, <1>20, Zenon DEF Step

----------------------------------------------------------------------------
(* Every step keeps the arguments of the calls in order.                   *)

\* A row that exists has been inserted.
LEMMA ExistsOld ==
  ASSUME TypeOK, FreshIds, NEW i \in Ids, Exists(i)
  PROVE  i < nextId
BY BoundIsNat DEF TypeOK, FreshIds, Exists, Ids

LEMMA CallOthers ==
  ASSUME TypeOK, TypeOK', CallsOK, NEW p \in Pods, Frame(p), NEW q \in Pods \ {p}
  PROVE  CallOK(q)'
<1>1. CallOK(q)
  BY DEF CallsOK
<1>2. pc'[q] = pc[q] /\ call'[q] = call[q] /\ todo'[q] = todo[q] /\ nextId <= nextId'
  BY DEF Frame, Alone
<1>3. \A i \in Ids : i < nextId => i < nextId'
  BY <1>2, BoundIsNat DEF TypeOK, Ids
<1>4. ASSUME Recorded(call[q]), call[q].id \in Ids PROVE Recorded(call[q])'
  <2>1. call[q].new \in Ids /\ edges[<<call[q].new, call[q].id>>] # "never"
    BY <1>4 DEF Recorded
  <2>2. <<call[q].new, call[q].id>> \in Ids \X Ids
    BY <1>4, <2>1
  <2> QED
    BY <1>2, <2>1, <2>2 DEF Frame, EdgesGrow, Recorded
<1> QED
  BY <1>1, <1>2, <1>3, <1>4 DEF CallOK, Target

\* The call of a pod outside a transaction.
LEMMA CallPlain ==
  ASSUME NEW p \in Pods, pc'[p] \in {"down", "idle", "unlink"} \cup BootSteps
  PROVE  CallOK(p)'
BY DEF CallOK, BootSteps, TxSteps, MirrorSteps

\* The call of a pod that has just written the row it is about.
LEMMA CallWritten ==
  ASSUME TypeOK, CallsOK, NEW p \in Pods, pc[p] = "write", pc'[p] = "project",
         call' = call, edges' = edges, nextId' = nextId,
         call[p].tool \notin {"insert", "decide", "reinforce"}, todo'[p] = Mirrored(call[p])
  PROVE  CallOK(p)'
<1>1. CallOK(p)
  BY DEF CallsOK
<1>2. todo'[p] = IF call[p].tool = "supersede" THEN <<call[p].id, call[p].new>> ELSE <<call[p].id>>
  BY DEF Mirrored
<1> QED
  BY <1>1, <1>2 DEF CallOK, TxSteps, MirrorSteps, Target, Recorded

\* The call of a pod that goes on to the next id to mirror.
LEMMA CallMirror ==
  ASSUME TypeOK, CallsOK, NEW p \in Pods, pc[p] \in MirrorSteps, MirrorNext(p),
         call' = call, edges' = edges, nextId' = nextId
  PROVE  CallOK(p)'
<1>1. CallOK(p)
  BY DEF CallsOK
<1>2. /\ pc'[p] = IF Len(todo[p]) = 1 THEN "commit" ELSE "project"
      /\ todo'[p] = Tail(todo[p])
  BY DEF MirrorNext, Goto, TypeOK
<1>3. pc[p] \in TxSteps /\ pc[p] # "countEntry" /\ pc[p] # "commit"
  BY DEF MirrorSteps, TxSteps
<1>4. CASE todo[p] = <<Target(call[p])>> \/ todo[p] = <<call[p].new>>
  <2>1. pc'[p] = "commit"
    BY <1>2, <1>4
  <2> QED
    BY <1>1, <1>3, <2>1 DEF CallOK, TxSteps, MirrorSteps, Target, Recorded
<1>5. CASE call[p].tool = "supersede" /\ todo[p] = <<call[p].id, call[p].new>>
  <2>1. pc'[p] = "project" /\ todo'[p] = <<call[p].new>>
    BY <1>2, <1>5
  <2> QED
    BY <1>1, <1>3, <1>5, <2>1 DEF CallOK, TxSteps, MirrorSteps, Target, Recorded
<1> QED
  BY <1>1, <1>3, <1>4, <1>5 DEF CallOK

\* The call of a pod that stays with the same id.
LEMMA CallStays ==
  ASSUME TypeOK, CallsOK, NEW p \in Pods, pc[p] \in MirrorSteps, pc'[p] \in MirrorSteps,
         todo' = todo, call' = call, edges' = edges, nextId' = nextId
  PROVE  CallOK(p)'
<1>1. CallOK(p) /\ pc'[p] \in TxSteps /\ pc'[p] \notin {"countEntry", "commit"} /\ pc[p] \in TxSteps
      /\ pc[p] \notin {"countEntry", "commit"}
  BY DEF CallsOK, MirrorSteps, TxSteps
<1> QED
  BY <1>1 DEF CallOK, TxSteps, MirrorSteps, Target, Recorded

LEMMA CallsStep ==
  ASSUME TypeOK, TypeOK', CallsOK, FreshIds, NEW p \in Pods, Step(p)
  PROVE  CallsOK'
<1>0. Frame(p) /\ CallOK(p)
  BY FrameStep DEF CallsOK
<1>s. SUFFICES CallOK(p)'
  BY <1>0, CallOthers DEF CallsOK
<1> USE BoundIsNat DEF Goto
<1>1. ASSUME NEW topic \in Topics, NEW text \in Texts, PostClaim(p, topic, text)
      PROVE  CallOK(p)'
  <2>1. call'[p].tool = "insert" /\ pc'[p] = "write"
    BY <1>1, ClaimType DEF PostClaim, Begin, TypeOK
  <2> QED
    BY <2>1 DEF CallOK, TxSteps, MirrorSteps, WriteTools
<1>2. ASSUME NEW c \in Requests, CallTool(p, c) PROVE CallOK(p)'
  <2>1. call'[p] = c /\ pc'[p] = "check"
    BY <1>2 DEF CallTool, Begin, TypeOK
  <2> QED
    BY <2>1, RequestType DEF CallOK, TxSteps, MirrorSteps
<1>3. CASE Boot(p) \/ Refuse(p) \/ DeleteRelation(p) \/ RollBack(p) \/ Crash(p)
  <2>1. pc'[p] \in {"down", "idle", "unlink"} \cup BootSteps
    BY <1>3 DEF Boot, BootLock, BootVersion, BootRepair, BootCommit, Refuse, DeleteRelation,
       RollBack, Crash, Finish, TypeOK, BootSteps
  <2> QED
    BY <2>1, CallPlain
<1>4. CASE AddKnowledge(p)
  <2>1. /\ pc'[p] = "write"
        /\ \/ call'[p].tool = "insert"
           \/ call'[p].tool = "update" /\ call'[p].id \in Ids /\ Exists(call'[p].id)
    <3>1. /\ call[p] \in Call
          /\ pc'[p] = "write"
          /\ \/ \E i \in Ids : Exists(i) /\
                   call'[p] = [call[p] EXCEPT !.tool = "update", !.id = i]
             \/ call'[p] = [call[p] EXCEPT !.tool = "insert"]
      BY <1>4 DEF AddKnowledge, TypeOK
    <3> QED
      BY <3>1 DEF Call
  <2>2. nextId' = nextId
    BY <1>4 DEF AddKnowledge
  <2> QED
    BY <2>1, <2>2, ExistsOld DEF CallOK, TxSteps, MirrorSteps, WriteTools
<1>5. CASE Accept(p)
  <2> DEFINE c == call[p]
  <2>1. /\ pc[p] = "check" /\ c.tool # "add" /\ Accepted(c) /\ c \in Call
        /\ pc'[p] = FirstStep(c.tool)
        /\ call'[p] = c \/ call'[p] = [c EXCEPT !.new = legacy[c.id].by]
        /\ c.tool # "unsupersede" => call'[p] = c
        /\ UNCHANGED <<edges, nextId>>
    BY <1>5 DEF Accept, TypeOK, tables
  <2>2. /\ call'[p].tool = c.tool /\ call'[p].id = c.id
        /\ c.tool # "unsupersede" => call'[p].new = c.new
    BY <2>1 DEF Call
  <2>3. c.tool # "unlink" => c.id < nextId
    BY <1>0, <2>1, ExistsOld DEF Accepted, CallOK
  <2> QED
    BY <1>0, <2>1, <2>2, <2>3
       DEF CallOK, TxSteps, MirrorSteps, WriteTools, CheckTools, FirstStep
<1>6. CASE InsertRelation(p)
  <2>1. /\ pc[p] = "edge" /\ nextId' = nextId
        /\ edges' = [edges EXCEPT ![<<call[p].new, call[p].id>>] = "there"]
        /\ \/ pc'[p] = "idle"
           \/ pc'[p] = "write" /\ call' = call /\ call[p].tool # "link"
    BY <1>6 DEF InsertRelation, Proceeds, Finish, TypeOK
  <2>2. call[p].id \in Ids /\ call[p].new \in Ids /\ call[p].tool \in {"supersede", "link"}
    BY <1>0, <2>1 DEF CallOK
  <2>3. edges'[<<call[p].new, call[p].id>>] = "there"
    BY <2>1, <2>2 DEF TypeOK
  <2> QED
    BY <1>0, <2>1, <2>2, <2>3 DEF CallOK, TxSteps, MirrorSteps, WriteTools, Recorded
<1>7. CASE InsertKnowledge(p)
  <2>1. /\ pc'[p] = "project" /\ todo'[p] = <<nextId>> /\ nextId' = nextId + 1
        /\ nextId \in Ids /\ call[p].tool \in {"insert", "decide"} /\ call[p] \in Call
        /\ IF call[p].tool = "decide" THEN call'[p] = [call[p] EXCEPT !.new = nextId]
                                      ELSE call'[p] = [call[p] EXCEPT !.id = nextId]
    BY <1>7 DEF InsertKnowledge, TypeOK, Ids
  <2>2. call'[p].tool = call[p].tool /\ Target(call'[p]) = nextId
        /\ call'[p].id \in {call[p].id, nextId} /\ (call[p].tool # "decide" => call'[p].id = nextId)
    BY <2>1 DEF Call, Target
  <2>3. pc[p] = "write" /\ (call[p].tool = "decide" => call[p].id \in Ids /\ call[p].id < nextId)
    BY <1>0, <1>7 DEF InsertKnowledge, Proceeds, CallOK
  <2>4. nextId < nextId' /\ \A i \in Ids : i < nextId => i < nextId'
    BY <2>1 DEF Ids
  <2> QED
    BY <2>1, <2>2, <2>3, <2>4 DEF CallOK, TxSteps, MirrorSteps, WriteTools
<1>8. CASE UpdateKnowledge(p) \/ SupersedeKnowledge(p) \/ UnsupersedeKnowledge(p) \/ SetPinned(p)
  <2>1. PICK tool, row : tool \in {"update", "supersede", "unsupersede", "pin"} /\ Mutate(p, tool, row)
    BY <1>8 DEF UpdateKnowledge, SupersedeKnowledge, UnsupersedeKnowledge, SetPinned
  <2>2. /\ pc[p] = "write" /\ pc'[p] = "project" /\ todo'[p] = Mirrored(call[p])
        /\ call' = call /\ edges' = edges /\ nextId' = nextId
        /\ call[p].tool = tool
    BY <2>1 DEF Mutate, Proceeds, TypeOK, tables
  <2> QED
    BY <2>1, <2>2, CallWritten
<1>9. CASE RecallEntry(p) \/ Increment(p)
  <2>1. /\ pc[p] = "write" /\ call' = call /\ edges' = edges /\ nextId' = nextId
        /\ \/ pc'[p] = "dropEntry" /\ todo'[p] = <<call[p].id>> /\ call[p].tool = "recall"
           \/ pc'[p] = "countEntry" /\ call[p].tool = "reinforce"
    BY <1>9 DEF RecallEntry, Increment, Proceeds, TypeOK, tables
  <2> QED
    BY <1>0, <2>1 DEF CallOK, TxSteps, MirrorSteps, Target
<1>10. CASE IncrementEntry(p)
  <2>1. /\ pc[p] = "countEntry" /\ call' = call /\ edges' = edges /\ nextId' = nextId
        /\ pc'[p] = "commit"
    BY <1>10 DEF IncrementEntry, Proceeds, TypeOK, tables
  <2> QED
    BY <1>0, <2>1 DEF CallOK, TxSteps, MirrorSteps, Target
<1>11. CASE Project(p)
  <2>1. /\ pc[p] \in MirrorSteps /\ pc'[p] \in MirrorSteps
        /\ UNCHANGED <<todo, call, edges, nextId>>
    BY <1>11 DEF Project, TypeOK, tables, MirrorSteps
  <2> QED
    BY <2>1, CallStays
<1>12. CASE Lookup(p) \/ InsertEntry(p) \/ UpdateEntry(p) \/ DeleteEntry(p)
  <2>1. /\ pc[p] \in MirrorSteps
        /\ UNCHANGED <<call, edges, nextId>>
        /\ MirrorNext(p) \/ (pc'[p] \in MirrorSteps /\ todo' = todo)
    BY <1>12 DEF Lookup, InsertEntry, UpdateEntry, DeleteEntry, Proceeds, TypeOK, tables, MirrorSteps
  <2> QED
    BY <2>1, CallStays, CallMirror
<1>13. CASE Commit(p)
  <2>1. /\ pc[p] = "commit" /\ edges' = edges /\ nextId' = nextId /\ call[p] \in Call
        /\ \/ pc'[p] \in {"unlink", "idle"}
           \/ /\ pc'[p] = "edge" /\ call[p].tool = "decide"
              /\ call'[p] = [call[p] EXCEPT !.tool = "supersede"]
    BY <1>13 DEF Commit, Finish, TypeOK
  <2>2. CASE pc'[p] = "edge"
    <3>1. /\ call'[p].tool = "supersede" /\ call'[p].id = call[p].id /\ call'[p].new = call[p].new
          /\ call[p].id \in Ids /\ call[p].id < nextId /\ call[p].new \in Ids
      BY <1>0, <2>1, <2>2 DEF Call, CallOK, TxSteps, Target
    <3> QED
      BY <2>1, <2>2, <3>1 DEF CallOK, TxSteps, MirrorSteps
  <2> QED
    BY <2>1, <2>2, CallPlain
<1> HIDE DEF Goto
<1>20. CASE Statement(p)
  BY <1>3, <1>4, <1>5, <1>6, <1>7, <1>8, <1>9, <1>10, <1>11, <1>12, <1>13, <1>20, Zenon
     DEF Statement
<1> QED
  BY <1>1, <1>2, <1>3, <1>20, Zenon DEF Step

----------------------------------------------------------------------------
(* The ledger: the rows, their counters and the recall log.                *)

LEMMA ExplainedGrows ==
  ASSUME EdgesGrow, NEW row, NEW i \in Ids, Explained(edges, row, i)
  PROVE  Explained(edges', row, i)
<1>1. row.status = "superseded" => <<row.by, i>> \in Ids \X Ids
  BY DEF Explained
<1> QED
  BY <1>1 DEF Explained, EdgesGrow

\* A step that neither begins nor ends a transaction and writes no row, and one
\* that begins a transaction about a row that is gone.
LEMMA LedgerKept ==
  ASSUME TypeOK, TypeOK', Ledger, NEW p \in Pods, Frame(p),
         UNCHANGED <<legacy, log, nextId, acked, ownL>>,
         \/ pc[p] \notin TxSteps /\ pc'[p] \notin TxSteps
         \/ pc[p] \in TxSteps /\ pc'[p] \in TxSteps /\ call'[p] = call[p]
         \/ pc[p] \notin TxSteps /\ call'[p] = call[p] /\ Gone(Target(call[p]))
  PROVE  Ledger'
<1>1. \A q \in Pods : \A i : Held(q, i)' <=> Held(q, i)
  BY DEF Held
<1>2. \A i : Gone(i)' <=> Gone(i)
  BY <1>1 DEF Gone
<1>3. \A q \in Pods :
         /\ pc[q] \in TxSteps => pc'[q] \in TxSteps /\ call'[q] = call[q]
         /\ pc'[q] \in TxSteps => \/ pc[q] \in TxSteps
                                  \/ call'[q] = call[q] /\ Gone(Target(call[q]))
  BY DEF Frame, Alone
<1>4. \A q \in Pods, i \in Ids : Held(q, i) => pc[q] \in TxSteps
  BY DEF Ledger, Locks
<1>5. FreshIds'
  BY <1>1 DEF Ledger, FreshIds
<1>6. Locks'
  <2>1. \A q \in Pods : pc'[q] \in TxSteps =>
           /\ Target(call[q])' = Target(call[q]) /\ call'[q] = call[q]
           /\ Held(q, Target(call[q])) \/ Gone(Target(call[q]))
    <3>1. \A q \in Pods : pc[q] \in TxSteps => Held(q, Target(call[q])) \/ Gone(Target(call[q]))
      BY DEF Ledger, Locks
    <3> QED
      BY <1>3, <3>1 DEF Target
  <2> QED
    BY <1>1, <1>2, <1>3, <1>4, <2>1 DEF Ledger, Locks
<1>7. RowsOK'
  <2>1. \A i \in Ids : legacy[i] # Absent => Explained(edges', legacy[i], i)
    BY ExplainedGrows DEF Frame, Ledger, RowsOK
  <2>2. \A q \in Pods, i \in Ids : Held(q, i) /\ ownL[q][i] # Absent => Explained(edges', ownL[q][i], i)
    BY ExplainedGrows DEF Frame, Ledger, RowsOK
  <2>3. \A q \in Pods, i \in Ids : Held(q, i) => call'[q] = call[q]
    BY <1>3, <1>4
  <2> QED
    BY <1>1, <2>1, <2>2, <2>3 DEF Ledger, RowsOK
<1>8. Audit'
  BY <1>2 DEF Ledger, Audit
<1> QED
  BY <1>5, <1>6, <1>7, <1>8 DEF Ledger

\* A transaction that ends without a commit.
LEMMA LedgerAborted ==
  ASSUME TypeOK, TypeOK', CallsOK, Ledger, NEW p \in Pods, Frame(p),
         UNCHANGED <<legacy, log, nextId, acked>>,
         ownL' = [ownL EXCEPT ![p] = Unwritten], pc'[p] \notin TxSteps
  PROVE  Ledger'
<1>1. \A q \in Pods : \A i \in Ids : Held(q, i)' <=> q # p /\ Held(q, i)
  BY DEF Held, TypeOK, Unwritten
<1>2. \A i \in Ids : Gone(i) => Gone(i)'
  BY <1>1 DEF Gone
<1>3. \A q \in Pods \ {p} : pc'[q] = pc[q] /\ call'[q] = call[q] /\ ownL'[q] = ownL[q]
  BY DEF Frame, Alone
<1>5. FreshIds'
  BY <1>1 DEF Ledger, FreshIds
<1>6. Locks'
  <2>1. \A q \in Pods, i \in Ids : Held(q, i)' => pc'[q] \in TxSteps /\ i = Target(call'[q])
    BY <1>1, <1>3 DEF Ledger, Locks
  <2>2. ASSUME NEW q \in Pods, pc'[q] \in TxSteps
        PROVE  Held(q, Target(call[q]))' \/ Gone(Target(call[q]))'
    <3>1. q # p /\ pc[q] \in TxSteps /\ call'[q] = call[q]
      BY <1>3, <2>2
    <3>2. PICK i \in Ids : i = Target(call[q])
      BY <3>1 DEF CallsOK, CallOK
    <3>3. i = Target(call[q])'
      BY <3>1, <3>2 DEF Target
    <3>5. Held(q, i) \/ Gone(i)
      BY <3>1, <3>2 DEF Ledger, Locks
    <3>4. Held(q, i)' \/ Gone(i)'
      BY <1>1, <1>2, <3>1, <3>5
    <3> QED
      BY <3>3, <3>4 DEF Held, Gone
  <2> QED
    BY <1>1, <2>1, <2>2 DEF Ledger, Locks
<1>7. RowsOK'
  <2>1. \A i \in Ids : legacy[i] # Absent => Explained(edges', legacy[i], i)
    BY ExplainedGrows DEF Frame, Ledger, RowsOK
  <2>2. \A q \in Pods, i \in Ids : Held(q, i) /\ ownL[q][i] # Absent => Explained(edges', ownL[q][i], i)
    BY ExplainedGrows DEF Frame, Ledger, RowsOK
  <2> QED
    BY <1>1, <1>3, <2>1, <2>2 DEF Ledger, RowsOK
<1>8. Audit'
  BY <1>2 DEF Ledger, Audit
<1> QED
  BY <1>5, <1>6, <1>7, <1>8 DEF Ledger

\* A transaction that begins and writes the row it is about.
LEMMA LedgerWritten ==
  ASSUME TypeOK, TypeOK', CallsOK, Ledger, NEW p \in Pods, Frame(p),
         UNCHANGED <<legacy, log, edges, acked>>,
         pc[p] = "write", pc'[p] \in TxSteps, call'[p].tool = call[p].tool,
         NEW i \in Ids, Target(call'[p]) = i, i < nextId',
         \A j \in Ids : j >= nextId' => j >= nextId,
         legacy[i] # Absent \/ i = nextId,
         \A q \in Pods : ~Held(q, i),
         NEW row \in Row \cup {Absent}, ownL' = [ownL EXCEPT ![p][i] = row],
         row = Absent <=> call[p].tool = "recall",
         legacy[i] = Absent <=> call[p].tool \in {"insert", "decide"},
         row # Absent /\ call[p].tool # "reinforce" => row.hits = StoredHits(i) + acked[i],
         row # Absent => Explained(edges, row, i),
         call[p].tool = "reinforce" => row = [legacy[i] EXCEPT !.hits = @ + 1]
  PROVE  Ledger'
<1>0. /\ row # Same
      /\ \A q \in Pods \ {p} : pc'[q] = pc[q] /\ call'[q] = call[q] /\ ownL'[q] = ownL[q]
  BY RowIsARow DEF Frame, Alone
<1>1. /\ ownL'[p][i] = row
      /\ \A q \in Pods, j \in Ids : q # p \/ j # i => ownL'[q][j] = ownL[q][j]
  <2>1. ownL \in [Pods -> [Ids -> Row \cup {Absent, Same}]]
    BY DEF TypeOK
  <2> QED
    BY <2>1
<1>2. \A q \in Pods, j \in Ids : Held(q, j)' <=> (q = p /\ j = i) \/ Held(q, j)
  BY <1>0, <1>1 DEF Held
<1>3. \A j \in Ids : ~Held(p, j)
  BY DEF Ledger, Locks, TxSteps
<1>4. \A j \in Ids : Gone(j) => j # i
  <2>1. nextId \in Int
    BY DEF TypeOK
  <2> QED
    BY <2>1, BoundIsNat DEF Gone, Ledger, RowsOK, Ids
<1>5. \A j \in Ids : Gone(j) => Gone(j)'
  <2>1. nextId \in Int /\ nextId' \in Int /\ nextId <= nextId'
    BY DEF TypeOK, Frame
  <2>2. \A j \in Ids : j < nextId => j < nextId'
    BY <2>1, BoundIsNat DEF Ids
  <2> QED
    BY <1>2, <1>4, <2>2 DEF Gone
<1>6. FreshIds'
  <2>1. \A j \in Ids : j >= nextId' => j # i
    BY BoundIsNat DEF Ids, TypeOK
  <2> QED
    BY <1>2, <2>1 DEF Ledger, FreshIds
<1>7. Locks'
  <2>1. \A q \in Pods, j \in Ids : Held(q, j)' => pc'[q] \in TxSteps /\ j = Target(call'[q])
    BY <1>0, <1>2, <1>3 DEF Ledger, Locks
  <2>2. \A q, r \in Pods, j \in Ids : Held(q, j)' /\ Held(r, j)' => q = r
    BY <1>2 DEF Ledger, Locks
  <2>3. ASSUME NEW q \in Pods, pc'[q] \in TxSteps
        PROVE  Held(q, Target(call[q]))' \/ Gone(Target(call[q]))'
    <3>1. CASE q = p
      BY <1>2, <3>1 DEF Held
    <3>2. CASE q # p
      <4>1. pc[q] \in TxSteps /\ call'[q] = call[q]
        BY <1>0, <2>3, <3>2
      <4>2. PICK j \in Ids : j = Target(call[q])
        BY <4>1 DEF CallsOK, CallOK
      <4>3. j = Target(call[q])'
        BY <4>1, <4>2 DEF Target
      <4>4. Held(q, j) \/ Gone(j)
        BY <4>1, <4>2 DEF Ledger, Locks
      <4>5. Held(q, j)' \/ Gone(j)'
        BY <1>2, <1>5, <4>4
      <4> QED
        BY <4>3, <4>5 DEF Held, Gone
    <3> QED
      BY <3>1, <3>2
  <2> QED
    BY <2>1, <2>2, <2>3 DEF Locks
<1>8. RowsOK'
  <2>1. \A j \in Ids : legacy'[j] # Absent =>
           legacy'[j].hits = StoredHits(j) + acked'[j] /\ Explained(edges', legacy'[j], j)
    BY DEF Ledger, RowsOK
  <2>2. ASSUME NEW q \in Pods, NEW j \in Ids, Held(q, j)'
        PROVE  /\ (ownL'[q][j] = Absent) <=> (call'[q].tool = "recall")
               /\ (legacy'[j] = Absent) <=> (call'[q].tool \in {"insert", "decide"})
               /\ ownL'[q][j] # Absent /\ call'[q].tool # "reinforce" =>
                     ownL'[q][j].hits = StoredHits(j) + acked'[j]
               /\ ownL'[q][j] # Absent => Explained(edges', ownL'[q][j], j)
               /\ call'[q].tool = "reinforce" => ownL'[q][j] = [legacy'[j] EXCEPT !.hits = @ + 1]
    <3>1. CASE q = p /\ j = i
      BY <1>1, <3>1
    <3>2. CASE q # p
      <4>1. Held(q, j) /\ ownL'[q][j] = ownL[q][j] /\ call'[q] = call[q]
        BY <1>0, <1>1, <1>2, <2>2, <3>2
      <4> QED
        BY <4>1 DEF Ledger, RowsOK
    <3> QED
      BY <1>2, <1>3, <2>2, <3>1, <3>2
  <2> QED
    BY <2>1, <2>2 DEF RowsOK
<1>9. Audit'
  BY <1>5 DEF Ledger, Audit
<1> QED
  BY <1>6, <1>7, <1>8, <1>9 DEF Ledger

\* A transaction that commits.
LEMMA LedgerCommitted ==
  ASSUME TypeOK, TypeOK', CallsOK, Ledger, NEW p \in Pods, Frame(p), Commit(p)
  PROVE  Ledger'
<1> DEFINE c == call[p]
<1>1. PICK t \in Ids : t = Target(c)
  BY DEF Commit, CallsOK, CallOK, TxSteps
<1>2. /\ pc[p] = "commit" /\ c.id \in Ids /\ t < nextId
      /\ c.tool # "decide" => c.id = t
      /\ Held(p, t) \/ Gone(t)
      /\ \A i \in Ids : Held(p, i) => i = t
  <2>1. pc[p] = "commit" /\ pc[p] \in TxSteps
    BY DEF Commit, TxSteps
  <2>2. c.id \in Ids /\ t < nextId
    BY <1>1, <2>1 DEF CallsOK, CallOK
  <2>3. Held(p, t) \/ Gone(t)
    BY <1>1, <2>1 DEF Ledger, Locks
  <2>4. \A i \in Ids : Held(p, i) => i = t
    BY <1>1 DEF Ledger, Locks
  <2> QED
    BY <1>1, <2>1, <2>2, <2>3, <2>4 DEF Target
<1>3. /\ ownL' = [ownL EXCEPT ![p] = Unwritten]
      /\ nextId' = nextId /\ edges' = edges /\ pc'[p] \notin TxSteps
      /\ \A i \in Ids : legacy'[i] = IF Held(p, i) THEN ownL[p][i] ELSE legacy[i]
  <2>1. \A i \in Ids : legacy'[i] = Visible(ownL[p], legacy, i)
    BY MergeType DEF Commit, TypeOK
  <2> QED
    BY SMTT(30), <2>1 DEF Commit, Forget, Finish, Goto, TypeOK, TxSteps, Visible, Held
<1>4. \A i \in Ids :
         /\ log'[i] = IF c.tool = "recall" /\ i = c.id THEN log[i] + 1 ELSE log[i]
         /\ acked'[i] = IF c.tool = "reinforce" /\ i = c.id /\ Held(p, i)
                        THEN acked[i] + 1 ELSE acked[i]
  BY <1>2 DEF Commit, TypeOK, Held
<1>5. \A q \in Pods : \A i \in Ids : Held(q, i)' <=> q # p /\ Held(q, i)
  BY <1>3 DEF Held, TypeOK, Unwritten
<1>6. \A i \in Ids : Gone(i) => Gone(i)'
  BY <1>3, <1>5 DEF Gone
<1>7. \A q \in Pods \ {p} : pc'[q] = pc[q] /\ call'[q] = call[q] /\ ownL'[q] = ownL[q]
  BY DEF Frame, Alone
<1>8. FreshIds'
  <2>1. ASSUME NEW i \in Ids, i >= nextId PROVE ~Held(p, i) /\ i # t
    <3>1. nextId \in Int /\ t \in Int /\ i \in Int
      BY BoundIsNat DEF TypeOK, Ids
    <3>2. ~Held(p, i)
      BY <2>1 DEF Ledger, FreshIds
    <3> QED
      BY <1>2, <2>1, <3>1, <3>2
  <2>2. ASSUME NEW i \in Ids, i >= nextId
        PROVE  legacy'[i] = legacy[i] /\ log'[i] = log[i] /\ acked'[i] = acked[i]
    BY <1>2, <1>3, <1>4, <2>1, <2>2
  <2> QED
    BY <1>3, <1>5, <2>2 DEF Ledger, FreshIds
<1>9. Locks'
  <2>1. \A q \in Pods, i \in Ids : Held(q, i)' => pc'[q] \in TxSteps /\ i = Target(call'[q])
    BY <1>5, <1>7 DEF Ledger, Locks
  <2>2. \A q, r \in Pods, i \in Ids : Held(q, i)' /\ Held(r, i)' => q = r
    BY <1>5 DEF Ledger, Locks
  <2>3. ASSUME NEW q \in Pods, pc'[q] \in TxSteps
        PROVE  Held(q, Target(call[q]))' \/ Gone(Target(call[q]))'
    <3>1. q # p /\ pc[q] \in TxSteps /\ call'[q] = call[q]
      BY <1>3, <1>7, <2>3
    <3>2. PICK i \in Ids : i = Target(call[q])
      BY <3>1 DEF CallsOK, CallOK
    <3>3. i = Target(call[q])'
      BY <3>1, <3>2 DEF Target
    <3>4. Held(q, i) \/ Gone(i)
      BY <3>1, <3>2 DEF Ledger, Locks
    <3>5. Held(q, i)' \/ Gone(i)'
      BY <1>5, <1>6, <3>1, <3>4
    <3> QED
      BY <3>3, <3>5 DEF Held, Gone
  <2> QED
    BY <2>1, <2>2, <2>3 DEF Locks
<1>10. RowsOK'
  <2>1. ASSUME NEW i \in Ids, legacy'[i] # Absent
        PROVE  legacy'[i].hits = StoredHits(i) + acked'[i] /\ Explained(edges', legacy'[i], i)
    <3>1. CASE ~Held(p, i)
      BY <1>3, <1>4, <2>1, <3>1 DEF Ledger, RowsOK
    <3>2. CASE Held(p, i)
      <4>1. legacy'[i] = ownL[p][i] /\ ownL[p][i] # Absent /\ i = t
        BY <1>2, <1>3, <2>1, <3>2
      <4>2. Explained(edges', legacy'[i], i)
        BY <1>3, <3>2, <4>1 DEF Ledger, RowsOK
      <4>3. CASE c.tool = "reinforce"
        <5>1. legacy[i] # Absent /\ ownL[p][i] = [legacy[i] EXCEPT !.hits = @ + 1]
              /\ acked'[i] = acked[i] + 1
          BY <1>2, <1>4, <3>2, <4>1, <4>3 DEF Ledger, RowsOK
        <5>2. legacy[i] \in Row /\ legacy[i].hits = StoredHits(i) + acked[i]
          BY <5>1 DEF TypeOK, Ledger, RowsOK
        <5>3. ownL[p][i].hits = legacy[i].hits + 1 /\ legacy[i].hits \in Nat
          BY <5>1, <5>2 DEF Row
        <5>4. StoredHits(i) \in Nat /\ acked[i] \in Nat
          <6>1. PICK n \in 0..MaxId : Stored \in [1..n -> Row]
            BY StoredAssumption
          <6> QED
            BY <6>1 DEF StoredHits, Row, TypeOK
        <5> QED
          BY <4>1, <4>2, <5>1, <5>2, <5>3, <5>4
      <4>4. CASE c.tool # "reinforce"
        <5>1. acked'[i] = acked[i]
          BY <1>4, <4>4
        <5>2. ownL[p][i].hits = StoredHits(i) + acked[i]
          BY <3>2, <4>1, <4>4 DEF Ledger, RowsOK
        <5> QED
          BY <4>1, <4>2, <5>1, <5>2
      <4> QED
        BY <4>3, <4>4
    <3> QED
      BY <3>1, <3>2
  <2>2. ASSUME NEW q \in Pods, NEW j \in Ids, Held(q, j)'
        PROVE  /\ (ownL'[q][j] = Absent) <=> (call'[q].tool = "recall")
               /\ (legacy'[j] = Absent) <=> (call'[q].tool \in {"insert", "decide"})
               /\ ownL'[q][j] # Absent /\ call'[q].tool # "reinforce" =>
                     ownL'[q][j].hits = StoredHits(j) + acked'[j]
               /\ ownL'[q][j] # Absent => Explained(edges', ownL'[q][j], j)
               /\ call'[q].tool = "reinforce" => ownL'[q][j] = [legacy'[j] EXCEPT !.hits = @ + 1]
    <3>1. q # p /\ Held(q, j) /\ ~Held(p, j) /\ ownL'[q] = ownL[q] /\ call'[q] = call[q]
      BY <1>5, <1>7, <2>2 DEF Ledger, Locks
    <3>2. legacy'[j] = legacy[j] /\ acked'[j] = acked[j]
      BY <1>3, <1>4, <3>1
    <3> QED
      BY <1>3, <3>1, <3>2 DEF Ledger, RowsOK
  <2> QED
    BY <2>1, <2>2 DEF RowsOK
<1>11. Audit'
  <2>1. ASSUME NEW i \in Ids, log'[i] > 0 PROVE Gone(i)'
    <3>1. CASE log[i] > 0
      BY <1>6, <3>1 DEF Ledger, Audit
    <3>2. CASE ~(log[i] > 0)
      <4>1. c.tool = "recall" /\ i = t
        BY <1>2, <1>4, <2>1, <3>2
      <4>2. CASE Held(p, i)
        <5>1. legacy'[i] = Absent
          <6>1. (ownL[p][i] = Absent) <=> (c.tool = "recall")
            BY <4>2 DEF Ledger, RowsOK
          <6> QED
            BY <1>3, <4>1, <4>2, <6>1
        <5>2. \A q \in Pods : ~Held(q, i)'
          BY <1>5, <4>2 DEF Ledger, Locks
        <5> QED
          BY <1>2, <1>3, <4>1, <5>1, <5>2 DEF Gone
      <4> QED
        BY <1>2, <1>6, <4>1, <4>2
    <3> QED
      BY <3>1, <3>2
  <2>2. ASSUME NEW i \in Ids, i \in DOMAIN Stored, legacy'[i] = Absent PROVE log'[i] > 0
    <3>1. log[i] \in Nat
      BY DEF TypeOK
    <3>2. CASE legacy[i] = Absent
      BY <1>4, <2>2, <3>1, <3>2 DEF Ledger, Audit
    <3>3. CASE legacy[i] # Absent
      <4>1. Held(p, i) /\ ownL[p][i] = Absent /\ i = t
        BY <1>2, <1>3, <2>2, <3>3
      <4>2. c.tool = "recall"
        BY <4>1 DEF Ledger, RowsOK
      <4> QED
        BY <1>2, <1>4, <3>1, <4>1, <4>2
    <3> QED
      BY <3>2, <3>3
  <2> QED
    BY <2>1, <2>2 DEF Audit
<1> QED
  BY <1>8, <1>9, <1>10, <1>11 DEF Ledger

\* A statement that writes waits for the boots that share the tables ...
LEMMA WriteAlone ==
  ASSUME NEW p \in Pods, Proceeds(p, "write")
  PROVE  /\ \A q \in Pods \ {p} : pc[q] \notin BootSteps
         /\ \A i \in LockedRow(call[p]) : \A q \in Pods \ {p} : ~Held(q, i)
<1>1. WaitsFor(p) = Sharers(p) \cup UNION {Writers(ownL, p, i) : i \in LockedRow(call[p])}
  BY DEF Proceeds, WaitsFor
<1>2. Sharers(p) = {}
  BY <1>1 DEF Proceeds
<1>3. ASSUME NEW i \in LockedRow(call[p]) PROVE Writers(ownL, p, i) = {}
  BY <1>1 DEF Proceeds
<1> QED
  BY <1>2, <1>3 DEF Sharers, Writers, Held

\* ... and for the row's writer; the row is then there, or gone for good.
LEMMA RowFree ==
  ASSUME TypeOK, CallsOK, Ledger, NEW p \in Pods, Proceeds(p, "write"),
         call[p].tool \notin {"insert", "decide"}
  PROVE  /\ call[p].id \in Ids /\ call[p].id < nextId /\ Target(call[p]) = call[p].id
         /\ \A q \in Pods : ~Held(q, call[p].id)
         /\ ~Exists(call[p].id) => Gone(call[p].id)
<1>1. call[p].id \in Ids /\ call[p].id < nextId /\ pc[p] \notin TxSteps
  BY DEF Proceeds, CallsOK, CallOK, TxSteps
<1>2. \A q \in Pods \ {p} : ~Held(q, call[p].id)
  BY WriteAlone DEF LockedRow
<1>3. ~Held(p, call[p].id)
  BY <1>1 DEF Ledger, Locks
<1> QED
  BY <1>1, <1>2, <1>3 DEF Target, Gone, Exists

LEMMA MutateLedger ==
  ASSUME TypeOK, TypeOK', CallsOK, Ledger, NEW p \in Pods, Frame(p),
         NEW tool \in {"update", "supersede", "unsupersede", "pin"}, NEW row,
         Mutate(p, tool, row),
         Exists(call[p].id) =>
             /\ row \in Row /\ row.hits = legacy[call[p].id].hits
             /\ Explained(edges, row, call[p].id)
  PROVE  Ledger'
<1>1. /\ Proceeds(p, "write") /\ pc[p] = "write" /\ pc'[p] = "project" /\ call[p].tool = tool
      /\ UNCHANGED <<legacy, entries, edges, log, nextId, call, acked>>
      /\ IF Exists(call[p].id) THEN ownL' = [ownL EXCEPT ![p][call[p].id] = row] ELSE ownL' = ownL
  BY DEF Mutate, Proceeds, Goto, TypeOK, tables, counts, WriteLegacy
<1>2. PICK i \in Ids : i = call[p].id
  BY <1>1, RowFree
<1>3. /\ i < nextId /\ Target(call[p]) = i
      /\ \A q \in Pods : ~Held(q, i)
      /\ ~Exists(i) => Gone(i)
  BY <1>1, <1>2, RowFree
<1>4. CASE ~Exists(i)
  BY <1>1, <1>2, <1>3, <1>4, LedgerKept DEF TxSteps
<1>5. CASE Exists(i)
  <2>1. row \in Row /\ row.hits = StoredHits(i) + acked[i] /\ Explained(edges, row, i)
        /\ legacy[i] # Absent
    BY <1>2, <1>5 DEF Ledger, RowsOK, Exists
  <2>2. Target(call'[p]) = i /\ call'[p].tool = tool /\ pc'[p] \in TxSteps /\ i < nextId'
        /\ nextId' = nextId /\ ownL' = [ownL EXCEPT ![p][i] = row] /\ row # Absent
    BY <1>1, <1>2, <1>3, <1>5, <2>1, RowIsARow DEF TxSteps
  <2> QED
    BY <1>1, <1>3, <2>1, <2>2, LedgerWritten
<1> QED
  BY <1>4, <1>5

LEMMA LedgerStep ==
  ASSUME TypeOK, TypeOK', CallsOK, Ledger, NEW p \in Pods, Step(p)
  PROVE  Ledger'
<1>0. Frame(p)
  BY FrameStep
<1>1. ASSUME UNCHANGED <<legacy, log, nextId, acked, ownL>>,
             pc[p] \notin TxSteps, pc'[p] \notin TxSteps
      PROVE  Ledger'
  BY <1>0, <1>1, LedgerKept
<1>2. ASSUME UNCHANGED <<legacy, log, nextId, acked, ownL, call>>,
             pc[p] \in TxSteps, pc'[p] \in TxSteps
      PROVE  Ledger'
  BY <1>0, <1>2, LedgerKept
<1> DEFINE c == call[p]
<1>3. ASSUME NEW topic, NEW text, PostClaim(p, topic, text) PROVE Ledger'
  BY <1>1, <1>3 DEF PostClaim, Begin, Goto, TypeOK, TxSteps, tables
<1>4. ASSUME NEW d, CallTool(p, d) PROVE Ledger'
  BY <1>1, <1>4 DEF CallTool, Begin, Goto, TypeOK, TxSteps, tables
<1>5. CASE Boot(p)
  BY <1>1, <1>5 DEF Boot, BootLock, BootVersion, BootRepair, BootCommit, Proceeds, Goto, TypeOK,
     TxSteps, tables, counts
<1>6. CASE AddKnowledge(p) \/ Refuse(p) \/ Accept(p)
  <2>1. /\ UNCHANGED <<legacy, log, nextId, acked, ownL>>
        /\ pc[p] = "check" /\ pc'[p] \in {"write", "idle", "edge", "unlink"}
    BY <1>6 DEF AddKnowledge, Refuse, Accept, FirstStep, Finish, Goto, TypeOK, tables, counts
  <2> QED
    BY <1>1, <2>1 DEF TxSteps
<1>7. CASE InsertRelation(p) \/ DeleteRelation(p)
  <2>1. /\ UNCHANGED <<legacy, log, nextId, acked, ownL>>
        /\ pc[p] \in {"edge", "unlink"} /\ pc'[p] \in {"write", "idle"}
    BY <1>7 DEF InsertRelation, DeleteRelation, Proceeds, Finish, Goto, TypeOK, counts
  <2> QED
    BY <1>1, <2>1 DEF TxSteps
<1>8. CASE InsertKnowledge(p)
  <2> DEFINE row == [topic |-> c.topic, text |-> c.text, pinned |-> FALSE,
                     facet |-> IF c.facet = "empty" THEN "null" ELSE c.facet,
                     status |-> "active", by |-> 0, hits |-> 0]
  <2>1. /\ nextId \in Ids /\ nextId' = nextId + 1 /\ c \in Call
        /\ c.tool \in {"insert", "decide"} /\ pc[p] = "write" /\ pc'[p] = "project"
        /\ UNCHANGED <<legacy, log, edges, acked>>
        /\ ownL' = [ownL EXCEPT ![p][nextId] = row]
        /\ IF c.tool = "decide" THEN call'[p] = [c EXCEPT !.new = nextId]
                                ELSE call'[p] = [c EXCEPT !.id = nextId]
    BY <1>8 DEF InsertKnowledge, Proceeds, WriteLegacy, Goto, TypeOK, tables, counts, Ids
  <2>2. PICK i \in Ids : i = nextId
    BY <2>1
  <2>3. row \in Row /\ row.hits = 0 /\ row.status = "active"
    BY <2>1, BoundIsNat DEF Call, Row, Facets
  <2>4. call'[p].tool = c.tool /\ Target(call'[p]) = i
    BY <2>1, <2>2 DEF Call, Target
  <2>5. /\ legacy[i] = Absent /\ acked[i] = 0 /\ StoredHits(i) = 0
        /\ \A q \in Pods : ~Held(q, i)
    <3>1. i >= nextId
      BY <2>1, <2>2 DEF Ids
    <3> QED
      BY <3>1 DEF Ledger, FreshIds, StoredHits
  <2>6. i < nextId' /\ \A j \in Ids : j >= nextId' => j >= nextId
    BY <2>1, <2>2 DEF Ids
  <2>7. ownL' = [ownL EXCEPT ![p][i] = row] /\ row # Absent /\ Explained(edges, row, i)
    BY <2>1, <2>2, <2>3, RowIsARow DEF Explained
  <2> HIDE DEF row
  <2> QED
    <3>1. /\ pc'[p] \in TxSteps /\ c.tool \notin {"recall", "reinforce"}
          /\ row.hits = StoredHits(i) + acked[i]
      BY <2>1, <2>3, <2>5 DEF TxSteps
    <3> QED
      BY <1>0, <2>1, <2>2, <2>3, <2>4, <2>5, <2>6, <2>7, <3>1, LedgerWritten
<1>9. CASE UpdateKnowledge(p)
  <2> DEFINE row == [legacy[c.id] EXCEPT !.text = c.text, !.facet = c.facet]
  <2>1. Mutate(p, "update", row)
    BY <1>9 DEF UpdateKnowledge
  <2>2. c.id \in Ids /\ c \in Call
    BY <2>1, RowFree DEF Mutate, TypeOK
  <2>3. ASSUME Exists(c.id)
        PROVE  row \in Row /\ row.hits = legacy[c.id].hits /\ Explained(edges, row, c.id)
    <3>1. legacy[c.id] \in Row /\ Explained(edges, legacy[c.id], c.id)
      BY <2>2, <2>3 DEF Exists, TypeOK, Ledger, RowsOK
    <3>2. row \in Row
      BY <2>2, <3>1, RowWrites
    <3>3. row.hits = legacy[c.id].hits /\ row.status = legacy[c.id].status /\ row.by = legacy[c.id].by
      BY <3>1 DEF Row
    <3> QED
      BY <3>1, <3>2, <3>3 DEF Explained
  <2> HIDE DEF row
  <2> QED
    BY <1>0, <2>1, <2>3, MutateLedger
<1>10. CASE SupersedeKnowledge(p)
  <2> DEFINE row == [legacy[c.id] EXCEPT !.status = "superseded", !.by = c.new]
  <2>1. Mutate(p, "supersede", row)
    BY <1>10 DEF SupersedeKnowledge
  <2>2. c.id \in Ids /\ c \in Call /\ Recorded(c)
    BY <2>1, RowFree DEF Mutate, TypeOK, Proceeds, CallsOK, CallOK
  <2>3. ASSUME Exists(c.id)
        PROVE  row \in Row /\ row.hits = legacy[c.id].hits /\ Explained(edges, row, c.id)
    <3>1. legacy[c.id] \in Row
      BY <2>2, <2>3 DEF Exists, TypeOK
    <3>2. row \in Row
      BY <2>2, <3>1, RowWrites
    <3>3. row.hits = legacy[c.id].hits /\ row.by = c.new
      BY <3>1 DEF Row
    <3> QED
      BY <2>2, <3>2, <3>3 DEF Explained, Recorded
  <2> HIDE DEF row
  <2> QED
    BY <1>0, <2>1, <2>3, MutateLedger
<1>11. CASE UnsupersedeKnowledge(p)
  <2> DEFINE row == [legacy[c.id] EXCEPT !.status = "active", !.by = 0]
  <2>1. Mutate(p, "unsupersede", row)
    BY <1>11 DEF UnsupersedeKnowledge
  <2>2. c.id \in Ids /\ c \in Call
    BY <2>1, RowFree DEF Mutate, TypeOK
  <2>3. ASSUME Exists(c.id)
        PROVE  row \in Row /\ row.hits = legacy[c.id].hits /\ Explained(edges, row, c.id)
    <3>1. legacy[c.id] \in Row
      BY <2>2, <2>3 DEF Exists, TypeOK
    <3>2. row \in Row
      BY <2>2, <3>1, RowWrites
    <3>3. row.hits = legacy[c.id].hits /\ row.status = "active"
      BY <3>1 DEF Row
    <3> QED
      BY <3>2, <3>3 DEF Explained
  <2> HIDE DEF row
  <2> QED
    BY <1>0, <2>1, <2>3, MutateLedger
<1>12. CASE SetPinned(p)
  <2> DEFINE row == [legacy[c.id] EXCEPT !.pinned = c.pinned]
  <2>1. Mutate(p, "pin", row)
    BY <1>12 DEF SetPinned
  <2>2. c.id \in Ids /\ c \in Call
    BY <2>1, RowFree DEF Mutate, TypeOK
  <2>3. ASSUME Exists(c.id)
        PROVE  row \in Row /\ row.hits = legacy[c.id].hits /\ Explained(edges, row, c.id)
    <3>1. legacy[c.id] \in Row /\ Explained(edges, legacy[c.id], c.id)
      BY <2>2, <2>3 DEF Exists, TypeOK, Ledger, RowsOK
    <3>2. row \in Row
      BY <2>2, <3>1, RowWrites
    <3>3. row.hits = legacy[c.id].hits /\ row.status = legacy[c.id].status /\ row.by = legacy[c.id].by
      BY <3>1 DEF Row
    <3> QED
      BY <3>1, <3>2, <3>3 DEF Explained
  <2> HIDE DEF row
  <2> QED
    BY <1>0, <2>1, <2>3, MutateLedger
<1>13. CASE RecallEntry(p)
  <2>1. /\ Proceeds(p, "write") /\ pc[p] = "write" /\ pc'[p] = "dropEntry" /\ c.tool = "recall"
        /\ UNCHANGED <<legacy, entries, edges, log, nextId, call, acked>>
        /\ IF Exists(c.id) THEN ownL' = [ownL EXCEPT ![p][c.id] = Absent] ELSE ownL' = ownL
    BY <1>13 DEF RecallEntry, Proceeds, Goto, TypeOK, tables, counts, WriteLegacy
  <2>2. PICK i \in Ids : i = c.id
    BY <2>1, RowFree
  <2>3. /\ i < nextId /\ Target(c) = i
        /\ \A q \in Pods : ~Held(q, i)
        /\ ~Exists(i) => Gone(i)
    BY <2>1, <2>2, RowFree
  <2>4. CASE ~Exists(i)
    BY <1>0, <2>1, <2>2, <2>3, <2>4, LedgerKept DEF TxSteps
  <2>5. CASE Exists(i)
    BY <1>0, <2>1, <2>2, <2>3, <2>5, LedgerWritten DEF TxSteps, Exists
  <2> QED
    BY <2>4, <2>5
<1>14. CASE Increment(p)
  <2> DEFINE row == [legacy[c.id] EXCEPT !.hits = @ + 1]
  <2>1. /\ Proceeds(p, "write") /\ pc[p] = "write" /\ pc'[p] = "countEntry" /\ c.tool = "reinforce"
        /\ UNCHANGED <<legacy, entries, edges, log, nextId, call, acked>>
        /\ IF Exists(c.id) THEN ownL' = [ownL EXCEPT ![p][c.id] = row] ELSE ownL' = ownL
    BY <1>14 DEF Increment, Proceeds, Goto, TypeOK, tables, counts, WriteLegacy
  <2>2. PICK i \in Ids : i = c.id
    BY <2>1, RowFree
  <2>3. /\ i < nextId /\ Target(c) = i
        /\ \A q \in Pods : ~Held(q, i)
        /\ ~Exists(i) => Gone(i)
    BY <2>1, <2>2, RowFree
  <2>4. CASE ~Exists(i)
    BY <1>0, <2>1, <2>2, <2>3, <2>4, LedgerKept DEF TxSteps
  <2>5. CASE Exists(i)
    <3>1. legacy[i] \in Row /\ Explained(edges, legacy[i], i)
      BY <2>5 DEF Exists, TypeOK, Ledger, RowsOK
    <3>2. row \in Row
      BY <2>2, <3>1, RowWrites DEF TypeOK
    <3>3. Explained(edges, row, i)
      BY <2>2, <3>1 DEF Explained, Row
    <3>4. row = [legacy[i] EXCEPT !.hits = @ + 1] /\ row # Absent /\ legacy[i] # Absent
      BY <2>2, <3>1, <3>2, RowIsARow
    <3> HIDE DEF row
    <3> QED
      BY <1>0, <2>1, <2>2, <2>3, <2>5, <3>2, <3>3, <3>4, LedgerWritten DEF TxSteps
  <2> QED
    BY <2>4, <2>5
<1>15. CASE IncrementEntry(p)
  BY <1>2, <1>15 DEF IncrementEntry, Proceeds, Goto, TypeOK, TxSteps, tables, counts
<1>16. CASE Project(p) \/ Lookup(p) \/ InsertEntry(p) \/ UpdateEntry(p) \/ DeleteEntry(p)
  BY <1>2, <1>16 DEF Project, Lookup, InsertEntry, UpdateEntry, DeleteEntry, MirrorNext, Proceeds,
     Goto, TypeOK, TxSteps, tables, counts
<1>17. CASE Commit(p)
  BY <1>0, <1>17, LedgerCommitted
<1>18. CASE RollBack(p) \/ Crash(p)
  <2>1. /\ UNCHANGED <<legacy, log, nextId, acked>>
        /\ ownL' = [ownL EXCEPT ![p] = Unwritten] /\ pc'[p] \in {"idle", "down"}
    BY <1>18 DEF RollBack, Crash, Forget, Goto, TypeOK, tables, counts
  <2> QED
    BY <1>0, <2>1, LedgerAborted DEF TxSteps
<1>20. CASE Statement(p)
  BY <1>6, <1>7, <1>8, <1>9, <1>10, <1>11, <1>12, <1>13, <1>14, <1>15, <1>16, <1>17, <1>18,
     <1>20, Zenon DEF Statement
<1> QED
  BY <1>3, <1>4, <1>5, <1>18, <1>20, Zenon DEF Step

----------------------------------------------------------------------------
(* The mirror: what the transactions and the boots write into entries.     *)

\* Where a step of one pod can lead, and what it does to the tables.
Shape(p) ==
    /\ pc'[p] \in BootSteps => pc[p] \in BootSteps \/ BootLock(p)
    /\ pc'[p] \in {"versioned", "filled"} => pc[p] \in {"versioned", "filled"} \/ BootVersion(p)
    /\ pc'[p] = "filled" => BootRepair(p)
    /\ pc'[p] \in TxSteps => pc[p] \in TxSteps \/ Proceeds(p, "write")
    /\ UNCHANGED <<legacy, entries>> \/ Commit(p) \/ BootCommit(p)

LEMMA ShapeStep ==
  ASSUME TypeOK, NEW p \in Pods, Step(p)
  PROVE  Shape(p)
<1> USE DEF Shape, Goto, TypeOK, tables, BootSteps, TxSteps, Proceeds
<1>1. ASSUME NEW topic, NEW text, PostClaim(p, topic, text) PROVE Shape(p)
  BY <1>1 DEF PostClaim, Begin
<1>2. ASSUME NEW d, CallTool(p, d) PROVE Shape(p)
  BY <1>2 DEF CallTool, Begin
<1>3. CASE BootLock(p) \/ BootVersion(p) \/ BootRepair(p) \/ BootCommit(p)
  <2>1. pc'[p] = "ddl" \/ pc'[p] = "versioned" \/ pc'[p] = "filled" \/ pc'[p] = "idle"
    BY <1>3 DEF BootLock, BootVersion, BootRepair, BootCommit
  <2>2. BootLock(p) => pc'[p] = "ddl" /\ UNCHANGED <<legacy, entries>>
    BY DEF BootLock
  <2>3. BootVersion(p) => pc[p] = "ddl" /\ pc'[p] = "versioned" /\ UNCHANGED <<legacy, entries>>
    BY DEF BootVersion
  <2>4. BootRepair(p) => pc[p] = "versioned" /\ pc'[p] = "filled" /\ UNCHANGED <<legacy, entries>>
    BY DEF BootRepair
  <2>5. BootCommit(p) => pc'[p] = "idle"
    BY DEF BootCommit
  <2> QED
    BY <1>3, <2>1, <2>2, <2>3, <2>4, <2>5, Zenon DEF Shape
<1>6. CASE AddKnowledge(p) \/ Refuse(p) \/ Accept(p)
  <2>1. /\ UNCHANGED <<legacy, entries>> /\ pc'[p] \in {"write", "idle", "edge", "unlink"}
    BY <1>6 DEF AddKnowledge, Refuse, Accept, FirstStep, Finish
  <2> QED
    BY <2>1
<1>7. CASE InsertRelation(p) \/ DeleteRelation(p)
  <2>1. /\ UNCHANGED <<legacy, entries>> /\ pc'[p] \in {"write", "idle"}
    BY <1>7 DEF InsertRelation, DeleteRelation, Finish
  <2> QED
    BY <2>1
<1>8. CASE \/ InsertKnowledge(p) \/ UpdateKnowledge(p) \/ SupersedeKnowledge(p)
           \/ UnsupersedeKnowledge(p) \/ SetPinned(p) \/ RecallEntry(p) \/ Increment(p)
  <2>1. /\ UNCHANGED <<legacy, entries>> /\ Proceeds(p, "write")
        /\ pc'[p] \in {"project", "dropEntry", "countEntry"}
    BY <1>8 DEF InsertKnowledge, UpdateKnowledge, SupersedeKnowledge, UnsupersedeKnowledge,
       SetPinned, RecallEntry, Increment, Mutate
  <2> QED
    BY <2>1
<1>9. CASE IncrementEntry(p) \/ Project(p) \/ Lookup(p)
  <2>1. UNCHANGED <<legacy, entries>> /\ pc[p] \in TxSteps /\ pc'[p] \in TxSteps
    BY <1>9 DEF IncrementEntry, Project, Lookup, MirrorNext
  <2> QED
    BY <2>1
<1>10. CASE InsertEntry(p) \/ UpdateEntry(p) \/ DeleteEntry(p)
  <2>1. UNCHANGED <<legacy, entries>> /\ pc[p] \in TxSteps /\ pc'[p] \in TxSteps
    BY <1>10 DEF InsertEntry, UpdateEntry, DeleteEntry, MirrorNext
  <2> QED
    BY <2>1
<1>11. CASE Commit(p)
  <2>1. pc'[p] \in {"unlink", "edge", "idle"}
    BY <1>11 DEF Commit, Finish
  <2> QED
    BY <1>11, <2>1
<1>12. CASE RollBack(p) \/ Crash(p)
  <2>1. UNCHANGED <<legacy, entries>> /\ pc'[p] \in {"idle", "down"}
    BY <1>12 DEF RollBack, Crash
  <2> QED
    BY <2>1
<1> HIDE DEF Shape
<1>20. CASE Statement(p)
  BY <1>6, <1>7, <1>8, <1>9, <1>10, <1>11, <1>12, <1>20, Zenon DEF Statement
<1> QED
  BY <1>1, <1>2, <1>3, <1>12, <1>20, Zenon DEF Step, Boot

\* What the first statements of a boot wait for.
LEMMA BootWaits ==
  ASSUME NEW p \in Pods
  PROVE  /\ BootLock(p) => \A q \in Pods \ {p} : pc[q] \notin TxSteps
         /\ BootVersion(p) => \A q \in Pods \ {p} : pc[q] \notin {"versioned", "filled"}
<1>1. pc[p] = "down" => WaitsFor(p) = InTx(p)
  BY DEF WaitsFor
<1>2. pc[p] = "ddl" => WaitsFor(p) = VersionHolders(p)
  BY DEF WaitsFor
<1>3. BootLock(p) => InTx(p) = {}
  BY <1>1 DEF BootLock, Proceeds
<1>4. BootVersion(p) => VersionHolders(p) = {}
  BY <1>2 DEF BootVersion, Proceeds
<1>5. BootLock(p) => \A q \in Pods \ {p} : pc[q] \notin TxSteps
  BY <1>3 DEF InTx
<1>6. BootVersion(p) => \A q \in Pods \ {p} : pc[q] \notin {"versioned", "filled"}
  BY <1>4 DEF VersionHolders
<1> QED
  BY <1>5, <1>6

LEMMA BootsStep ==
  ASSUME TypeOK, TypeOK', CallsOK, Boots, NEW p \in Pods, Step(p)
  PROVE  Boots'
<1>0. Frame(p) /\ Shape(p)
  BY FrameStep, ShapeStep
<1>1. \A q \in Pods \ {p} : pc'[q] = pc[q] /\ ownE'[q] = ownE[q]
  BY <1>0 DEF Frame, Alone
<1>2. ASSUME NEW q \in Pods, NEW r \in Pods, pc'[q] \in BootSteps PROVE pc'[r] \notin TxSteps
  <2>1. CASE q = r
    BY <1>2, <2>1 DEF BootSteps, TxSteps
  <2>2. CASE q = p /\ r # p
    <3>1. pc[p] \in BootSteps \/ BootLock(p)
      BY <1>0, <1>2, <2>2 DEF Shape
    <3> QED
      BY <1>1, <2>2, <3>1, BootWaits DEF Boots
  <2>3. CASE r = p /\ q # p
    <3>1. pc[q] \in BootSteps
      BY <1>1, <1>2, <2>3
    <3>2. ~Proceeds(p, "write")
      BY <2>3, <3>1, WriteAlone
    <3> QED
      BY <1>0, <2>3, <3>1, <3>2 DEF Shape, Boots
  <2>4. CASE q # p /\ r # p
    BY <1>1, <1>2, <2>4 DEF Boots
  <2> QED
    BY <2>1, <2>2, <2>3, <2>4
<1>3. \A q, r \in Pods :
         pc'[q] \in {"versioned", "filled"} /\ pc'[r] \in {"versioned", "filled"} => q = r
  BY <1>0, <1>1, BootWaits DEF Shape, Boots
<1>4. ASSUME NEW q \in Pods, pc'[q] = "filled", NEW i \in Ids
      PROVE  SeenEntry(q, i)' = Projection(legacy[i])'
  <2>1. CASE q = p
    <3>1. BootRepair(p)
      BY <1>0, <1>4, <2>1 DEF Shape
    <3>2. ownE'[p] = Repair /\ legacy' = legacy /\ entries' = entries
      BY <3>1 DEF BootRepair, TypeOK, tables
    <3> QED
      BY <2>1, <3>2, RepairType DEF SeenEntry, Projection, ToEntry
  <2>2. CASE q # p
    <3>1. pc[q] = "filled" /\ ownE'[q] = ownE[q]
      BY <1>1, <1>4, <2>2
    <3>2. ~Commit(p) /\ ~BootCommit(p)
      BY <2>2, <3>1 DEF Boots, BootSteps, TxSteps, Commit, BootCommit, Proceeds
    <3>3. legacy' = legacy /\ entries' = entries
      BY <1>0, <3>2 DEF Shape
    <3>4. SeenEntry(q, i) = Projection(legacy[i])
      BY <3>1 DEF Boots
    <3> QED
      BY <3>1, <3>3, <3>4 DEF SeenEntry, Visible, Projection, ToEntry
  <2> QED
    BY <2>1, <2>2
<1> QED
  BY <1>2, <1>3, <1>4 DEF Boots

\* What a step of one pod does to the entries its transaction has written.
EntryShape(p) ==
    \/ ownE'[p] = Unwritten
    \/ pc'[p] = "filled"
    \/ ownE'[p] = ownE[p] /\ pc[p] \notin TxSteps \cup {"filled"}
    \/ /\ pc[p] \in TxSteps /\ pc'[p] \in TxSteps \ {"countEntry"} /\ call'[p] = call[p]
       /\ \/ ownE'[p] = ownE[p]
          \/ \E i \in Ids : \E row :
                /\ ownE'[p] = [ownE[p] EXCEPT ![i] = row]
                /\ \/ pc[p] \in MirrorSteps /\ i = Current(p)
                   \/ pc[p] = "countEntry" /\ i = call[p].id

LEMMA EntryShapeStep ==
  ASSUME TypeOK, TypeOK', CallsOK, NEW p \in Pods, Step(p)
  PROVE  EntryShape(p)
<1> USE DEF EntryShape, Goto, TxSteps, MirrorSteps, Proceeds
<1>t. /\ ownE \in [Pods -> [Ids -> Row \cup {Absent, Same}]]
      /\ pc \in [Pods -> PC] /\ call \in [Pods -> Call]
      /\ pc' \in [Pods -> PC] /\ call' \in [Pods -> Call]
  BY DEF TypeOK
<1>1. ASSUME NEW topic, NEW text, PostClaim(p, topic, text) PROVE EntryShape(p)
  BY <1>1 DEF PostClaim, Begin
<1>2. ASSUME NEW d, CallTool(p, d) PROVE EntryShape(p)
  BY <1>2 DEF CallTool, Begin
<1>3. CASE BootLock(p) \/ BootVersion(p)
  BY <1>3 DEF BootLock, BootVersion
<1>4. CASE BootRepair(p)
  BY <1>t, <1>4 DEF BootRepair
<1>5. CASE BootCommit(p)
  BY <1>t, <1>5 DEF BootCommit
<1>6. CASE AddKnowledge(p) \/ Refuse(p) \/ Accept(p)
  <2>1. ownE' = ownE /\ pc[p] = "check"
    BY <1>6 DEF AddKnowledge, Refuse, Accept
  <2> QED
    BY <2>1
<1>7. CASE InsertRelation(p) \/ DeleteRelation(p)
  <2>1. ownE' = ownE /\ pc[p] \in {"edge", "unlink"}
    BY <1>7 DEF InsertRelation, DeleteRelation
  <2> QED
    BY <2>1
<1>8. CASE \/ InsertKnowledge(p) \/ UpdateKnowledge(p) \/ SupersedeKnowledge(p)
           \/ UnsupersedeKnowledge(p) \/ SetPinned(p) \/ RecallEntry(p) \/ Increment(p)
  <2>1. ownE' = ownE /\ pc[p] = "write"
    BY <1>8 DEF InsertKnowledge, UpdateKnowledge, SupersedeKnowledge, UnsupersedeKnowledge,
       SetPinned, RecallEntry, Increment, Mutate
  <2> QED
    BY <2>1
<1>9. CASE IncrementEntry(p)
  <2>1. /\ pc[p] = "countEntry" /\ pc'[p] = "commit" /\ call' = call
        /\ ownE' = ownE \/ \E row : ownE' = [ownE EXCEPT ![p][call[p].id] = row]
    BY <1>t, <1>9 DEF IncrementEntry, WriteEntry
  <2>2. CASE ownE' = ownE
    BY <2>1, <2>2
  <2>3. ASSUME NEW row, ownE' = [ownE EXCEPT ![p][call[p].id] = row] PROVE EntryShape(p)
    <3>1. PICK i \in Ids : i = call[p].id
      BY <2>1 DEF CallsOK, CallOK
    <3>2. ownE'[p] = [ownE[p] EXCEPT ![i] = row]
      BY <1>t, <2>3, <3>1
    <3> QED
      BY <2>1, <3>1, <3>2
  <2> QED
    BY <2>1, <2>2, <2>3
<1>10. CASE Project(p) \/ Lookup(p)
  <2>1. /\ pc[p] \in TxSteps /\ pc'[p] \in TxSteps \ {"countEntry"} /\ call' = call /\ ownE' = ownE
    BY <1>t, <1>10 DEF Project, Lookup, MirrorNext
  <2> QED
    BY <2>1
<1>11. CASE InsertEntry(p) \/ UpdateEntry(p) \/ DeleteEntry(p)
  <2>1. /\ pc[p] \in MirrorSteps /\ pc'[p] \in TxSteps \ {"countEntry"} /\ call' = call
        /\ ownE' = ownE \/ \E row : ownE' = [ownE EXCEPT ![p][Current(p)] = row]
    BY <1>t, <1>11 DEF InsertEntry, UpdateEntry, DeleteEntry, WriteEntry, MirrorNext
  <2>2. CASE ownE' = ownE
    BY <2>1, <2>2
  <2>3. ASSUME NEW row, ownE' = [ownE EXCEPT ![p][Current(p)] = row] PROVE EntryShape(p)
    <3>1. PICK i \in Ids : i = Current(p)
      BY <2>1, MirrorTodo
    <3>2. ownE'[p] = [ownE[p] EXCEPT ![i] = row]
      BY <1>t, <2>3, <3>1
    <3> QED
      BY <2>1, <3>1, <3>2
  <2> QED
    BY <2>1, <2>2, <2>3
<1>12. CASE Commit(p) \/ RollBack(p) \/ Crash(p)
  <2>1. ownE' = [ownE EXCEPT ![p] = Unwritten]
    BY <1>12 DEF Commit, RollBack, Crash, Forget
  <2> QED
    BY <1>t, <2>1
<1> HIDE DEF EntryShape
<1>20. CASE Statement(p)
  BY <1>6, <1>7, <1>8, <1>9, <1>10, <1>11, <1>12, <1>20, Zenon DEF Statement
<1> QED
  BY <1>1, <1>2, <1>3, <1>4, <1>5, <1>12, <1>20, Zenon DEF Step, Boot

LEMMA EntryWritesStep ==
  ASSUME TypeOK, TypeOK', CallsOK, EntryWrites, NEW p \in Pods, Step(p)
  PROVE  EntryWrites'
<1>1. Frame(p) /\ EntryShape(p)
  BY FrameStep, EntryShapeStep
<1>2. ASSUME NEW q \in Pods \ {p}, NEW i \in Ids
      PROVE  /\ ownE'[q][i] # Same =>
                \/ pc'[q] = "filled"
                \/ pc'[q] \in TxSteps /\ i = Target(call'[q])
                \/ pc'[q] \in TxSteps /\ call'[q].tool = "supersede" /\ i = call'[q].new
             /\ pc'[q] = "countEntry" => ownE'[q][i] = Same
  BY <1>1 DEF Frame, Alone, EntryWrites
<1>3. ASSUME NEW i \in Ids
      PROVE  /\ ownE'[p][i] # Same =>
                \/ pc'[p] = "filled"
                \/ pc'[p] \in TxSteps /\ i = Target(call'[p])
                \/ pc'[p] \in TxSteps /\ call'[p].tool = "supersede" /\ i = call'[p].new
             /\ pc'[p] = "countEntry" => ownE'[p][i] = Same
  <2>1. CASE ownE'[p] = Unwritten
    BY <2>1 DEF Unwritten
  <2>2. CASE pc'[p] = "filled"
    BY <2>2
  <2>3. CASE ownE'[p] = ownE[p] /\ pc[p] \notin TxSteps \cup {"filled"}
    BY <2>3 DEF EntryWrites
  <2>4. CASE /\ pc[p] \in TxSteps /\ pc'[p] \in TxSteps \ {"countEntry"} /\ call'[p] = call[p]
             /\ ownE'[p] = ownE[p]
    BY <2>4 DEF EntryWrites, TxSteps
  <2>5. ASSUME pc[p] \in TxSteps, pc'[p] \in TxSteps \ {"countEntry"}, call'[p] = call[p],
               NEW j \in Ids, NEW row, ownE'[p] = [ownE[p] EXCEPT ![j] = row],
               \/ pc[p] \in MirrorSteps /\ j = Current(p)
               \/ pc[p] = "countEntry" /\ j = call[p].id
        PROVE  /\ ownE'[p][i] # Same =>
                  \/ pc'[p] \in TxSteps /\ i = Target(call'[p])
                  \/ pc'[p] \in TxSteps /\ call'[p].tool = "supersede" /\ i = call'[p].new
               /\ pc'[p] = "countEntry" => ownE'[p][i] = Same
    <3>1. j = Target(call[p]) \/ (call[p].tool = "supersede" /\ j = call[p].new)
      <4>1. CallOK(p)
        BY DEF CallsOK
      <4>2. CASE pc[p] = "countEntry" /\ j = call[p].id
        BY <4>1, <4>2 DEF CallOK, Target
      <4>3. CASE pc[p] \in MirrorSteps /\ j = Current(p)
        <5>1. \/ todo[p] = <<Target(call[p])>>
              \/ call[p].tool = "supersede" /\ todo[p] \in {<<call[p].id, call[p].new>>, <<call[p].new>>}
          BY <4>1, <4>3 DEF CallOK
        <5>2. \A x, y : Head(<<x>>) = x /\ Head(<<x, y>>) = x
          OBVIOUS
        <5> QED
          BY <4>3, <5>1, <5>2 DEF Current, Target
      <4> QED
        BY <2>5, <4>2, <4>3
    <3>2. CASE i = j
      BY <2>5, <3>1, <3>2
    <3>3. CASE i # j
      <4>1. ownE'[p][i] = ownE[p][i]
        BY <2>5, <3>3
      <4> QED
        BY <2>5, <4>1 DEF EntryWrites, TxSteps
    <3> QED
      BY <3>2, <3>3
  <2> QED
    BY <1>1, <2>1, <2>2, <2>3, <2>4, <2>5 DEF EntryShape
<1> QED
  BY <1>2, <1>3 DEF EntryWrites

\* A row that another pod's commit may write is held by that pod or gone, or
\* a relation names it as successor.
LEMMA OthersEntry ==
  ASSUME TypeOK, CallsOK, EntryWrites, NEW p \in Pods, pc[p] = "commit",
         NEW t \in Ids, NoSuccessor(t), ownE[p][t] # Same
  PROVE  t = Target(call[p])
<1>1. \/ t = Target(call[p])
      \/ call[p].tool = "supersede" /\ t = call[p].new
  BY DEF EntryWrites
<1>2. call[p].tool = "supersede" => call[p].id \in Ids /\ Recorded(call[p])
  BY DEF CallsOK, CallOK, TxSteps
<1> QED
  BY <1>1, <1>2 DEF Recorded, NoSuccessor

\* No row stops being named as a successor.
LEMMA SuccessorStays ==
  ASSUME EdgesGrow, NEW t \in Ids, NoSuccessor(t)'
  PROVE  NoSuccessor(t)
<1>1. \A old \in Ids : <<t, old>> \in Ids \X Ids
  OBVIOUS
<1> QED
  BY <1>1 DEF EdgesGrow, NoSuccessor

LEMMA MirrorOthers ==
  ASSUME TypeOK, TypeOK', CallsOK, Ledger, Boots, EntryWrites, Mirrors,
         NEW p \in Pods, Frame(p), Shape(p), NEW q \in Pods \ {p}
  PROVE  MirrorOK(q)'
<1>1. /\ pc'[q] = pc[q] /\ call'[q] = call[q] /\ todo'[q] = todo[q] /\ want'[q] = want[q]
      /\ ownL'[q] = ownL[q] /\ ownE'[q] = ownE[q]
  BY DEF Frame, Alone
<1>2. SUFFICES ASSUME pc[q] \in TxSteps, NEW t \in Ids, t = Target(call[q]), NoSuccessor(t)'
               PROVE  Mirroring(q, t)'
  <2>1. pc[q] \in TxSteps => Target(call[q]) \in Ids
    BY DEF CallsOK, CallOK
  <2>2. Target(call[q])' = Target(call[q])
    BY <1>1 DEF Target
  <2> QED
    BY <1>1, <2>1, <2>2 DEF MirrorOK, Mirroring, NoSuccessor, AtFirst
<1>3. NoSuccessor(t)
  <2>1. EdgesGrow /\ NoSuccessor(t)'
    BY <1>2 DEF Frame
  <2> QED
    BY <2>1, SuccessorStays
<1>4. Mirroring(q, t)
  <2>1. MirrorOK(q)
    BY DEF Mirrors
  <2> QED
    BY <1>2, <1>3, <2>1 DEF MirrorOK
<1>5. CASE legacy'[t] = legacy[t] /\ entries'[t] = entries[t]
  <2>1. /\ SeenLegacy(q, t)' = SeenLegacy(q, t) /\ SeenEntry(q, t)' = SeenEntry(q, t)
        /\ Projection(SeenLegacy(q, t))' = Projection(SeenLegacy(q, t))
    BY <1>1, <1>5 DEF SeenLegacy, SeenEntry, Visible, Projection, ToEntry
  <2>2. Agrees(t)' <=> Agrees(t)
    BY <1>5 DEF Agrees, Projection, ToEntry
  <2> QED
    BY <1>1, <1>4, <2>1, <2>2 DEF Mirroring, AtFirst
<1>6. CASE Commit(p)
  <2>1. /\ pc[p] = "commit"
        /\ legacy'[t] = SeenLegacy(p, t) /\ entries'[t] = SeenEntry(p, t)
    BY <1>6, MergeType DEF Commit, TypeOK, SeenLegacy, SeenEntry
  <2>2. CASE Held(q, t)
    <3>1. ~Held(p, t)
      BY <2>2 DEF Ledger, Locks
    <3>2. ownE[p][t] = Same
      <4>1. t # Target(call[p])
        BY <2>1, <2>2, <3>1 DEF Ledger, Locks, Gone, TxSteps
      <4> QED
        BY <1>3, <2>1, <4>1, OthersEntry
    <3> QED
      BY <1>5, <2>1, <3>1, <3>2 DEF SeenLegacy, SeenEntry, Visible, Held
  <2>3. CASE Gone(t)
    <3>1. /\ legacy[t] = Absent /\ legacy'[t] = Absent
          /\ SeenLegacy(p, t) = Absent /\ SeenLegacy(q, t) = Absent
          /\ SeenLegacy(q, t)' = Absent
      BY <1>1, <2>1, <2>3 DEF Gone, Held, SeenLegacy, Visible
    <3>2. CASE ownE[p][t] = Same
      BY <1>5, <2>1, <3>1, <3>2 DEF SeenEntry, Visible
    <3>3. CASE ownE[p][t] # Same
      <4>1. t = Target(call[p])
        BY <1>3, <2>1, <3>3, OthersEntry
      <4>2. Mirroring(p, t)
        <5>1. MirrorOK(p)
          BY DEF Mirrors
        <5> QED
          BY <1>3, <2>1, <4>1, <5>1 DEF MirrorOK, TxSteps
      <4>3. Projection(Absent) = Absent
        BY DEF Projection
      <4>4. entries'[t] = Absent
        BY <2>1, <3>1, <3>3, <4>2, <4>3 DEF Mirroring
      <4>5. ownE[q][t] # Same => SeenEntry(q, t)' = SeenEntry(q, t)
        BY <1>1 DEF SeenEntry, Visible
      <4>6. ownE[q][t] = Same => SeenEntry(q, t)' = Absent
        BY <1>1, <4>4 DEF SeenEntry, Visible
      <4>7. Projection(SeenLegacy(q, t))' = Absent /\ Projection(SeenLegacy(q, t)) = Absent
        BY <3>1, <4>3 DEF Projection
      <4> QED
        BY <1>1, <1>4, <3>1, <4>5, <4>6, <4>7 DEF Mirroring, AtFirst
    <3> QED
      BY <3>2, <3>3
  <2>4. Held(q, t) \/ Gone(t)
    BY <1>2 DEF Ledger, Locks
  <2> QED
    BY <2>2, <2>3, <2>4
<1>7. ~BootCommit(p)
  BY <1>2 DEF Boots, BootCommit, Proceeds, BootSteps
<1> QED
  BY <1>5, <1>6, <1>7 DEF Shape

\* A statement of the mirror that is done with an id.
LEMMA MirrorMoves ==
  ASSUME TypeOK, TypeOK', CallsOK, NEW p \in Pods, NEW t \in Ids, pc[p] \in MirrorSteps, MirrorNext(p),
         call'[p] = call[p], SeenEntry(p, t)' = Projection(SeenLegacy(p, t))'
  PROVE  Mirroring(p, t)'
<1>1. pc'[p] = "commit" \/ pc'[p] = "project"
  BY DEF MirrorNext, Goto, TypeOK
<1>2. call[p].tool # "reinforce"
  BY DEF CallsOK, CallOK, MirrorSteps, TxSteps
<1> QED
  BY <1>1, <1>2 DEF Mirroring

\* Within a transaction, up to its end, only the mirror takes steps.
LEMMA OwnSteps ==
  ASSUME TypeOK, NEW p \in Pods, pc[p] \in TxSteps, pc'[p] \in TxSteps, Statement(p)
  PROVE  /\ \/ IncrementEntry(p) \/ Project(p) \/ Lookup(p)
            \/ InsertEntry(p) \/ UpdateEntry(p) \/ DeleteEntry(p)
         /\ UNCHANGED <<legacy, entries, ownL, call>>
<1> USE DEF Goto, Proceeds
<1>1. ~(\/ AddKnowledge(p) \/ Refuse(p) \/ Accept(p) \/ InsertRelation(p) \/ DeleteRelation(p))
  BY DEF AddKnowledge, Refuse, Accept, InsertRelation, DeleteRelation, TxSteps
<1>2. ~(\/ InsertKnowledge(p) \/ UpdateKnowledge(p) \/ SupersedeKnowledge(p)
        \/ UnsupersedeKnowledge(p) \/ SetPinned(p) \/ RecallEntry(p) \/ Increment(p))
  BY DEF InsertKnowledge, UpdateKnowledge, SupersedeKnowledge, UnsupersedeKnowledge, SetPinned,
     Mutate, RecallEntry, Increment, TxSteps
<1>3. ~(Commit(p) \/ RollBack(p))
  BY DEF Commit, RollBack, Finish, TypeOK, TxSteps
<1>4. \/ IncrementEntry(p) \/ Project(p) \/ Lookup(p)
      \/ InsertEntry(p) \/ UpdateEntry(p) \/ DeleteEntry(p)
  BY <1>1, <1>2, <1>3, Zenon DEF Statement
<1>5. UNCHANGED <<legacy, entries, ownL, call>>
  BY <1>4 DEF IncrementEntry, Project, Lookup, InsertEntry, UpdateEntry, DeleteEntry, tables
<1> QED
  BY <1>4, <1>5

LEMMA MirrorOwn ==
  ASSUME TypeOK, TypeOK', CallsOK, Ledger, EntryWrites, NEW p \in Pods,
         NEW t \in Ids, t = Target(call[p]), pc[p] \in TxSteps, pc'[p] \in TxSteps,
         Mirroring(p, t), Statement(p)
  PROVE  Mirroring(p, t)'
<1> USE DEF Goto, Proceeds
<1>1. /\ \/ IncrementEntry(p) \/ Project(p) \/ Lookup(p)
         \/ InsertEntry(p) \/ UpdateEntry(p) \/ DeleteEntry(p)
      /\ UNCHANGED <<legacy, entries, ownL, call>>
  BY OwnSteps
<1>2. /\ SeenLegacy(p, t)' = SeenLegacy(p, t)
      /\ Projection(SeenLegacy(p, t))' = Projection(SeenLegacy(p, t))
      /\ Agrees(t)' <=> Agrees(t)
  BY <1>1 DEF SeenLegacy, Visible, Projection, ToEntry, Agrees
<1>3. ownE[p] \in [Ids -> Row \cup {Absent, Same}] /\ ownE \in [Pods -> [Ids -> Row \cup {Absent, Same}]]
  BY DEF TypeOK
<1>4. SeenLegacy(p, t) \in Row \cup {Absent} /\ SeenEntry(p, t) \in Row \cup {Absent}
  BY VisibleType
<1>5. ownE' = ownE => SeenEntry(p, t)' = SeenEntry(p, t)
  BY <1>1 DEF SeenEntry, Visible
<1>p. ASSUME pc[p] \in MirrorSteps, ~AtFirst(p, t)
      PROVE  Current(p) # t /\ SeenEntry(p, t) = Projection(SeenLegacy(p, t))
  <2>1. call[p].tool # "reinforce"
    BY <1>p DEF CallsOK, CallOK, MirrorSteps, TxSteps
  <2> QED
    BY <1>p, <2>1 DEF Mirroring, AtFirst, Current
<1>q. ASSUME pc[p] \in MirrorSteps, MirrorNext(p), ~AtFirst(p, t),
             ownE' = ownE \/ \E row : ownE' = [ownE EXCEPT ![p][Current(p)] = row]
      PROVE  Mirroring(p, t)'
  <2>1. ownE'[p][t] = ownE[p][t]
    BY <1>3, <1>p, <1>q
  <2>2. SeenEntry(p, t)' = SeenEntry(p, t)
    BY <1>1, <2>1 DEF SeenEntry, Visible
  <2> QED
    BY <1>1, <1>2, <1>p, <1>q, <2>2, MirrorMoves
<1>6. CASE IncrementEntry(p)
  <2>1. /\ pc[p] = "countEntry" /\ pc'[p] = "commit" /\ call[p].tool = "reinforce"
        /\ call[p].id = t /\ ownE[p][t] = Same /\ SeenEntry(p, t) = entries[t]
    <3>1. pc[p] = "countEntry" /\ pc'[p] = "commit"
      BY <1>6 DEF IncrementEntry, TypeOK
    <3>2. call[p].tool = "reinforce"
      BY <3>1 DEF CallsOK, CallOK
    <3> QED
      BY <3>1, <3>2 DEF Target, EntryWrites, SeenEntry, Visible
  <2>2. ASSUME Agrees(t) PROVE SeenEntry(p, t)' = Projection(SeenLegacy(p, t))
    <3>1. entries[t] = Projection(legacy[t]) /\ (entries[t] = Absent <=> legacy[t] = Absent)
          /\ Projection(Absent) = Absent
      BY <2>2, ProjectionType DEF Agrees, Projection, TypeOK
    <3>2. CASE Held(p, t)
      <4>1. legacy[t] # Absent /\ ownL[p][t] = [legacy[t] EXCEPT !.hits = @ + 1]
        BY <2>1, <3>2 DEF Ledger, RowsOK
      <4>2. legacy[t] \in Row /\ ownL[p][t] \in Row /\ legacy[t].hits + 1 \in Nat
        <5>1. legacy[t] \in Row
          BY <4>1 DEF TypeOK
        <5>2. ownL[p][t] # Absent /\ ownL[p][t] # Same
          BY <2>1, <3>2 DEF Ledger, RowsOK, Held
        <5>3. ownL[p][t] \in Row
          BY <5>2 DEF TypeOK
        <5>4. legacy[t].hits \in Nat
          BY <5>1 DEF Row
        <5> QED
          BY <5>1, <5>3, <5>4
      <4> DEFINE n == legacy[t].hits + 1
      <4>3. ownL[p][t] = [legacy[t] EXCEPT !.hits = n] /\ n \in Nat
        BY <4>1, <4>2
      <4>4. SeenLegacy(p, t) = ownL[p][t] /\ SeenLegacy(p, t) # Absent
        BY <3>2, <4>2, RowIsARow DEF SeenLegacy, Visible, Held
      <4> HIDE DEF n
      <4>5. ownL[p][t].hits = n
        BY <4>2, <4>3 DEF Row
      <4>6. entries[t] = ToEntry(legacy[t]) /\ entries[t] # Absent
        BY <3>1, <4>1 DEF Projection
      <4>7. ownE' = [ownE EXCEPT ![p][t] = [entries[t] EXCEPT !.hits = n]]
        BY <1>6, <2>1, <4>4, <4>5, <4>6 DEF IncrementEntry, WriteEntry
      <4>8. [entries[t] EXCEPT !.hits = n] = ToEntry(ownL[p][t])
        <5>1. ToEntry([legacy[t] EXCEPT !.hits = n]) = [ToEntry(legacy[t]) EXCEPT !.hits = n]
          BY <4>2, <4>3, EntryOfCounted
        <5> QED
          BY <4>3, <4>6, <5>1
      <4>9. ownE'[p][t] = ToEntry(ownL[p][t]) /\ ToEntry(ownL[p][t]) # Same
        <5> DEFINE e == [entries[t] EXCEPT !.hits = n]
        <5>1. ownE' = [ownE EXCEPT ![p][t] = e]
          BY <4>7
        <5> HIDE DEF e
        <5>2. ownE'[p][t] = e
          BY <1>3, <5>1
        <5> QED
          BY <4>2, <4>8, <5>2, EntryIsARow, RowIsARow DEF e
      <4> QED
        BY <4>4, <4>9 DEF SeenEntry, Visible, Projection
    <3>3. CASE ~Held(p, t)
      <4>1. legacy[t] = Absent /\ SeenLegacy(p, t) = Absent
        BY <3>3 DEF Ledger, Locks, Gone, SeenLegacy, Visible, Held
      <4>2. ownE' = ownE
        BY <1>6, <2>1, <4>1 DEF IncrementEntry
      <4> QED
        BY <1>5, <2>1, <3>1, <4>1, <4>2
    <3> QED
      BY <3>2, <3>3
  <2>3. SeenLegacy(p, t) = Absent => ownE'[p][t] = Same
    BY <1>6, <2>1 DEF IncrementEntry
  <2> QED
    BY <1>1, <1>2, <2>1, <2>2, <2>3 DEF Mirroring, MirrorSteps
<1>7. CASE Project(p)
  <2>1. /\ pc[p] = "project" /\ ownE' = ownE /\ todo' = todo
        /\ want'[p] = Projection(SeenLegacy(p, Current(p)))
        /\ pc'[p] = IF SeenLegacy(p, Current(p)) = Absent THEN "dropEntry" ELSE "lookup"
    BY <1>7 DEF Project, TypeOK
  <2>2. call[p].tool # "reinforce"
    BY <2>1 DEF CallsOK, CallOK, TxSteps
  <2>3. CASE AtFirst(p, t)
    <3>1. Current(p) = t /\ AtFirst(p, t)'
      BY <2>1, <2>3 DEF AtFirst, Current, MirrorSteps
    <3> QED
      BY <1>1, <1>2, <2>1, <2>2, <3>1 DEF Mirroring
  <2>4. CASE ~AtFirst(p, t)
    <3>1. ~AtFirst(p, t)' /\ pc[p] \in MirrorSteps
      BY <2>1, <2>4 DEF AtFirst, MirrorSteps
    <3> QED
      BY <1>1, <1>2, <1>5, <2>1, <2>2, <2>4, <3>1 DEF Mirroring
  <2> QED
    BY <2>3, <2>4
<1>8. CASE Lookup(p)
  <2>1. pc[p] = "lookup" /\ pc[p] \in MirrorSteps /\ ownE' = ownE /\ want' = want
    BY <1>8 DEF Lookup, MirrorSteps
  <2>2. CASE MirrorNext(p) /\ SeenEntry(p, Current(p)) = want[p]
    <3>1. CASE AtFirst(p, t)
      <4>1. Current(p) = t /\ want[p] = Projection(SeenLegacy(p, t))
        BY <2>1, <3>1 DEF AtFirst, Current, Mirroring
      <4> QED
        BY <1>1, <1>2, <1>5, <2>1, <2>2, <4>1, MirrorMoves
    <3> QED
      BY <1>q, <2>1, <2>2, <3>1
  <2>3. ASSUME todo' = todo,
               \/ pc'[p] = "insertEntry"
               \/ pc'[p] = "updateEntry" /\ SeenEntry(p, Current(p)) # Absent
        PROVE  Mirroring(p, t)'
    <3>1. call[p].tool # "reinforce" /\ pc'[p] \in MirrorSteps
      BY <2>1, <2>3 DEF CallsOK, CallOK, TxSteps, MirrorSteps
    <3>2. AtFirst(p, t)' <=> AtFirst(p, t)
      BY <2>1, <2>3, <3>1 DEF AtFirst
    <3>3. CASE AtFirst(p, t)
      <4>1. Current(p) = t
        BY <3>3 DEF AtFirst, Current
      <4> QED
        BY <1>1, <1>2, <1>5, <2>1, <2>3, <3>1, <3>2, <3>3, <4>1 DEF Mirroring
    <3>4. CASE ~AtFirst(p, t)
      BY <1>1, <1>2, <1>5, <1>p, <2>1, <3>1, <3>2, <3>4 DEF Mirroring
    <3> QED
      BY <3>3, <3>4
  <2>4. \/ MirrorNext(p) /\ SeenEntry(p, Current(p)) = want[p]
        \/ todo' = todo /\ pc'[p] = "insertEntry"
        \/ todo' = todo /\ pc'[p] = "updateEntry" /\ SeenEntry(p, Current(p)) # Absent
    BY <1>8 DEF Lookup, TypeOK
  <2> QED
    BY <2>2, <2>3, <2>4
<1>9. CASE InsertEntry(p)
  <2>1. pc[p] = "insertEntry" /\ pc[p] \in MirrorSteps /\ MirrorNext(p)
        /\ ownE' = [ownE EXCEPT ![p][Current(p)] = want[p]]
    BY <1>9 DEF InsertEntry, WriteEntry, MirrorSteps
  <2>2. CASE AtFirst(p, t)
    <3>1. Current(p) = t /\ want[p] = Projection(SeenLegacy(p, t))
      BY <2>1, <2>2 DEF AtFirst, Current, Mirroring
    <3>2. ownE'[p][t] = want[p] /\ want[p] # Same
      BY <1>3, <1>4, <2>1, <3>1, ProjectionType, RowIsARow
    <3>3. SeenEntry(p, t)' = Projection(SeenLegacy(p, t))
      BY <3>1, <3>2 DEF SeenEntry, Visible
    <3> QED
      BY <1>1, <1>2, <2>1, <3>3, MirrorMoves
  <2> QED
    BY <1>q, <2>1, <2>2
<1>10. CASE UpdateEntry(p)
  <2>1. /\ pc[p] = "updateEntry" /\ pc[p] \in MirrorSteps /\ MirrorNext(p)
        /\ SeenEntry(p, Current(p)) # Absent => ownE' = [ownE EXCEPT ![p][Current(p)] = want[p]]
        /\ ownE' = ownE \/ \E row : ownE' = [ownE EXCEPT ![p][Current(p)] = row]
    BY <1>10 DEF UpdateEntry, WriteEntry, MirrorSteps
  <2>2. CASE AtFirst(p, t)
    <3>1. Current(p) = t /\ want[p] = Projection(SeenLegacy(p, t)) /\ SeenEntry(p, t) # Absent
      BY <2>1, <2>2 DEF AtFirst, Current, Mirroring
    <3>2. ownE'[p][t] = want[p] /\ want[p] # Same
      BY <1>3, <1>4, <2>1, <3>1, ProjectionType, RowIsARow
    <3>3. SeenEntry(p, t)' = Projection(SeenLegacy(p, t))
      BY <3>1, <3>2 DEF SeenEntry, Visible
    <3> QED
      BY <1>1, <1>2, <2>1, <3>3, MirrorMoves
  <2> QED
    BY <1>q, <2>1, <2>2
<1>11. CASE DeleteEntry(p)
  <2>1. /\ pc[p] = "dropEntry" /\ pc[p] \in MirrorSteps /\ MirrorNext(p)
        /\ IF SeenEntry(p, Current(p)) # Absent
           THEN ownE' = [ownE EXCEPT ![p][Current(p)] = Absent] ELSE ownE' = ownE
        /\ ownE' = ownE \/ \E row : ownE' = [ownE EXCEPT ![p][Current(p)] = row]
    BY <1>11 DEF DeleteEntry, WriteEntry, MirrorSteps
  <2>2. CASE AtFirst(p, t)
    <3>1. Current(p) = t /\ SeenLegacy(p, t) = Absent /\ Projection(Absent) = Absent
      BY <2>1, <2>2 DEF AtFirst, Current, Mirroring, Projection
    <3>2. SeenEntry(p, t)' = Absent
      <4>1. CASE SeenEntry(p, t) # Absent
        BY <1>3, <2>1, <3>1, <4>1, RowIsARow DEF SeenEntry, Visible
      <4>2. CASE SeenEntry(p, t) = Absent
        BY <1>5, <2>1, <3>1, <4>2
      <4> QED
        BY <4>1, <4>2
    <3> QED
      BY <1>1, <1>2, <2>1, <3>1, <3>2, MirrorMoves
  <2> QED
    BY <1>q, <2>1, <2>2
<1> QED
  BY <1>1, <1>6, <1>7, <1>8, <1>9, <1>10, <1>11

LEMMA MirrorBegun ==
  ASSUME TypeOK, TypeOK', CallsOK, Ledger, NEW p \in Pods, NEW t \in Ids, t = Target(call'[p]),
         Proceeds(p, "write"), pc'[p] \in TxSteps, Statement(p)
  PROVE  Mirroring(p, t)'
<1> USE DEF Goto
<1>1. \/ InsertKnowledge(p) \/ UpdateKnowledge(p) \/ SupersedeKnowledge(p)
      \/ UnsupersedeKnowledge(p) \/ SetPinned(p) \/ RecallEntry(p) \/ Increment(p)
  <2>1. ~(\/ AddKnowledge(p) \/ Refuse(p) \/ Accept(p) \/ InsertRelation(p) \/ DeleteRelation(p))
    BY DEF AddKnowledge, Refuse, Accept, InsertRelation, DeleteRelation, Proceeds
  <2>2. ~(\/ IncrementEntry(p) \/ Project(p) \/ Lookup(p)
          \/ InsertEntry(p) \/ UpdateEntry(p) \/ DeleteEntry(p))
    BY DEF IncrementEntry, Project, Lookup, InsertEntry, UpdateEntry, DeleteEntry, Proceeds
  <2>3. ~(Commit(p) \/ RollBack(p))
    BY DEF Commit, RollBack, Finish, TypeOK, TxSteps
  <2> QED
    BY <2>1, <2>2, <2>3, Zenon DEF Statement
<1>2. ASSUME pc'[p] = "project", Head(todo'[p]) = t PROVE Mirroring(p, t)'
  BY <1>2 DEF Mirroring, AtFirst, MirrorSteps
<1>3. \A x, y : Head(<<x>>) = x /\ Head(<<x, y>>) = x
  OBVIOUS
<1>4. CASE InsertKnowledge(p)
  <2>1. /\ pc'[p] = "project" /\ todo'[p] = <<nextId>> /\ call[p].tool \in {"insert", "decide"}
        /\ call[p] \in Call
        /\ IF call[p].tool = "decide" THEN call'[p] = [call[p] EXCEPT !.new = nextId]
                                      ELSE call'[p] = [call[p] EXCEPT !.id = nextId]
    BY <1>4 DEF InsertKnowledge, TypeOK
  <2>2. Target(call'[p]) = nextId
    BY <2>1 DEF Call, Target
  <2> QED
    BY <1>2, <1>3, <2>1, <2>2
<1>5. CASE UpdateKnowledge(p) \/ SupersedeKnowledge(p) \/ UnsupersedeKnowledge(p) \/ SetPinned(p)
  <2>1. PICK tool, row : tool \in {"update", "supersede", "unsupersede", "pin"} /\ Mutate(p, tool, row)
    BY <1>5 DEF UpdateKnowledge, SupersedeKnowledge, UnsupersedeKnowledge, SetPinned
  <2>2. /\ pc'[p] = "project" /\ todo'[p] = Mirrored(call[p]) /\ call' = call /\ call[p].tool = tool
    BY <2>1 DEF Mutate, TypeOK
  <2>3. t = call[p].id
    BY <2>1, <2>2 DEF Target
  <2> QED
    BY <1>2, <1>3, <2>2, <2>3 DEF Mirrored
<1>6. CASE RecallEntry(p)
  <2>1. /\ pc'[p] = "dropEntry" /\ todo'[p] = <<call[p].id>> /\ call' = call /\ call[p].tool = "recall"
        /\ legacy' = legacy
        /\ IF Exists(call[p].id) THEN ownL' = [ownL EXCEPT ![p][call[p].id] = Absent] ELSE ownL' = ownL
    BY <1>6 DEF RecallEntry, TypeOK, WriteLegacy, tables
  <2>2. t = call[p].id /\ ~Held(p, t)
    BY <2>1, RowFree DEF Target
  <2>3. AtFirst(p, t)'
    BY <1>3, <2>1, <2>2 DEF AtFirst, MirrorSteps
  <2>4. SeenLegacy(p, t)' = Absent
    BY <2>1, <2>2, RowIsARow DEF SeenLegacy, Visible, Held, Exists, TypeOK
  <2> QED
    BY <2>1, <2>3, <2>4 DEF Mirroring
<1>7. CASE Increment(p)
  <2>1. pc'[p] = "countEntry"
    BY <1>7 DEF Increment, TypeOK
  <2> QED
    BY <2>1 DEF Mirroring, AtFirst, MirrorSteps
<1> QED
  BY <1>1, <1>4, <1>5, <1>6, <1>7

LEMMA MirrorsStep ==
  ASSUME TypeOK, TypeOK', CallsOK, CallsOK', Ledger, Boots, EntryWrites, Mirrors,
         NEW p \in Pods, Step(p)
  PROVE  Mirrors'
<1>1. Frame(p) /\ Shape(p)
  BY FrameStep, ShapeStep
<1>2. \A q \in Pods \ {p} : MirrorOK(q)'
  BY <1>1, MirrorOthers
<1>3. ASSUME pc'[p] \in TxSteps, NEW t \in Ids, t = Target(call'[p]), NoSuccessor(t)'
      PROVE  Mirroring(p, t)'
  <2>1. Statement(p)
    BY ZenonT(60), <1>3 DEF Step, Boot, BootLock, BootVersion, BootRepair, BootCommit, PostClaim, CallTool, Crash,
       Goto, TypeOK, TxSteps
  <2>2. CASE Proceeds(p, "write")
    BY <1>3, <2>1, <2>2, MirrorBegun
  <2>3. CASE pc[p] \in TxSteps
    <3>1. call' = call
      BY <1>3, <2>1, <2>3, OwnSteps
    <3>2. NoSuccessor(t) /\ t = Target(call[p])
      BY <1>1, <1>3, <3>1, SuccessorStays DEF Frame
    <3>3. Mirroring(p, t)
      <4>1. MirrorOK(p)
        BY DEF Mirrors
      <4> QED
        BY <2>3, <3>2, <4>1 DEF MirrorOK
    <3> QED
      BY <1>3, <2>1, <2>3, <3>2, <3>3, MirrorOwn
  <2> QED
    BY <1>1, <1>3, <2>2, <2>3 DEF Shape
<1>4. MirrorOK(p)'
  <2> SUFFICES ASSUME pc'[p] \in TxSteps, NoSuccessor(Target(call[p]))'
               PROVE  Mirroring(p, Target(call[p]))'
    BY DEF MirrorOK
  <2>1. Target(call'[p]) \in Ids
    BY DEF CallsOK, CallOK, Target
  <2>2. PICK t \in Ids : t = Target(call'[p])
    BY <2>1
  <2>3. NoSuccessor(t)'
    BY <2>2 DEF NoSuccessor, Target
  <2>4. Mirroring(p, t)'
    BY <1>3, <2>2, <2>3
  <2> QED
    BY <2>2, <2>4 DEF Mirroring, AtFirst, Target
<1> QED
  BY <1>2, <1>4 DEF Mirrors

----------------------------------------------------------------------------
(* The invariant, and what follows from it.                                *)

LEMMA InvInit == Init => IInv
<1> SUFFICES ASSUME Init PROVE IInv
  OBVIOUS
<1>0. TypeOK
  BY TypeInit
<1>1. PICK n \in 0..MaxId : /\ Stored \in [1..n -> Row]
                            /\ \A i \in 1..n : Stored[i].status = "superseded" =>
                                  Stored[i].by \in (1..n) \ {i}
  BY StoredAssumption
<1>2. n \in Nat /\ n <= MaxId /\ DOMAIN Stored = 1..n /\ nextId = n + 1
  <2>1. n \in Nat /\ n <= MaxId
    BY <1>1, BoundIsNat
  <2>2. Cardinality(1..n) = n
    BY <2>1, FS_Interval
  <2>3. DOMAIN Stored = 1..n
    BY <1>1
  <2> QED
    BY <2>1, <2>2, <2>3 DEF Init
<1>3. \A p \in Pods : pc[p] = "down"
  BY DEF Init
<1>4. \A p \in Pods, i \in Ids : ~Held(p, i) /\ ownE[p][i] = Same
  BY DEF Init, Held, Unwritten
<1>5. CallsOK
  BY <1>3 DEF CallsOK, CallOK, TxSteps, MirrorSteps
<1>6. FreshIds
  <2>1. ASSUME NEW i \in Ids, i >= nextId PROVE i \notin DOMAIN Stored
    BY <1>2, <2>1, BoundIsNat DEF Ids
  <2> QED
    BY <1>4, <2>1 DEF Init, FreshIds, StoredRow
<1>7. Locks
  BY <1>3, <1>4 DEF Locks, TxSteps
<1>8. RowsOK
  <2>1. ASSUME NEW i \in Ids, legacy[i] # Absent
        PROVE  legacy[i].hits = StoredHits(i) + acked[i] /\ Explained(edges, legacy[i], i)
    <3>1. i \in 1..n /\ legacy[i] = Stored[i] /\ Stored[i] \in Row /\ acked[i] = 0
      BY <1>1, <1>2, <2>1 DEF Init, StoredRow
    <3>2. legacy[i].hits = StoredHits(i) + acked[i]
      BY <1>2, <3>1 DEF StoredHits, Row
    <3>3. ASSUME Stored[i].status = "superseded"
          PROVE  Stored[i].by \in Ids /\ edges[<<Stored[i].by, i>>] # "never"
      <4>1. Stored[i].by \in Ids /\ <<Stored[i].by, i>> \in Ids \X Ids
        BY <1>1, <1>2, <3>1, <3>3, BoundIsNat DEF Ids
      <4>2. <<Stored[i].by, i>> \in StoredEdges
        BY <1>2, <3>1, <3>3 DEF StoredEdges
      <4> QED
        BY <4>1, <4>2 DEF Init
    <3> QED
      BY <3>1, <3>2, <3>3 DEF Explained
  <2> QED
    BY <1>4, <2>1 DEF RowsOK
<1>9. Audit
  BY <1>1, <1>2, RowIsARow DEF Init, Audit, StoredRow
<1>10. Boots /\ Mirrors
  BY <1>3 DEF Boots, BootSteps, Mirrors, MirrorOK, TxSteps
<1>11. EntryWrites
  BY <1>4 DEF EntryWrites
<1> QED
  BY <1>0, <1>5, <1>6, <1>7, <1>8, <1>9, <1>10, <1>11 DEF IInv, Ledger

LEMMA InvStep == IInv /\ [Next]_vars => IInv'
<1> SUFFICES ASSUME IInv, [Next]_vars PROVE IInv'
  OBVIOUS
<1> USE DEF IInv
<1>1. TypeOK'
  BY TypeStep
<1>2. ASSUME NEW p \in Pods, Step(p) PROVE IInv'
  <2>1. CallsOK'
    BY <1>1, <1>2, CallsStep DEF Ledger
  <2>2. Ledger'
    BY <1>1, <1>2, LedgerStep
  <2>3. Boots' /\ EntryWrites'
    BY <1>1, <1>2, BootsStep, EntryWritesStep
  <2>4. Mirrors'
    BY <1>1, <1>2, <2>1, MirrorsStep
  <2> QED
    BY <1>1, <2>1, <2>2, <2>3, <2>4
<1>3. CASE UNCHANGED vars
  <2> USE <1>3 DEF vars
  <2>1. CallsOK'
    BY DEF CallsOK, CallOK, Target, Recorded
  <2>2. FreshIds' /\ Locks' /\ Audit'
    BY DEF Ledger, FreshIds, Locks, Audit, Held, Gone, Target
  <2>3. RowsOK'
    BY DEF Ledger, RowsOK, Held
  <2>4. Boots'
    BY DEF Boots, SeenEntry, Visible, Projection, ToEntry
  <2>5. EntryWrites'
    BY DEF EntryWrites, Target
  <2>6. ASSUME NEW p \in Pods PROVE MirrorOK(p)'
    <3>1. Target(call[p])' = Target(call[p])
      BY DEF Target
    <3>2. PICK t : t = Target(call[p])
      OBVIOUS
    <3>3. /\ SeenLegacy(p, t)' = SeenLegacy(p, t) /\ SeenEntry(p, t)' = SeenEntry(p, t)
          /\ Projection(SeenLegacy(p, t))' = Projection(SeenLegacy(p, t))
      BY DEF SeenLegacy, SeenEntry, Visible, Projection, ToEntry
    <3>4. /\ NoSuccessor(t)' <=> NoSuccessor(t)
          /\ AtFirst(p, t)' <=> AtFirst(p, t)
          /\ Agrees(t)' <=> Agrees(t)
      BY DEF NoSuccessor, AtFirst, Agrees, Projection, ToEntry
    <3>5. Mirroring(p, t) => Mirroring(p, t)'
      BY <3>3, <3>4 DEF Mirroring
    <3> QED
      BY <3>1, <3>2, <3>4, <3>5 DEF Mirrors, MirrorOK
  <2> QED
    BY <1>1, <2>1, <2>2, <2>3, <2>4, <2>5, <2>6 DEF Ledger, Mirrors
<1>4. Next => \E p \in Pods : Step(p)
  BY DEF Next, Step
<1> QED
  BY <1>2, <1>3, <1>4

----------------------------------------------------------------------------
(* Commits and boots: what a step does to the agreement of the two tables. *)

\* A commit disturbs no row that no relation names as successor: its own row
\* it has mirrored, and of the others it writes neither table.
LEMMA CommitAgrees ==
  ASSUME IInv, NEW p \in Pods, Commit(p), NEW i \in Ids, Agrees(i), NoSuccessor(i)
  PROVE  Agrees(i)'
<1> USE DEF IInv
<1>1. legacy'[i] = SeenLegacy(p, i) /\ entries'[i] = SeenEntry(p, i)
  BY DEF Commit, Merge, SeenLegacy, SeenEntry
<1>2. pc[p] = "commit" /\ pc[p] \in TxSteps
  BY DEF Commit, TxSteps
<1>3. CASE i = Target(call[p])
  <2>1. Mirroring(p, i)
    BY <1>2, <1>3 DEF Mirrors, MirrorOK
  <2>2. SeenEntry(p, i) = Projection(SeenLegacy(p, i))
    BY <1>2, <2>1 DEF Mirroring
  <2> QED
    BY <1>1, <2>2 DEF Agrees, Projection, ToEntry
<1>4. CASE i # Target(call[p])
  <2>1. ownL[p][i] = Same
    BY <1>4 DEF Ledger, Locks, Held
  <2>2. ownE[p][i] = Same
    BY <1>2, <1>4, OthersEntry
  <2>3. legacy'[i] = legacy[i] /\ entries'[i] = entries[i]
    BY <1>1, <2>1, <2>2 DEF SeenLegacy, SeenEntry, Visible
  <2> QED
    BY <2>3 DEF Agrees, Projection, ToEntry
<1> QED
  BY <1>3, <1>4

\* What a boot has filled or repaired is what the calls have left.
LEMMA BootAgrees ==
  ASSUME IInv, NEW p \in Pods, BootCommit(p), NEW i \in Ids
  PROVE  Agrees(i)'
<1>1. pc[p] = "filled"
  BY DEF BootCommit, Proceeds
<1>2. SeenEntry(p, i) = Projection(legacy[i])
  BY <1>1 DEF IInv, Boots
<1>3. legacy'[i] = legacy[i] /\ entries'[i] = SeenEntry(p, i)
  BY DEF BootCommit, Merge, SeenEntry
<1> QED
  BY <1>2, <1>3 DEF Agrees, Projection, ToEntry

\* A boot that has filled entries waits for nobody, so nothing makes it fail.
LEMMA FilledCommits ==
  ASSUME TypeOK, NEW p \in Pods, Step(p), pc[p] = "filled", pc'[p] = "idle"
  PROVE  BootCommit(p)
<1>1. WaitsFor(p) = {}
  BY DEF WaitsFor
<1>2. ~RollBack(p)
  BY <1>1 DEF RollBack, Fails, Deadlocked, Proceeds
<1>3. ~(\/ AddKnowledge(p) \/ Refuse(p) \/ Accept(p) \/ InsertRelation(p) \/ DeleteRelation(p))
  BY DEF AddKnowledge, Refuse, Accept, InsertRelation, DeleteRelation, Proceeds
<1>4. ~(\/ InsertKnowledge(p) \/ UpdateKnowledge(p) \/ SupersedeKnowledge(p)
        \/ UnsupersedeKnowledge(p) \/ SetPinned(p) \/ RecallEntry(p) \/ Increment(p))
  BY DEF InsertKnowledge, UpdateKnowledge, SupersedeKnowledge, UnsupersedeKnowledge, SetPinned,
     Mutate, RecallEntry, Increment, Proceeds
<1>5. ~(\/ IncrementEntry(p) \/ Project(p) \/ Lookup(p) \/ InsertEntry(p)
        \/ UpdateEntry(p) \/ DeleteEntry(p) \/ Commit(p))
  BY DEF IncrementEntry, Project, Lookup, InsertEntry, UpdateEntry, DeleteEntry, Commit, Proceeds
<1>6. ~Statement(p)
  BY <1>2, <1>3, <1>4, <1>5, Zenon DEF Statement
<1>7. ~(\E topic \in Topics, text \in Texts : PostClaim(p, topic, text))
      /\ ~(\E c \in Requests : CallTool(p, c))
  BY DEF PostClaim, CallTool, Begin
<1>8. ~Crash(p)
  BY DEF Crash, Goto, TypeOK
<1>9. ~BootLock(p) /\ ~BootVersion(p) /\ ~BootRepair(p)
  BY DEF BootLock, BootVersion, BootRepair, Proceeds
<1> QED
  BY <1>6, <1>7, <1>8, <1>9, Zenon DEF Step, Boot

----------------------------------------------------------------------------
(* The theorems.                                                           *)

\* The tables, the transactions under way and the calls they belong to stay
\* as the inductive invariant says: who holds a row, how far its mirror has
\* come, what a relation or a log row already accounts for (entries.py,
\* mirrored(); adapters/postgres/storage.py, transaction()).
THEOREM Invariant == Spec => []IInv
BY InvInit, InvStep, PTL DEF Spec

\* A recalled row is gone, it is named in recall_log, and no call that was
\* under way brings it back (tools/knowledge.py, kb_recall: the row and its log
\* row in one transaction).
THEOREM RecallAudited == Spec => []RecallIsAudited
<1>1. IInv => RecallIsAudited
  BY DEF IInv, Ledger, Audit, Gone, Held, RecallIsAudited
<1> QED
  BY <1>1, Invariant, PTL

\* A row's counter is the stored one plus the increments acknowledged, whatever
\* else updates the row (adapters/postgres/counters.py, increment: the UPDATE
\* computes the counter, and the row's lock orders the writers).
THEOREM CountersAreExact == Spec => []CountersExact
<1>1. IInv => CountersExact
  BY DEF IInv, Ledger, RowsOK, CountersExact
<1> QED
  BY <1>1, Invariant, PTL

\* A superseded row's relation has been recorded (tools/knowledge.py,
\* supersede_knowledge: the relation is inserted before the status is flipped).
THEOREM SupersessionExplained == Spec => []SupersessionIsExplained
<1>1. IInv => SupersessionIsExplained
  BY DEF IInv, Ledger, RowsOK, Explained, SupersessionIsExplained
<1> QED
  BY <1>1, Invariant, PTL

\* Every commit and every boot keeps a row and its entry alike, unless the row
\* has been named as a successor (entries.py, mirrored(), which re-projects
\* the successor without having locked it).
THEOREM OnlySuccessors == Spec => OnlySuccessorsDrift
<1> DEFINE Drifts ==
      \A i \in Ids : Agrees(i) /\ ~Agrees(i)' => \E old \in Ids : edges[<<i, old>>] # "never"
<1>1. IInv /\ [Next]_vars => [Drifts]_vars
  <2> SUFFICES ASSUME IInv, Next, NEW i \in Ids, Agrees(i), NoSuccessor(i)
               PROVE  Agrees(i)'
    BY DEF NoSuccessor
  <2>1. PICK p \in Pods : Step(p)
    BY DEF Next, Step
  <2>2. UNCHANGED <<legacy, entries>> \/ Commit(p) \/ BootCommit(p)
    BY <2>1, ShapeStep DEF IInv, Shape
  <2>3. CASE UNCHANGED <<legacy, entries>>
    BY <2>3 DEF Agrees, Projection, ToEntry
  <2> QED
    BY <2>2, <2>3, CommitAgrees, BootAgrees
<1> QED
  BY <1>1, Invariant, PTL DEF Spec, OnlySuccessorsDrift

\* A boot that comes to its end leaves every entry equal to the projection of
\* its row (entries.py, backfill and reconcile, under the SHARE locks that
\* ensure_schema keeps until it commits).
THEOREM BootsRepair == Spec => BootRepairs
<1> DEFINE Repairs ==
      \A p \in Pods : pc[p] = "filled" /\ pc'[p] = "idle" => \A i \in Ids : Agrees(i)'
<1>1. IInv /\ [Next]_vars => [Repairs]_vars
  <2> SUFFICES ASSUME IInv, Next, NEW p \in Pods, pc[p] = "filled", pc'[p] = "idle",
                      NEW i \in Ids
               PROVE  Agrees(i)'
    OBVIOUS
  <2>1. PICK q \in Pods : Step(q)
    BY DEF Next, Step
  <2>2. q = p
    BY <2>1, FrameStep DEF IInv, Frame, Alone
  <2>3. BootCommit(p)
    BY <2>1, <2>2, FilledCommits DEF IInv
  <2> QED
    BY <2>3, BootAgrees
<1> QED
  BY <1>1, Invariant, PTL DEF Spec, BootRepairs
=============================================================================
