------------------------ MODULE SchemaUpgradeProofs ------------------------
(***************************************************************************)
(* Proofs about SchemaUpgrade, for any processes, rows, versions found and *)
(* bounds on boots and crashes.                                            *)
(***************************************************************************)
EXTENDS SchemaInvariant, SequenceTheorems, TLAPS

----------------------------------------------------------------------------
(* What a list of statements spoils and repairs.                           *)

LEMMA TrigTrig == \A t, u, x, y : Trig(t, x) = Trig(u, y) => t = u /\ x = y
  BY DEF Trig

LEMMA ShapeShape == \A t, u : Shape(t) = Shape(u) => t = u
  BY DEF Shape

LEMMA RowsRows == \A t, u : RowsIn(t) = RowsIn(u) => t = u
  BY DEF RowsIn

LEMMA TrigShape == \A t, u, x : Trig(t, x) # Shape(u) /\ Shape(u) # Trig(t, x)
  BY DEF Trig, Shape

LEMMA TrigRows == \A t, u, x : Trig(t, x) # RowsIn(u) /\ RowsIn(u) # Trig(t, x)
  BY DEF Trig, RowsIn

LEMMA ShapeRows == \A t, u : Shape(t) # RowsIn(u) /\ RowsIn(u) # Shape(t)
  BY DEF Shape, RowsIn

LEMMA TxDiffers == \A t, x : Tx # Trig(t, x) /\ Tx # Shape(t) /\ Tx # RowsIn(t)
  BY DEF Trig, Shape, RowsIn, Tx

LEMMA SpoilsOrRepairs ==
    ASSUME NEW s, NEW a, a \in Spoils(s), a \in Repairs(s)
    PROVE  FALSE
<1>1. CASE s.op \in {"drop trigger", "create narrow trigger", "drop fts",
                     "create narrow fts"}
  <2>1. Repairs(s) = {}
    BY <1>1 DEF Repairs
  <2> QED BY <2>1
<1>2. CASE s.op = "create fts"
  <2>1. Spoils(s) = {RowsIn(s.table)}
    BY <1>2 DEF Spoils
  <2>2. Repairs(s) = {Shape(s.table)}
    BY <1>2 DEF Repairs
  <2> QED BY <2>1, <2>2, ShapeRows
<1>3. CASE s.op \notin {"drop trigger", "create narrow trigger", "drop fts",
                        "create narrow fts", "create fts"}
  <2>1. a = Tx /\ s.how = "dml"
    BY <1>3 DEF Spoils
  <2>2. \/ Repairs(s) = {Trig(s.table, s.name)}
        \/ Repairs(s) = {Shape(s.table)}
        \/ Repairs(s) = {RowsIn(s.table)}
        \/ Repairs(s) = {}
    BY <2>1 DEF Repairs
  <2> QED BY <2>1, <2>2, TxDiffers
<1> QED BY <1>1, <1>2, <1>3

LEMMA OpensFirst ==
    ASSUME NEW L, NEW O \in SUBSET Aspects
    PROVE  Opens(L, 0, O) = O
  BY DEF Opens, Spoilt, Unrepaired

LEMMA OpensNext ==
    ASSUME NEW L, NEW k \in Nat, NEW O
    PROVE  Opens(L, k + 1, O)
              = (Opens(L, k, O) \cup (Spoils(L[k + 1]) \cap Aspects)) \ Repairs(L[k + 1])
<1> DEFINE n == k + 1
<1>0. n \in Nat /\ n \in 1..n /\ (n + 1)..n = {}
      /\ (\A i \in 1..n : i = n \/ (i \in 1..k /\ n \in (i + 1)..n))
      /\ (\A i \in 1..k : i \in 1..n)
      /\ \A i \in Int : \A j \in (i + 1)..n : j = n \/ j \in (i + 1)..k
  OBVIOUS
<1>6. \A i \in Int : \A j \in (i + 1)..k : j \in (i + 1)..n
  OBVIOUS
<1> HIDE DEF n
<1>1. ASSUME NEW a
      PROVE  Spoilt(L, n, a)
                <=> (Spoilt(L, k, a) \/ a \in Spoils(L[n])) /\ a \notin Repairs(L[n])
  <2>1. ASSUME Spoilt(L, n, a)
        PROVE  (Spoilt(L, k, a) \/ a \in Spoils(L[n])) /\ a \notin Repairs(L[n])
    <3>1. PICK i \in 1..n :
             a \in Spoils(L[i]) /\ \A j \in (i + 1)..n : a \notin Repairs(L[j])
      BY <2>1 DEF Spoilt
    <3>2. CASE i = n
      BY <3>1, <3>2, SpoilsOrRepairs
    <3>3. CASE i # n
      <4>1. i \in 1..k /\ n \in (i + 1)..n /\ i \in Int
        BY <1>0, <3>3
      <4>2. \A j \in (i + 1)..k : a \notin Repairs(L[j])
        BY <1>6, <3>1, <4>1
      <4> QED BY <3>1, <4>1, <4>2 DEF Spoilt
    <3> QED BY <3>2, <3>3
  <2>2. ASSUME Spoilt(L, k, a), a \notin Repairs(L[n])
        PROVE  Spoilt(L, n, a)
    <3>1. PICK i \in 1..k :
             a \in Spoils(L[i]) /\ \A j \in (i + 1)..k : a \notin Repairs(L[j])
      BY <2>2 DEF Spoilt
    <3>2. \A j \in (i + 1)..n : a \notin Repairs(L[j])
      BY <1>0, <2>2, <3>1
    <3> QED BY <1>0, <3>1, <3>2 DEF Spoilt
  <2>3. ASSUME a \in Spoils(L[n]), a \notin Repairs(L[n])
        PROVE  Spoilt(L, n, a)
    BY <1>0, <2>3 DEF Spoilt
  <2> QED BY <2>1, <2>2, <2>3
<1>2. ASSUME NEW a
      PROVE  Unrepaired(L, n, a) <=> Unrepaired(L, k, a) /\ a \notin Repairs(L[n])
  BY <1>0 DEF Unrepaired
<1>3. Opens(L, n, O) = (Opens(L, k, O) \cup (Spoils(L[n]) \cap Aspects)) \ Repairs(L[n])
  <2> SUFFICES ASSUME NEW a \in Aspects
               PROVE  a \in Opens(L, n, O)
                         <=> /\ a \in Opens(L, k, O) \/ a \in Spoils(L[n])
                             /\ a \notin Repairs(L[n])
    BY DEF Opens
  <2> QED BY <1>1, <1>2 DEF Opens
<1> QED BY <1>3 DEF n

\* The first part of a list, and the second.
LEMMA OpensLeft ==
    ASSUME NEW L \in Seq(Statements), NEW M \in Seq(Statements), NEW O,
           NEW k \in 0..Len(L)
    PROVE  Opens(L \o M, k, O) = Opens(L, k, O)
<1>1. \A i \in 1..k : (L \o M)[i] = L[i]
  OBVIOUS
<1>2. ASSUME NEW a
      PROVE  /\ Spoilt(L \o M, k, a) <=> Spoilt(L, k, a)
             /\ Unrepaired(L \o M, k, a) <=> Unrepaired(L, k, a)
  <2>1. \A i \in 1..k : (i + 1)..k \subseteq 1..k
    OBVIOUS
  <2> QED BY <1>1, <2>1 DEF Spoilt, Unrepaired
<1> QED BY <1>2 DEF Opens

LEMMA OpensRight ==
    ASSUME NEW L \in Seq(Statements), NEW M \in Seq(Statements), NEW O,
           NEW k \in 0..Len(M)
    PROVE  Opens(L \o M, Len(L) + k, O) = Opens(M, k, Opens(L, Len(L), O))
<1> DEFINE n == Len(L)
           m == Len(L) + k
           LM == L \o M
<1>1. n \in Nat /\ k \in Nat /\ m = n + k
      /\ (\A i \in 1..n : LM[i] = L[i]) /\ \A i \in 1..k : LM[n + i] = M[i]
  OBVIOUS
<1> HIDE DEF n, m, LM
<1>0. \A i \in 1..m :
         \/ i \in 1..n
         \/ i - n \in 1..k /\ n + (i - n) = i
  BY <1>1
<1>5. ASSUME NEW i \in 1..m, i - n \in 1..k /\ n + (i - n) = i
      PROVE  LM[i] = M[i - n]
  <2>1. LM[n + (i - n)] = M[i - n]
    BY <1>1, <1>5
  <2> QED BY <1>5, <2>1
<1>6. (\A i \in 1..n : i \in 1..m) /\ \A i \in 1..k : n + i \in 1..m
  BY <1>1
<1>2. ASSUME NEW a
      PROVE  Unrepaired(LM, m, a) <=> Unrepaired(L, n, a) /\ Unrepaired(M, k, a)
  BY <1>0, <1>1, <1>5, <1>6 DEF Unrepaired
<1>3. ASSUME NEW a
      PROVE  Spoilt(LM, m, a)
                <=> Spoilt(M, k, a) \/ (Spoilt(L, n, a) /\ Unrepaired(M, k, a))
  <2>1. ASSUME Spoilt(LM, m, a)
        PROVE  Spoilt(M, k, a) \/ (Spoilt(L, n, a) /\ Unrepaired(M, k, a))
    <3>1. PICK i \in 1..m :
             a \in Spoils(LM[i]) /\ \A j \in (i + 1)..m : a \notin Repairs(LM[j])
      BY <2>1 DEF Spoilt
    <3>2. CASE i \in 1..n
      <4>1. a \in Spoils(L[i])
        BY <1>1, <3>1, <3>2
      <4>2. ASSUME NEW j \in (i + 1)..n PROVE a \notin Repairs(L[j])
        <5>1. j \in (i + 1)..m /\ j \in 1..n
          BY <1>1, <3>2
        <5> QED BY <1>1, <3>1, <5>1
      <4>4. ASSUME NEW j \in 1..k PROVE a \notin Repairs(M[j])
        <5>1. n + j \in (i + 1)..m
          BY <1>1, <3>2
        <5> QED BY <1>1, <3>1, <5>1
      <4> QED BY <3>2, <4>1, <4>2, <4>4 DEF Spoilt, Unrepaired
    <3>3. CASE i - n \in 1..k /\ n + (i - n) = i
      <4>2. a \in Spoils(M[i - n])
        BY <1>5, <3>1, <3>3
      <4>3. ASSUME NEW j \in ((i - n) + 1)..k PROVE a \notin Repairs(M[j])
        <5>1. n + j \in (i + 1)..m /\ j \in 1..k
          BY <1>1, <3>3
        <5> QED BY <1>1, <3>1, <5>1
      <4> QED BY <3>3, <4>2, <4>3 DEF Spoilt
    <3> QED BY <1>0, <3>2, <3>3
  <2>2. ASSUME Spoilt(M, k, a)
        PROVE  Spoilt(LM, m, a)
    <3>1. PICK i \in 1..k :
             a \in Spoils(M[i]) /\ \A j \in (i + 1)..k : a \notin Repairs(M[j])
      BY <2>2 DEF Spoilt
    <3>4. a \in Spoils(LM[n + i])
      BY <1>1, <3>1
    <3>3. ASSUME NEW j \in ((n + i) + 1)..m PROVE a \notin Repairs(LM[j])
      <4>1. /\ j - n \in (i + 1)..k
            /\ j \in 1..m
            /\ j - n \in 1..k /\ n + (j - n) = j
        BY <1>1
      <4> QED BY <1>5, <3>1, <4>1
    <3> QED BY <1>6, <3>3, <3>4 DEF Spoilt
  <2>3. ASSUME Spoilt(L, n, a), Unrepaired(M, k, a)
        PROVE  Spoilt(LM, m, a)
    <3>1. PICK i \in 1..n :
             a \in Spoils(L[i]) /\ \A j \in (i + 1)..n : a \notin Repairs(L[j])
      BY <2>3 DEF Spoilt
    <3>2. i \in 1..m /\ a \in Spoils(LM[i])
      BY <1>1, <1>6, <3>1
    <3>3. ASSUME NEW j \in (i + 1)..m PROVE a \notin Repairs(LM[j])
      <4>0. j \in 1..m /\ (j \in 1..n => j \in (i + 1)..n)
        BY <1>1
      <4>1. CASE j \in 1..n
        BY <1>1, <3>1, <4>0, <4>1
      <4>2. CASE j - n \in 1..k /\ n + (j - n) = j
        BY <1>5, <2>3, <4>0, <4>2 DEF Unrepaired
      <4> QED BY <1>0, <4>0, <4>1, <4>2
    <3> QED BY <3>2, <3>3 DEF Spoilt
  <2> QED BY <2>1, <2>2, <2>3
<1>4. Opens(LM, m, O) = Opens(M, k, Opens(L, n, O))
  <2> SUFFICES ASSUME NEW a \in Aspects
               PROVE  a \in Opens(LM, m, O) <=> a \in Opens(M, k, Opens(L, n, O))
    BY DEF Opens
  <2> QED BY <1>2, <1>3 DEF Opens
<1> QED BY <1>4 DEF n, m, LM

----------------------------------------------------------------------------
(* Lists that keep to the rules.                                           *)

LEMMA RunsConcat ==
    ASSUME NEW L, NEW M, NEW O, NEW P, NEW Q, Runs(L, O, P), Runs(M, P, Q)
    PROVE  Runs(L \o M, O, Q)
<1> DEFINE n == Len(L)
           LM == L \o M
<1>1. L \in Seq(Statements) /\ M \in Seq(Statements) /\ O \subseteq Aspects
      /\ Opens(L, n, O) = P /\ Opens(M, Len(M), P) = Q
  BY DEF Runs
<1>2. /\ LM \in Seq(Statements) /\ Len(LM) = n + Len(M) /\ n \in Nat /\ Len(M) \in Nat
      /\ (\A k \in 1..n : LM[k] = L[k]) /\ \A k \in 1..Len(M) : LM[n + k] = M[k]
  BY <1>1
<1>3. \A k \in 0..n : Opens(LM, k, O) = Opens(L, k, O)
  BY <1>1, OpensLeft
<1>4. \A k \in 0..Len(M) : Opens(LM, n + k, O) = Opens(M, k, P)
  BY <1>1, OpensRight
<1>c. /\ \A k \in 0..n : Careful(Opens(L, k, O))
      /\ \A k \in 1..n : Fits(L[k], Opens(L, k - 1, O))
      /\ \A k \in 0..Len(M) : Careful(Opens(M, k, P))
      /\ \A k \in 1..Len(M) : Fits(M[k], Opens(M, k - 1, P))
  BY DEF Runs
<1> HIDE DEF n, LM
<1>5. ASSUME NEW k \in 0..Len(LM) PROVE Careful(Opens(LM, k, O))
  <2>1. CASE k \in 0..n
    BY <1>3, <1>c, <2>1
  <2>2. CASE k \notin 0..n
    <3>1. k - n \in 0..Len(M) /\ n + (k - n) = k
      BY <1>2, <2>2
    <3>2. Opens(LM, n + (k - n), O) = Opens(M, k - n, P)
      BY <1>4, <3>1
    <3> QED BY <1>c, <3>1, <3>2
  <2> QED BY <2>1, <2>2
<1>6. ASSUME NEW k \in 1..Len(LM) PROVE Fits(LM[k], Opens(LM, k - 1, O))
  <2>1. CASE k \in 1..n
    <3>1. k - 1 \in 0..n
      BY <1>2, <2>1
    <3> QED BY <1>2, <1>3, <1>c, <2>1, <3>1
  <2>2. CASE k \notin 1..n
    <3>1. /\ k - n \in 1..Len(M) /\ (k - n) - 1 \in 0..Len(M)
          /\ n + (k - n) = k /\ n + ((k - n) - 1) = k - 1
      BY <1>2, <2>2
    <3>2. Opens(LM, n + ((k - n) - 1), O) = Opens(M, (k - n) - 1, P)
      BY <1>4, <3>1
    <3>3. LM[n + (k - n)] = M[k - n]
      BY <1>2, <3>1
    <3> QED BY <1>c, <3>1, <3>2, <3>3
  <2> QED BY <2>1, <2>2
<1>7. Opens(LM, Len(LM), O) = Q
  <2>1. Opens(LM, n + Len(M), O) = Opens(M, Len(M), P)
    BY <1>2, <1>4
  <2> QED BY <1>1, <1>2, <2>1
<1>8. Runs(LM, O, Q)
  BY <1>1, <1>2, <1>5, <1>6, <1>7 DEF Runs
<1> QED BY <1>8 DEF LM

LEMMA RunsOne ==
    ASSUME NEW s \in Statements, NEW O \in SUBSET Aspects,
           Careful(O), Fits(s, O), Careful(After(s, O))
    PROVE  Runs(<<s>>, O, After(s, O))
<1> DEFINE L == <<s>>
<1>1. L \in Seq(Statements) /\ Len(L) = 1 /\ L[1] = s
  OBVIOUS
<1> HIDE DEF L
<1>2. Opens(L, 0, O) = O
  BY OpensFirst
<1>3. Opens(L, 0 + 1, O) = (Opens(L, 0, O) \cup (Spoils(L[0 + 1]) \cap Aspects)) \ Repairs(L[0 + 1])
  BY OpensNext
<1>4. Opens(L, 1, O) = After(s, O)
  BY <1>1, <1>2, <1>3 DEF After
<1>5. Runs(L, O, After(s, O))
  <2>1. \A k \in 0..Len(L) : k = 0 \/ k = 1
    BY <1>1
  <2>2. \A k \in 1..Len(L) : k = 1 /\ k - 1 = 0
    BY <1>1
  <2> QED BY <1>1, <1>2, <1>4, <2>1, <2>2 DEF Runs
<1> QED BY <1>5 DEF L

LEMMA RunsPlain ==
    ASSUME NEW L \in Seq(Statements), NEW O \in SUBSET Aspects, Careful(O), Tx \notin O,
           Plain(L, O)
    PROVE  Runs(L, O, O)
<1>0. \A k \in 0..Len(L) : \A i \in 1..k : i \in 1..Len(L)
  OBVIOUS
<1>1. ASSUME NEW k \in 0..Len(L) PROVE Opens(L, k, O) = O
  <2>2. \A a : ~Spoilt(L, k, a)
    BY <1>0 DEF Spoilt, Plain
  <2>3. \A a \in O : Unrepaired(L, k, a)
    BY <1>0 DEF Unrepaired, Plain
  <2> QED BY <2>2, <2>3 DEF Opens
<1>2. \A k \in 1..Len(L) : Fits(L[k], O)
  BY DEF Fits, Apart, Dropping, Plain
<1>3. \A k \in 1..Len(L) : k - 1 \in 0..Len(L)
  OBVIOUS
<1>4. Len(L) \in 0..Len(L)
  OBVIOUS
<1> QED BY <1>1, <1>2, <1>3, <1>4 DEF Runs

LEMMA RunsNothing == Runs(<<>>, {}, {})
<1>1. <<>> \in Seq(Statements) /\ Len(<<>>) = 0
  OBVIOUS
<1>2. Careful({})
  BY DEF Careful
<1>3. Plain(<<>>, {})
  <2>1. 1..Len(<<>>) = {}
    BY <1>1
  <2> QED BY <2>1, Zenon DEF Plain
<1> QED BY <1>1, <1>2, <1>3, RunsPlain

LEMMA RunsCareful ==
    ASSUME NEW L, NEW O, NEW P, Runs(L, O, P)
    PROVE  /\ Careful(P) /\ P \in SUBSET Aspects
           /\ L \in Seq(Statements) /\ O \in SUBSET Aspects
<1>1. L \in Seq(Statements) /\ Len(L) \in 0..Len(L)
  BY DEF Runs
<1>2. P \subseteq Aspects
  BY DEF Runs, Opens
<1> QED BY <1>1, <1>2 DEF Runs

----------------------------------------------------------------------------
(* What the statements of an upgrade spoil and repair.                     *)

LEMMA AspectsOf ==
    /\ \A t \in Indexed, x \in Triggers : Trig(t, x) \in Aspects
    /\ \A t \in Indexed : Shape(t) \in Aspects /\ RowsIn(t) \in Aspects
    /\ Tx \in Aspects
    /\ \A t \in Indexed : Idx(t) \subseteq Aspects
  BY DEF Aspects, Idx

LEMMA StatementType ==
    \A op \in Ops, how \in Hows, t \in Tables, x \in Names :
       Statement(op, how, t, x) \in Statements
  BY DEF Statement, Statements

LEMMA DropTriggerEffect ==
    ASSUME NEW s, s.op = "drop trigger" \/ s.op = "create narrow trigger"
    PROVE  Spoils(s) = {Trig(s.table, s.name), RowsIn(s.table)} /\ Repairs(s) = {}
<1>1. s.op \notin {"create trigger", "ensure trigger", "create fts", "ensure fts",
                   "rebuild", "commit"}
  OBVIOUS
<1> QED BY <1>1 DEF Spoils, Repairs

LEMMA DropFtsEffect ==
    ASSUME NEW s, s.op = "drop fts" \/ s.op = "create narrow fts"
    PROVE  Spoils(s) = {Shape(s.table), RowsIn(s.table)} /\ Repairs(s) = {}
<1>1. s.op \notin {"create trigger", "ensure trigger", "create fts", "ensure fts",
                   "rebuild", "commit", "drop trigger", "create narrow trigger"}
  OBVIOUS
<1> QED BY <1>1 DEF Spoils, Repairs

LEMMA CreateFtsEffect ==
    ASSUME NEW s, s.op = "create fts"
    PROVE  Spoils(s) = {RowsIn(s.table)} /\ Repairs(s) = {Shape(s.table)}
  BY DEF Spoils, Repairs

LEMMA CreateTriggerEffect ==
    ASSUME NEW s, s.op = "create trigger", s.how # "dml"
    PROVE  Spoils(s) = {} /\ Repairs(s) = {Trig(s.table, s.name)}
  BY DEF Spoils, Repairs

LEMMA RebuildEffect ==
    ASSUME NEW s, s.op = "rebuild"
    PROVE  /\ Spoils(s) = (IF s.how = "dml" THEN {Tx} ELSE {})
           /\ Repairs(s) = {RowsIn(s.table)}
  BY DEF Spoils, Repairs

LEMMA CommitEffect ==
    ASSUME NEW s, s.op = "commit", s.how # "dml"
    PROVE  Spoils(s) = {} /\ Repairs(s) = {Tx}
  BY DEF Spoils, Repairs

LEMMA EnsureEffect ==
    ASSUME NEW s, s.op = "ensure fts" \/ s.op = "ensure trigger", s.how # "dml"
    PROVE  /\ Spoils(s) = {}
           /\ Repairs(s) = IF s.table # "entries" THEN {}
                           ELSE IF s.op = "ensure fts" THEN {Shape(s.table)}
                           ELSE {Trig(s.table, s.name)}
  BY DEF Spoils, Repairs

LEMMA CalmEffect ==
    ASSUME NEW s, Calm(s) \/ Stamps(s)
    PROVE  Spoils(s) = (IF s.how = "dml" THEN {Tx} ELSE {}) /\ Repairs(s) = {}
<1>1. s.op \notin {"create trigger", "ensure trigger", "create fts", "ensure fts",
                   "rebuild", "commit", "drop trigger", "create narrow trigger",
                   "drop fts", "create narrow fts"}
  BY DEF Calm, Stamps
<1> QED BY <1>1 DEF Spoils, Repairs

----------------------------------------------------------------------------
(* Lists of one statement.                                                 *)

LEMMA RunsDropTrigger ==
    ASSUME NEW s \in Statements, s.op = "drop trigger" \/ s.op = "create narrow trigger",
           NEW t \in Indexed, NEW x \in Triggers, s.table = t, s.name = x,
           NEW O \in SUBSET Aspects, Careful(O), Tx \in O => t # "entries"
    PROVE  Runs(<<s>>, O, O \cup {Trig(t, x), RowsIn(t)})
<1>1. Spoils(s) = {Trig(s.table, s.name), RowsIn(s.table)} /\ Repairs(s) = {}
  BY DropTriggerEffect
<1>2. Spoils(s) = {Trig(t, x), RowsIn(t)} /\ Repairs(s) = {}
  BY <1>1, Zenon
<1>3. After(s, O) = O \cup {Trig(t, x), RowsIn(t)}
  BY <1>2, AspectsOf DEF After
<1>4. Fits(s, O)
  BY DEF Fits, Apart, Dropping
<1>5. Careful(O \cup {Trig(t, x), RowsIn(t)})
  <2> SUFFICES ASSUME NEW u \in Indexed,
                      \/ Shape(u) \in O \cup {Trig(t, x), RowsIn(t)}
                      \/ \E y \in Triggers : Trig(u, y) \in O \cup {Trig(t, x), RowsIn(t)}
               PROVE  RowsIn(u) \in O \cup {Trig(t, x), RowsIn(t)} \/ Tx \in O
    BY DEF Careful
  <2>1. CASE u = t
    BY <2>1
  <2>2. CASE u # t
    <3>2. Shape(u) # Trig(t, x) /\ Shape(u) # RowsIn(t)
      BY TrigShape, ShapeRows
    <3>3. \A y : Trig(u, y) # RowsIn(t)
      BY TrigRows
    <3>4. ASSUME NEW y PROVE Trig(u, y) # Trig(t, x)
      BY <2>2 DEF Trig
    <3>1. Shape(u) \in O \/ \E y \in Triggers : Trig(u, y) \in O
      BY <3>2, <3>3, <3>4
    <3> QED BY <3>1 DEF Careful
  <2> QED BY <2>1, <2>2
<1> QED BY <1>3, <1>4, <1>5, RunsOne

LEMMA RunsDropFts ==
    ASSUME NEW s \in Statements, s.op = "drop fts", NEW t \in Indexed, s.table = t,
           NEW O \in SUBSET Aspects, Careful(O), Tx \in O => t # "entries",
           RowsIn(t) \in O, \A x \in Triggers : Trig(t, x) \in O
    PROVE  Runs(<<s>>, O, O \cup {Shape(t)})
<1>1. Spoils(s) = {Shape(s.table), RowsIn(s.table)} /\ Repairs(s) = {}
  BY DropFtsEffect
<1>2. Spoils(s) = {Shape(t), RowsIn(t)} /\ Repairs(s) = {}
  BY <1>1, Zenon
<1>3. After(s, O) = O \cup {Shape(t)}
  BY <1>2, AspectsOf DEF After
<1>4. Fits(s, O)
  BY DEF Fits, Apart, Dropping
<1>5. Careful(O \cup {Shape(t)})
  <2> SUFFICES ASSUME NEW u \in Indexed,
                      \/ Shape(u) \in O \cup {Shape(t)}
                      \/ \E y \in Triggers : Trig(u, y) \in O \cup {Shape(t)}
               PROVE  RowsIn(u) \in O \cup {Shape(t)} \/ Tx \in O \cup {Shape(t)}
    BY Zenon DEF Careful
  <2>1. CASE u = t
    BY <2>1
  <2>2. CASE u # t
    <3>3. \A y : Trig(u, y) # Shape(t)
      BY TrigShape
    <3>2. Shape(u) # Shape(t)
      BY <2>2, ShapeShape
    <3>1. Shape(u) \in O \/ \E y \in Triggers : Trig(u, y) \in O
      BY <3>2, <3>3
    <3> QED BY <3>1 DEF Careful
  <2> QED BY <2>1, <2>2
<1> QED BY <1>3, <1>4, <1>5, RunsOne

LEMMA RunsCreateFts ==
    ASSUME NEW s \in Statements, s.op = "create fts", NEW t \in Indexed, s.table = t,
           NEW O \in SUBSET Aspects, Careful(O), Tx \in O => t # "entries",
           RowsIn(t) \in O
    PROVE  Runs(<<s>>, O, O \ {Shape(t)})
<1>2. Spoils(s) = {RowsIn(t)} /\ Repairs(s) = {Shape(t)}
  BY CreateFtsEffect
<1>3. After(s, O) = O \ {Shape(t)}
  BY <1>2, AspectsOf DEF After
<1>4. Fits(s, O)
  BY DEF Fits, Apart, Dropping
<1>5. Careful(O \ {Shape(t)})
  BY ShapeRows, TxDiffers DEF Careful
<1> QED BY <1>3, <1>4, <1>5, RunsOne

LEMMA RunsNarrowFts ==
    ASSUME NEW s \in Statements, s.op = "create narrow fts", NEW t \in Indexed, s.table = t,
           NEW O \in SUBSET Aspects, Careful(O), Tx \in O => t # "entries",
           RowsIn(t) \in O, Shape(t) \in O
    PROVE  Runs(<<s>>, O, O)
<1>1. Spoils(s) = {Shape(s.table), RowsIn(s.table)} /\ Repairs(s) = {}
  BY DropFtsEffect
<1>2. Spoils(s) = {Shape(t), RowsIn(t)} /\ Repairs(s) = {}
  BY <1>1, Zenon
<1>3. After(s, O) = O
  BY <1>2 DEF After
<1>4. Fits(s, O)
  BY DEF Fits, Apart, Dropping
<1> QED BY <1>3, <1>4, RunsOne

LEMMA RunsCreateTrigger ==
    ASSUME NEW s \in Statements, s.op = "create trigger", s.how # "dml",
           NEW t \in Indexed, NEW x \in Triggers, s.table = t, s.name = x,
           NEW O \in SUBSET Aspects, Careful(O), Tx \in O => t # "entries"
    PROVE  Runs(<<s>>, O, O \ {Trig(t, x)})
<1>2. Spoils(s) = {} /\ Repairs(s) = {Trig(t, x)}
  BY CreateTriggerEffect
<1>3. After(s, O) = O \ {Trig(t, x)}
  BY <1>2 DEF After
<1>4. Fits(s, O)
  BY DEF Fits, Apart, Dropping
<1>5. Careful(O \ {Trig(t, x)})
  <2>1. \A u : RowsIn(u) # Trig(t, x)
    BY TrigRows
  <2>2. Tx # Trig(t, x)
    BY TxDiffers
  <2> QED BY <2>1, <2>2 DEF Careful
<1> QED BY <1>3, <1>4, <1>5, RunsOne

LEMMA RunsRebuild ==
    ASSUME NEW s \in Statements, s.op = "rebuild", s.how = "dml",
           NEW t \in Indexed, s.table = t, t # "entries",
           NEW O \in SUBSET Aspects, Careful(O)
    PROVE  Runs(<<s>>, O, (O \cup {Tx}) \ {RowsIn(t)})
<1>2. Spoils(s) = {Tx} /\ Repairs(s) = {RowsIn(t)}
  BY RebuildEffect
<1>3. After(s, O) = (O \cup {Tx}) \ {RowsIn(t)}
  BY <1>2, AspectsOf DEF After
<1>4. Fits(s, O)
  BY DEF Fits, Apart, Dropping
<1>5. Careful((O \cup {Tx}) \ {RowsIn(t)})
  BY TxDiffers DEF Careful
<1> QED BY <1>3, <1>4, <1>5, RunsOne

LEMMA RunsStamp ==
    ASSUME NEW s \in Statements, s.how = "dml",
           s.op = "insert version" \/ s.op = "update version" \/ s.op = "fill"
    PROVE  Runs(<<s>>, {}, {Tx})
<1>2. Spoils(s) = {Tx} /\ Repairs(s) = {}
  BY CalmEffect DEF Stamps
<1>3. After(s, {}) = {Tx}
  BY <1>2, AspectsOf DEF After
<1>4. Fits(s, {})
  BY DEF Fits, Apart, Dropping
<1>5. Careful({Tx}) /\ Careful({})
  BY DEF Careful
<1>6. {} \in SUBSET Aspects
  OBVIOUS
<1> QED BY <1>3, <1>4, <1>5, <1>6, RunsOne

LEMMA RunsCommit ==
    ASSUME NEW O \in SUBSET Aspects, Careful(O), Careful(O \ {Tx})
    PROVE  Runs(Commit, O, O \ {Tx})
<1> SUFFICES ASSUME NEW s, s = Statement("commit", "ddl", "", "")
             PROVE  Runs(<<s>>, O, O \ {Tx})
  BY DEF Commit
<1>1. s \in Statements /\ s.op = "commit" /\ s.how = "ddl" /\ s.table = ""
  <2>1. "commit" \in Ops /\ "ddl" \in Hows /\ "" \in Tables /\ "" \in Names
    BY DEF Ops, Hows, Tables, Names
  <2>2. s \in Statements
    BY <2>1, StatementType, Zenon
  <2>3. /\ Statement("commit", "ddl", "", "").op = "commit"
        /\ Statement("commit", "ddl", "", "").how = "ddl"
        /\ Statement("commit", "ddl", "", "").table = ""
    BY DEF Statement
  <2> QED BY <2>2, <2>3
<1>2. Spoils(s) = {} /\ Repairs(s) = {Tx}
  BY <1>1, CommitEffect
<1>3. After(s, O) = O \ {Tx}
  BY <1>2 DEF After
<1>4. Fits(s, O)
  BY <1>1 DEF Fits, Apart, Dropping
<1> QED BY <1>1, <1>3, <1>4, RunsOne

----------------------------------------------------------------------------
(* Lists of several statements.                                            *)

LEMMA TwoStatements ==
    ASSUME NEW a \in Statements, NEW b \in Statements
    PROVE  <<a>> \o <<b>> = <<a, b>>
<1>1. <<a>> \in Seq(Statements) /\ <<b>> \in Seq(Statements) /\ <<a, b>> \in Seq(Statements)
  OBVIOUS
<1>2. <<a>> \o <<b>> \in Seq(Statements) /\ Len(<<a>> \o <<b>>) = 2
  BY <1>1
<1>3. (<<a>> \o <<b>>)[1] = a /\ (<<a>> \o <<b>>)[2] = b
  BY <1>1
<1>4. \A i \in 1..2 : (<<a>> \o <<b>>)[i] = <<a, b>>[i]
  BY <1>3
<1>5. Len(<<a, b>>) = 2
  OBVIOUS
<1> QED BY <1>1, <1>2, <1>4, <1>5, SeqEqual

LEMMA ThreeStatements ==
    ASSUME NEW a \in Statements, NEW b \in Statements, NEW c \in Statements
    PROVE  <<a, b>> \o <<c>> = <<a, b, c>>
<1> DEFINE L == <<a, b>>
           M == <<c>>
           N == <<a, b, c>>
<1>1. /\ L \in Seq(Statements) /\ M \in Seq(Statements) /\ N \in Seq(Statements)
      /\ Len(L) = 2 /\ Len(M) = 1 /\ Len(N) = 3
  OBVIOUS
<1>2. L[1] = a /\ L[2] = b /\ M[1] = c /\ N[1] = a /\ N[2] = b /\ N[3] = c
  OBVIOUS
<1> HIDE DEF L, M, N
<1>3. /\ L \o M \in Seq(Statements) /\ Len(L \o M) = Len(L) + Len(M)
      /\ \A i \in 1..(Len(L) + Len(M)) :
            (L \o M)[i] = IF i <= Len(L) THEN L[i] ELSE M[i - Len(L)]
  BY <1>1, ConcatProperties
<1>4. (L \o M)[1] = L[1] /\ (L \o M)[2] = L[2] /\ (L \o M)[3] = M[1]
  BY <1>1, <1>3
<1>5. \A i \in 1..3 : (L \o M)[i] = N[i]
  <2>1. \A i \in 1..3 : i = 1 \/ i = 2 \/ i = 3
    OBVIOUS
  <2> QED BY <1>2, <1>4, <2>1
<1>6. L \o M = N
  BY <1>1, <1>3, <1>5, SeqEqual
<1> QED BY <1>6 DEF L, M, N

LEMMA FourStatements ==
    ASSUME NEW a \in Statements, NEW b \in Statements, NEW c \in Statements,
           NEW d \in Statements
    PROVE  <<a, b, c>> \o <<d>> = <<a, b, c, d>>
<1> DEFINE L == <<a, b, c>>
           M == <<d>>
           N == <<a, b, c, d>>
<1>1. /\ L \in Seq(Statements) /\ M \in Seq(Statements) /\ N \in Seq(Statements)
      /\ Len(L) = 3 /\ Len(M) = 1 /\ Len(N) = 4
  OBVIOUS
<1>2. /\ L[1] = a /\ L[2] = b /\ L[3] = c /\ M[1] = d
      /\ N[1] = a /\ N[2] = b /\ N[3] = c /\ N[4] = d
  OBVIOUS
<1> HIDE DEF L, M, N
<1>3. /\ L \o M \in Seq(Statements) /\ Len(L \o M) = Len(L) + Len(M)
      /\ \A i \in 1..(Len(L) + Len(M)) :
            (L \o M)[i] = IF i <= Len(L) THEN L[i] ELSE M[i - Len(L)]
  BY <1>1, ConcatProperties
<1>4. /\ (L \o M)[1] = L[1] /\ (L \o M)[2] = L[2] /\ (L \o M)[3] = L[3]
      /\ (L \o M)[4] = M[1]
  BY <1>1, <1>3
<1>5. \A i \in 1..4 : (L \o M)[i] = N[i]
  <2>1. \A i \in 1..4 : i = 1 \/ i = 2 \/ i = 3 \/ i = 4
    OBVIOUS
  <2> QED BY <1>2, <1>4, <2>1
<1>6. L \o M = N
  BY <1>1, <1>3, <1>5, SeqEqual
<1> QED BY <1>6 DEF L, M, N

LEMMA RunsThree ==
    ASSUME NEW a \in Statements, NEW b \in Statements, NEW c \in Statements,
           NEW O, NEW P, NEW Q, NEW R,
           Runs(<<a>>, O, P), Runs(<<b>>, P, Q), Runs(<<c>>, Q, R)
    PROVE  Runs(<<a, b, c>>, O, R)
<1>1. Runs(<<a>> \o <<b>>, O, Q)
  BY RunsConcat
<1>2. Runs(<<a, b>> \o <<c>>, O, R)
  BY <1>1, TwoStatements, RunsConcat
<1> QED BY <1>2, ThreeStatements

LEMMA RunsFour ==
    ASSUME NEW a \in Statements, NEW b \in Statements, NEW c \in Statements,
           NEW d \in Statements, NEW O, NEW P, NEW Q, NEW R, NEW S,
           Runs(<<a>>, O, P), Runs(<<b>>, P, Q), Runs(<<c>>, Q, R), Runs(<<d>>, R, S)
    PROVE  Runs(<<a, b, c, d>>, O, S)
<1>1. Runs(<<a, b, c>>, O, R)
  BY RunsThree
<1>2. Runs(<<a, b, c>> \o <<d>>, O, S)
  BY <1>1, RunsConcat
<1> QED BY <1>2, FourStatements

LEMMA RunsDropIndex ==
    ASSUME NEW t \in Indexed, NEW how \in Hows, NEW O \in SUBSET Aspects, Careful(O),
           Tx \in O => t # "entries"
    PROVE  Runs(DropIndex(t, how), O, O \cup Idx(t))
<1> SUFFICES ASSUME NEW a, a = Statement("drop trigger", how, t, "ai"),
                    NEW b, b = Statement("drop trigger", how, t, "ad"),
                    NEW c, c = Statement("drop trigger", how, t, "au"),
                    NEW d, d = Statement("drop fts", how, t, "")
             PROVE  Runs(<<a, b, c, d>>, O, O \cup Idx(t))
  BY DEF DropIndex
<1>0. t \in Tables
  BY DEF Indexed, Tables, SqliteTables
<1>1. /\ a \in Statements /\ a.op = "drop trigger" /\ a.table = t /\ a.name = "ai"
      /\ b \in Statements /\ b.op = "drop trigger" /\ b.table = t /\ b.name = "ad"
      /\ c \in Statements /\ c.op = "drop trigger" /\ c.table = t /\ c.name = "au"
      /\ d \in Statements /\ d.op = "drop fts" /\ d.table = t
  BY <1>0 DEF Statement, Statements, Ops, Names, Triggers
<1>2. "ai" \in Triggers /\ "ad" \in Triggers /\ "au" \in Triggers
  BY DEF Triggers
<1> DEFINE P == O \cup {Trig(t, "ai"), RowsIn(t)}
           Q == P \cup {Trig(t, "ad"), RowsIn(t)}
           R == Q \cup {Trig(t, "au"), RowsIn(t)}
<1>3. Runs(<<a>>, O, P)
  BY <1>1, <1>2, RunsDropTrigger
<1>4. P \in SUBSET Aspects /\ Q \in SUBSET Aspects /\ R \in SUBSET Aspects
  BY <1>2, AspectsOf
<1>5. Tx \notin Idx(t)
  BY TxDiffers DEF Idx
<1>6. (Tx \in P => t # "entries") /\ (Tx \in Q => t # "entries") /\ (Tx \in R => t # "entries")
  BY TxDiffers
<1>7. Careful(P)
  BY <1>3, RunsCareful
<1>8. Runs(<<b>>, P, Q)
  BY <1>1, <1>2, <1>4, <1>6, <1>7, RunsDropTrigger
<1>9. Careful(Q)
  BY <1>8, RunsCareful
<1>10. Runs(<<c>>, Q, R)
  BY <1>1, <1>2, <1>4, <1>6, <1>9, RunsDropTrigger
<1>11. Careful(R)
  BY <1>10, RunsCareful
<1>12. RowsIn(t) \in R /\ \A x \in Triggers : Trig(t, x) \in R
  BY DEF Triggers
<1>13. Runs(<<d>>, R, R \cup {Shape(t)})
  BY <1>1, <1>4, <1>6, <1>11, <1>12, RunsDropFts
<1>14. R \cup {Shape(t)} = O \cup Idx(t)
  BY DEF Idx, Triggers
<1>17. a \in Statements /\ b \in Statements /\ c \in Statements /\ d \in Statements
  BY <1>1
<1> HIDE DEF P, Q, R
<1>15. Runs(<<a, b, c, d>>, O, R \cup {Shape(t)})
  BY <1>3, <1>8, <1>10, <1>13, <1>17, RunsFour
<1> QED BY <1>14, <1>15

LEMMA RunsCreateTriggers ==
    ASSUME NEW t \in Indexed, NEW how \in Hows, how # "dml", NEW O \in SUBSET Aspects,
           Careful(O), Tx \in O => t # "entries"
    PROVE  Runs(CreateTriggers("create trigger", how, t), O,
                O \ {Trig(t, x) : x \in Triggers})
<1> SUFFICES ASSUME NEW a, a = Statement("create trigger", how, t, "ai"),
                    NEW b, b = Statement("create trigger", how, t, "ad"),
                    NEW c, c = Statement("create trigger", how, t, "au")
             PROVE  Runs(<<a, b, c>>, O, O \ {Trig(t, x) : x \in Triggers})
  BY DEF CreateTriggers
<1>0. t \in Tables
  BY DEF Indexed, Tables, SqliteTables
<1>1. /\ a \in Statements /\ a.op = "create trigger" /\ a.table = t /\ a.name = "ai"
      /\ a.how # "dml"
      /\ b \in Statements /\ b.op = "create trigger" /\ b.table = t /\ b.name = "ad"
      /\ b.how # "dml"
      /\ c \in Statements /\ c.op = "create trigger" /\ c.table = t /\ c.name = "au"
      /\ c.how # "dml"
  BY <1>0 DEF Statement, Statements, Ops, Names, Triggers
<1>2. "ai" \in Triggers /\ "ad" \in Triggers /\ "au" \in Triggers
  BY DEF Triggers
<1> DEFINE P == O \ {Trig(t, "ai")}
           Q == P \ {Trig(t, "ad")}
           R == Q \ {Trig(t, "au")}
<1>3. Runs(<<a>>, O, P)
  BY <1>1, <1>2, RunsCreateTrigger
<1>4. P \in SUBSET Aspects /\ Q \in SUBSET Aspects
  OBVIOUS
<1>6. (Tx \in P => t # "entries") /\ (Tx \in Q => t # "entries")
  OBVIOUS
<1>7. Careful(P)
  BY <1>3, RunsCareful
<1>8. Runs(<<b>>, P, Q)
  BY <1>1, <1>2, <1>4, <1>6, <1>7, RunsCreateTrigger
<1>9. Careful(Q)
  BY <1>8, RunsCareful
<1>10. Runs(<<c>>, Q, R)
  BY <1>1, <1>2, <1>4, <1>6, <1>9, RunsCreateTrigger
<1>14. R = O \ {Trig(t, x) : x \in Triggers}
  BY DEF Triggers
<1>17. a \in Statements /\ b \in Statements /\ c \in Statements
  BY <1>1
<1> HIDE DEF P, Q, R
<1>15. Runs(<<a, b, c>>, O, R)
  BY <1>3, <1>8, <1>10, <1>17, RunsThree
<1> QED BY <1>14, <1>15

LEMMA RunsNarrowTriggers ==
    ASSUME NEW t \in Indexed, NEW how \in Hows, NEW O \in SUBSET Aspects,
           Careful(O), Tx \in O => t # "entries"
    PROVE  Runs(CreateTriggers("create narrow trigger", how, t), O,
                O \cup {Trig(t, x) : x \in Triggers} \cup {RowsIn(t)})
<1> SUFFICES ASSUME NEW a, a = Statement("create narrow trigger", how, t, "ai"),
                    NEW b, b = Statement("create narrow trigger", how, t, "ad"),
                    NEW c, c = Statement("create narrow trigger", how, t, "au")
             PROVE  Runs(<<a, b, c>>, O, O \cup {Trig(t, x) : x \in Triggers} \cup {RowsIn(t)})
  BY DEF CreateTriggers
<1>0. t \in Tables
  BY DEF Indexed, Tables, SqliteTables
<1>1. /\ a \in Statements /\ a.op = "create narrow trigger" /\ a.table = t /\ a.name = "ai"
      /\ b \in Statements /\ b.op = "create narrow trigger" /\ b.table = t /\ b.name = "ad"
      /\ c \in Statements /\ c.op = "create narrow trigger" /\ c.table = t /\ c.name = "au"
  BY <1>0 DEF Statement, Statements, Ops, Names, Triggers
<1>2. "ai" \in Triggers /\ "ad" \in Triggers /\ "au" \in Triggers
  BY DEF Triggers
<1> DEFINE P == O \cup {Trig(t, "ai"), RowsIn(t)}
           Q == P \cup {Trig(t, "ad"), RowsIn(t)}
           R == Q \cup {Trig(t, "au"), RowsIn(t)}
<1>3. Runs(<<a>>, O, P)
  BY <1>1, <1>2, RunsDropTrigger
<1>4. P \in SUBSET Aspects /\ Q \in SUBSET Aspects
  BY <1>2, AspectsOf
<1>6. (Tx \in P => t # "entries") /\ (Tx \in Q => t # "entries")
  BY TxDiffers
<1>7. Careful(P)
  BY <1>3, RunsCareful
<1>8. Runs(<<b>>, P, Q)
  BY <1>1, <1>2, <1>4, <1>6, <1>7, RunsDropTrigger
<1>9. Careful(Q)
  BY <1>8, RunsCareful
<1>10. Runs(<<c>>, Q, R)
  BY <1>1, <1>2, <1>4, <1>6, <1>9, RunsDropTrigger
<1>14. R = O \cup {Trig(t, x) : x \in Triggers} \cup {RowsIn(t)}
  BY DEF Triggers
<1>17. a \in Statements /\ b \in Statements /\ c \in Statements
  BY <1>1
<1> HIDE DEF P, Q, R
<1>15. Runs(<<a, b, c>>, O, R)
  BY <1>3, <1>8, <1>10, <1>17, RunsThree
<1> QED BY <1>14, <1>15

----------------------------------------------------------------------------
(* The statements of a migration.                                          *)

LEMMA PairedConcat ==
    ASSUME NEW L \in Seq(Statements), NEW M \in Seq(Statements), Paired(L), Paired(M)
    PROVE  Paired(L \o M)
<1> DEFINE LM == L \o M
           n == Len(L)
<1>1. /\ LM \in Seq(Statements) /\ Len(LM) = n + Len(M) /\ n \in Nat /\ Len(M) \in Nat
      /\ (\A k \in 1..n : LM[k] = L[k]) /\ \A k \in 1..Len(M) : LM[n + k] = M[k]
  OBVIOUS
<1> HIDE DEF LM, n
<1>2. ASSUME NEW k \in 1..Len(LM), LM[k].op = "add column"
      PROVE  /\ k > 1 /\ LM[k - 1].op = "has column"
             /\ LM[k - 1].table = LM[k].table /\ LM[k - 1].name = LM[k].name
  <2>1. CASE k \in 1..n
    <3>1. LM[k] = L[k] /\ k > 1 /\ L[k - 1].op = "has column"
          /\ L[k - 1].table = L[k].table /\ L[k - 1].name = L[k].name
      BY <1>1, <1>2, <2>1 DEF Paired, n
    <3>4. k > 1
      BY <3>1
    <3>5. n \in Nat /\ k \in 1..n
      BY <1>1, <2>1
    <3>2. k - 1 \in 1..n
      BY <3>4, <3>5
    <3>3. LM[k - 1] = L[k - 1]
      BY <1>1, <3>2
    <3> QED BY <3>1, <3>3
  <2>2. CASE k \notin 1..n
    <3>1. k - n \in 1..Len(M) /\ n + (k - n) = k
      BY <1>1, <2>2
    <3>2. LM[n + (k - n)] = M[k - n]
      BY <1>1, <3>1
    <3>3. LM[k] = M[k - n]
      BY <3>1, <3>2
    <3>4. k - n > 1 /\ M[(k - n) - 1].op = "has column"
          /\ M[(k - n) - 1].table = M[k - n].table /\ M[(k - n) - 1].name = M[k - n].name
      BY <1>2, <3>1, <3>3 DEF Paired
    <3>8. k - n > 1
      BY <3>4
    <3>9. n \in Nat /\ Len(M) \in Nat /\ k \in Int /\ k - n \in 1..Len(M)
      BY <1>1, <3>1
    <3>5. (k - n) - 1 \in 1..Len(M) /\ n + ((k - n) - 1) = k - 1 /\ k > 1
      BY <3>8, <3>9
    <3>6. LM[n + ((k - n) - 1)] = M[(k - n) - 1]
      BY <1>1, <3>5
    <3>7. LM[k - 1] = M[(k - n) - 1]
      BY <3>5, <3>6
    <3> QED BY <3>3, <3>4, <3>5, <3>7
  <2> QED BY <2>1, <2>2
<1>3. Paired(LM)
  BY <1>2 DEF Paired
<1> QED BY <1>3 DEF LM

LEMMA StepsConcat ==
    ASSUME NEW L, NEW M, NEW v, Steps(L, v), Steps(M, v)
    PROVE  Steps(L \o M, v)
<1>1. L \in Seq(Statements) /\ M \in Seq(Statements) /\ Paired(L) /\ Paired(M)
  BY DEF Steps
<1>2. Paired(L \o M)
  BY <1>1, PairedConcat
<1>3. L \o M \in Seq(Statements)
  BY <1>1
<1>4. ASSUME NEW k \in 1..Len(L \o M) PROVE Legal((L \o M)[k], v)
  <2>1. CASE k \in 1..Len(L)
    <3>1. (L \o M)[k] = L[k]
      BY <1>1, <2>1
    <3> QED BY <2>1, <3>1 DEF Steps
  <2>2. CASE k \notin 1..Len(L)
    <3>1. k - Len(L) \in 1..Len(M) /\ (L \o M)[k] = M[k - Len(L)]
      BY <1>1, <2>2
    <3> QED BY <3>1 DEF Steps
  <2> QED BY <2>1, <2>2
<1> QED BY <1>2, <1>3, <1>4 DEF Steps

LEMMA StepsSooner ==
    ASSUME NEW L, NEW v \in Nat, NEW w \in Nat, w > 0, w <= v, Steps(L, v)
    PROVE  Steps(L, w)
<1>1. \A t : Touched(t, v) => Touched(t, w)
  BY DEF Touched
<1>2. ASSUME NEW s, Legal(s, v) PROVE Legal(s, w)
  BY <1>1, <1>2 DEF Legal
<1> QED BY <1>2 DEF Steps

LEMMA OneStatement ==
    ASSUME NEW s \in Statements
    PROVE  <<s>> \in Seq(Statements) /\ Len(<<s>>) = 1 /\ \A k \in 1..Len(<<s>>) : <<s>>[k] = s
<1> DEFINE L == <<s>>
<1>1. L \in Seq(Statements) /\ Len(L) = 1 /\ L[1] = s
  OBVIOUS
<1> HIDE DEF L
<1>2. \A k \in 1..Len(L) : L[k] = s
  BY <1>1
<1> QED BY <1>1, <1>2 DEF L

LEMMA StepsOne ==
    ASSUME NEW s \in Statements, NEW v, Legal(s, v), s.op # "add column"
    PROVE  Steps(<<s>>, v)
<1> DEFINE L == <<s>>
<1>1. L \in Seq(Statements) /\ \A k \in 1..Len(L) : L[k] = s
  BY OneStatement
<1> HIDE DEF L
<1>4. Steps(L, v)
  BY <1>1 DEF Steps, Paired
<1> QED BY <1>4 DEF L

LEMMA StepsNothing == \A v : Steps(<<>>, v)
<1>1. <<>> \in Seq(Statements) /\ 1..Len(<<>>) = {}
  OBVIOUS
<1> QED BY <1>1, Zenon DEF Steps, Paired

LEMMA StepsThree ==
    ASSUME NEW v, NEW a \in Statements, NEW b \in Statements, NEW c \in Statements,
           Legal(a, v), Legal(b, v), Legal(c, v),
           a.op # "add column", b.op # "add column", c.op # "add column"
    PROVE  Steps(<<a, b, c>>, v)
<1>1. Steps(<<a>>, v) /\ Steps(<<b>>, v) /\ Steps(<<c>>, v)
  BY StepsOne
<1>2. Steps(<<a>> \o <<b>>, v)
  BY <1>1, StepsConcat
<1>3. Steps(<<a, b>> \o <<c>>, v)
  BY <1>1, <1>2, TwoStatements, StepsConcat
<1> QED BY <1>3, ThreeStatements

LEMMA StepsFour ==
    ASSUME NEW v, NEW a \in Statements, NEW b \in Statements, NEW c \in Statements,
           NEW d \in Statements, Legal(a, v), Legal(b, v), Legal(c, v), Legal(d, v),
           a.op # "add column", b.op # "add column", c.op # "add column",
           d.op # "add column"
    PROVE  Steps(<<a, b, c, d>>, v)
<1>1. Steps(<<a, b, c>>, v) /\ Steps(<<d>>, v)
  BY StepsThree, StepsOne
<1>2. Steps(<<a, b, c>> \o <<d>>, v)
  BY <1>1, StepsConcat
<1> QED BY <1>2, FourStatements

LEMMA StepsCreateTable ==
    ASSUME NEW v, NEW t \in SqliteTables, NEW how \in {"ddl", "script"}
    PROVE  Steps(<<Statement("create table", how, t, "")>>, v)
<1> SUFFICES ASSUME NEW s, s = Statement("create table", how, t, "")
             PROVE  Steps(<<s>>, v)
  OBVIOUS
<1>1. s \in Statements
  BY DEF Statement, Statements, Ops, Hows, Tables, Names
<1>2. s.op = "create table" /\ s.how # "dml" /\ s.table \in SqliteTables
  BY DEF Statement
<1>3. Legal(s, v) /\ s.op # "add column"
  BY <1>2 DEF Legal, Columns, Ensures, Drops, Makes, OnTriggers
<1> QED BY <1>1, <1>3, StepsOne

LEMMA StepsCommit == \A v : Steps(Commit, v)
<1> SUFFICES ASSUME NEW v, NEW s, s = Statement("commit", "ddl", "", "")
             PROVE  Steps(<<s>>, v)
  BY DEF Commit
<1>1. s \in Statements
  BY DEF Statement, Statements, Ops, Hows, Tables, Names
<1>2. s.op = "commit" /\ s.how # "dml"
  BY DEF Statement
<1>3. Legal(s, v) /\ s.op # "add column"
  BY <1>2 DEF Legal, Columns, Ensures, Drops, Makes, OnTriggers
<1> QED BY <1>1, <1>3, StepsOne

LEMMA StepsEnsureTriggers ==
    ASSUME NEW v, NEW t \in Indexed
    PROVE  Steps(CreateTriggers("ensure trigger", "script", t), v)
<1> SUFFICES ASSUME NEW a, a = Statement("ensure trigger", "script", t, "ai"),
                    NEW b, b = Statement("ensure trigger", "script", t, "ad"),
                    NEW c, c = Statement("ensure trigger", "script", t, "au")
             PROVE  Steps(<<a, b, c>>, v)
  BY DEF CreateTriggers
<1>0. t \in Tables
  BY DEF Indexed, Tables, SqliteTables
<1>1. a \in Statements /\ b \in Statements /\ c \in Statements
  BY <1>0 DEF Statement, Statements, Ops, Hows, Names, Triggers
<1>2. /\ a.op = "ensure trigger" /\ a.how # "dml" /\ a.table \in Indexed /\ a.name \in Triggers
      /\ b.op = "ensure trigger" /\ b.how # "dml" /\ b.table \in Indexed /\ b.name \in Triggers
      /\ c.op = "ensure trigger" /\ c.how # "dml" /\ c.table \in Indexed /\ c.name \in Triggers
  BY DEF Statement, Triggers
<1>3. Legal(a, v) /\ Legal(b, v) /\ Legal(c, v)
  BY <1>2 DEF Legal, Columns, Ensures, Drops, Makes, OnTriggers
<1>4. a.op # "add column" /\ b.op # "add column" /\ c.op # "add column"
  BY <1>2
<1> QED BY <1>1, <1>3, <1>4, StepsThree

LEMMA StepsEnsureIndex ==
    ASSUME NEW v, NEW t \in Indexed
    PROVE  Steps(EnsureIndex(t), v)
<1> SUFFICES ASSUME NEW s, s = Statement("ensure fts", "script", t, "")
             PROVE  Steps(<<s>> \o CreateTriggers("ensure trigger", "script", t), v)
  BY DEF EnsureIndex
<1>0. t \in Tables
  BY DEF Indexed, Tables, SqliteTables
<1>1. s \in Statements
  BY <1>0 DEF Statement, Statements, Ops, Hows, Names, Triggers
<1>2. s.op = "ensure fts" /\ s.how # "dml" /\ s.table \in Indexed
  BY DEF Statement
<1>3. Legal(s, v) /\ s.op # "add column"
  BY <1>2 DEF Legal, Columns, Ensures, Drops, Makes, OnTriggers
<1> QED BY <1>1, <1>3, StepsOne, StepsEnsureTriggers, StepsConcat

LEMMA StepsMakeTriggers ==
    ASSUME NEW v, NEW t \in Indexed, Touched(t, v), t # "entries",
           NEW op \in {"create trigger", "create narrow trigger"}
    PROVE  Steps(CreateTriggers(op, "ddl", t), v)
<1> SUFFICES ASSUME NEW a, a = Statement(op, "ddl", t, "ai"),
                    NEW b, b = Statement(op, "ddl", t, "ad"),
                    NEW c, c = Statement(op, "ddl", t, "au")
             PROVE  Steps(<<a, b, c>>, v)
  BY DEF CreateTriggers
<1>0. t \in Tables
  BY DEF Indexed, Tables, SqliteTables
<1>1. a \in Statements /\ b \in Statements /\ c \in Statements
  BY <1>0 DEF Statement, Statements, Ops, Hows, Names, Triggers
<1>2. /\ a.op = op /\ a.how # "dml" /\ a.table = t /\ a.name \in Triggers
      /\ b.op = op /\ b.how # "dml" /\ b.table = t /\ b.name \in Triggers
      /\ c.op = op /\ c.how # "dml" /\ c.table = t /\ c.name \in Triggers
  BY DEF Statement, Triggers
<1>3. Legal(a, v) /\ Legal(b, v) /\ Legal(c, v)
  BY <1>2 DEF Legal, Columns, Ensures, Drops, Makes, OnTriggers
<1>4. a.op # "add column" /\ b.op # "add column" /\ c.op # "add column"
  BY <1>2
<1> QED BY <1>1, <1>3, <1>4, StepsThree

LEMMA StepsDropIndex ==
    ASSUME NEW v, NEW t \in Indexed, Touched(t, v), NEW how \in {"ddl", "script"}
    PROVE  Steps(DropIndex(t, how), v)
<1> SUFFICES ASSUME NEW a, a = Statement("drop trigger", how, t, "ai"),
                    NEW b, b = Statement("drop trigger", how, t, "ad"),
                    NEW c, c = Statement("drop trigger", how, t, "au"),
                    NEW d, d = Statement("drop fts", how, t, "")
             PROVE  Steps(<<a, b, c, d>>, v)
  BY DEF DropIndex
<1>0. t \in Tables
  BY DEF Indexed, Tables, SqliteTables
<1>1. a \in Statements /\ b \in Statements /\ c \in Statements /\ d \in Statements
  BY <1>0 DEF Statement, Statements, Ops, Hows, Names, Triggers
<1>2. /\ a.op = "drop trigger" /\ a.how # "dml" /\ a.table = t /\ a.name \in Triggers
      /\ b.op = "drop trigger" /\ b.how # "dml" /\ b.table = t /\ b.name \in Triggers
      /\ c.op = "drop trigger" /\ c.how # "dml" /\ c.table = t /\ c.name \in Triggers
      /\ d.op = "drop fts" /\ d.how # "dml" /\ d.table = t
  BY DEF Statement, Triggers
<1>3. Legal(a, v) /\ Legal(b, v) /\ Legal(c, v) /\ Legal(d, v)
  BY <1>2 DEF Legal, Columns, Ensures, Drops, Makes, OnTriggers
<1>4. a.op # "add column" /\ b.op # "add column" /\ c.op # "add column" /\ d.op # "add column"
  BY <1>2
<1> QED BY <1>1, <1>3, <1>4, StepsFour

\* An index made again and filled, in a transaction or in a script.
LEMMA StepsRebuild ==
    ASSUME NEW v, NEW t \in Indexed, Touched(t, v), NEW how \in Hows,
           how = "dml" => t # "entries"
    PROVE  Steps(<<Statement("rebuild", how, t, "")>>, v)
<1> SUFFICES ASSUME NEW s, s = Statement("rebuild", how, t, "")
             PROVE  Steps(<<s>>, v)
  OBVIOUS
<1>0. t \in Tables
  BY DEF Indexed, Tables, SqliteTables
<1>1. s \in Statements
  BY <1>0 DEF Statement, Statements, Ops, Names
<1>2. s.op = "rebuild" /\ s.how = how /\ s.table = t
  BY DEF Statement
<1>3. Legal(s, v) /\ s.op # "add column"
  BY <1>2 DEF Legal, Columns, Ensures, Drops, Makes, OnTriggers
<1> QED BY <1>1, <1>3, StepsOne

LEMMA StepsMakeFts ==
    ASSUME NEW v, NEW t \in Indexed, Touched(t, v), t # "entries",
           NEW op \in {"create fts", "create narrow fts"}
    PROVE  Steps(<<Statement(op, "ddl", t, "")>>, v)
<1> SUFFICES ASSUME NEW s, s = Statement(op, "ddl", t, "")
             PROVE  Steps(<<s>>, v)
  OBVIOUS
<1>0. t \in Tables
  BY DEF Indexed, Tables, SqliteTables
<1>1. s \in Statements
  BY <1>0 DEF Statement, Statements, Ops, Names, Hows
<1>2. s.op = op /\ s.how # "dml" /\ s.table = t
  BY DEF Statement
<1>3. Legal(s, v) /\ s.op # "add column"
  BY <1>2 DEF Legal, Columns, Ensures, Drops, Makes, OnTriggers
<1> QED BY <1>1, <1>3, StepsOne

LEMMA StepsRemake ==
    ASSUME NEW v, NEW t \in Indexed, Touched(t, v), t # "entries",
           NEW op \in {"create fts", "create narrow fts"}
    PROVE  Steps(Rebuild(t, op), v)
<1>1. Steps(DropIndex(t, "ddl"), v)
  BY StepsDropIndex
<1>2. Steps(<<Statement(op, "ddl", t, "")>>, v)
  BY StepsMakeFts
<1>3. Steps(<<Statement("rebuild", "dml", t, "")>>, v)
  BY StepsRebuild DEF Hows
<1> QED BY <1>1, <1>2, <1>3, StepsConcat DEF Rebuild

----------------------------------------------------------------------------
(* The migrations.                                                         *)

LEMMA StepsColumns ==
    ASSUME NEW v, NEW t \in SqliteTables, NEW cs \in Seq(SqliteNames)
    PROVE  Steps(AddColumns(t, cs), v)
<1> DEFINE L == AddColumns(t, cs)
           has(c) == Statement("has column", "ddl", t, c)
           add(c) == Statement("add column", "ddl", t, c)
           n == Len(cs)
<1>0. n \in Nat /\ \A i \in 1..n : cs[i] \in SqliteNames
  OBVIOUS
<1>1. \A c \in SqliteNames : has(c) \in Statements /\ add(c) \in Statements
  BY DEF Statement, Statements, Ops, Hows, Names, Tables
<1>2. \A c : AddColumn(t, c)[1] = has(c) /\ AddColumn(t, c)[2] = add(c)
  BY DEF AddColumn
<1>3. \A c : /\ has(c).op = "has column" /\ has(c).how = "ddl"
             /\ has(c).table = t /\ has(c).name = c
             /\ add(c).op = "add column" /\ add(c).how = "ddl"
             /\ add(c).table = t /\ add(c).name = c
  BY DEF Statement
<1>4. ASSUME NEW c \in SqliteNames PROVE Legal(has(c), v) /\ Legal(add(c), v)
  BY <1>3 DEF Legal, Columns, Ensures, Drops, Makes, OnTriggers
<1>5. L = [i \in 1..(2 * n) |-> AddColumn(t, cs[(i + 1) \div 2])[2 - (i % 2)]]
  BY DEF AddColumns
<1> HIDE DEF L, has, add, n
<1>6. ASSUME NEW k \in 1..(2 * n)
      PROVE  /\ (k + 1) \div 2 \in 1..n
             /\ \/ k % 2 = 1
                \/ k % 2 = 0 /\ k > 1 /\ (k - 1) % 2 = 1 /\ ((k - 1) + 1) \div 2 = (k + 1) \div 2
  BY <1>0
<1>7. ASSUME NEW k \in 1..(2 * n), k % 2 = 1 PROVE L[k] = has(cs[(k + 1) \div 2])
  <2>1. 2 - (k % 2) = 1
    BY <1>7
  <2> QED BY <1>2, <1>5, <2>1
<1>8. ASSUME NEW k \in 1..(2 * n), k % 2 = 0 PROVE L[k] = add(cs[(k + 1) \div 2])
  <2>1. 2 - (k % 2) = 2
    BY <1>8
  <2> QED BY <1>2, <1>5, <2>1
<1>9. ASSUME NEW k \in 1..(2 * n)
      PROVE  L[k] \in Statements /\ Legal(L[k], v)
  BY <1>0, <1>1, <1>4, <1>6, <1>7, <1>8
<1>10. L \in Seq(Statements) /\ Len(L) = 2 * n
  <2>1. 2 * n \in Nat
    BY <1>0
  <2> QED BY <1>5, <1>9, <2>1
<1>11. ASSUME NEW k \in 1..(2 * n), L[k].op = "add column"
       PROVE  /\ k > 1 /\ L[k - 1].op = "has column"
              /\ L[k - 1].table = L[k].table /\ L[k - 1].name = L[k].name
  <2>1. k % 2 # 1
    BY <1>3, <1>7, <1>11
  <2>2. k % 2 = 0 /\ k > 1 /\ (k - 1) % 2 = 1 /\ ((k - 1) + 1) \div 2 = (k + 1) \div 2
    BY <1>6, <2>1
  <2>3. k > 1
    BY <2>2
  <2>4. k - 1 \in 1..(2 * n)
    BY <1>0, <2>3
  <2>5. L[k - 1] = has(cs[((k - 1) + 1) \div 2])
    BY <1>7, <2>2, <2>4
  <2>6. L[k] = add(cs[(k + 1) \div 2])
    BY <1>8, <2>2
  <2>7. L[k - 1] = has(cs[(k + 1) \div 2])
    BY <2>2, <2>5
  <2> DEFINE c == cs[(k + 1) \div 2]
  <2>8. L[k - 1].op = "has column" /\ L[k - 1].table = t /\ L[k - 1].name = c
    BY <1>3, <2>7
  <2>9. L[k].table = t /\ L[k].name = c
    BY <1>3, <2>6
  <2> HIDE DEF c
  <2> QED BY <2>3, <2>8, <2>9
<1>12. Steps(L, v)
  BY <1>9, <1>10, <1>11 DEF Steps, Paired
<1> QED BY <1>12 DEF L

LEMMA StepsPair ==
    ASSUME NEW v, NEW a \in Statements, NEW b \in Statements, Legal(a, v), Legal(b, v),
           Pair(a, b)
    PROVE  Steps(<<a, b>>, v)
<1> DEFINE L == <<a, b>>
<1>1. L \in Seq(Statements) /\ Len(L) = 2 /\ L[1] = a /\ L[2] = b
  OBVIOUS
<1> HIDE DEF L
<1>2. \A k \in 1..Len(L) : k = 1 \/ (k = 2 /\ k - 1 = 1 /\ k > 1)
  BY <1>1
<1>3. ASSUME NEW k \in 1..Len(L) PROVE Legal(L[k], v)
  BY <1>1, <1>2
<1>4. ASSUME NEW k \in 1..Len(L), L[k].op = "add column"
      PROVE  k > 1 /\ k - 1 = 1 /\ L[k] = b
  <2>1. CASE k = 1
    BY <1>1, <1>4, <2>1, Zenon DEF Pair
  <2>2. CASE k # 1
    BY <1>1, <1>2, <2>2
  <2> QED BY <2>1, <2>2
<1>5. Paired(L)
  BY <1>1, <1>4 DEF Paired, Pair
<1>6. Steps(L, v)
  BY <1>1, <1>3, <1>5 DEF Steps
<1> QED BY <1>6 DEF L

LEMMA StepsColumn ==
    ASSUME NEW v, NEW t \in SqliteTables, NEW c \in SqliteNames
    PROVE  Steps(AddColumn(t, c), v)
<1> SUFFICES ASSUME NEW a, a = Statement("has column", "ddl", t, c),
                    NEW b, b = Statement("add column", "ddl", t, c)
             PROVE  Steps(<<a, b>>, v)
  BY DEF AddColumn
<1>1. a \in Statements /\ b \in Statements
  BY DEF Statement, Statements, Ops, Hows, Names, Tables
<1>2. /\ a.op = "has column" /\ a.how = "ddl" /\ a.table = t /\ a.name = c
      /\ b.op = "add column" /\ b.how = "ddl" /\ b.table = t /\ b.name = c
  BY DEF Statement
<1>3. Legal(a, v) /\ Legal(b, v)
  BY <1>2 DEF Legal, Columns, Ensures, Drops, Makes, OnTriggers
<1>4. Pair(a, b)
  BY <1>2 DEF Pair
<1> QED BY <1>1, <1>3, <1>4, StepsPair

LEMMA SqliteLiterals ==
    /\ "knowledge" \in SqliteTables /\ "sessions" \in SqliteTables
    /\ "session_metrics" \in SqliteTables /\ "rules" \in SqliteTables
    /\ "rule_events" \in SqliteTables /\ "rule_outcomes" \in SqliteTables
    /\ "token_ledger" \in SqliteTables /\ "relations" \in SqliteTables
    /\ "snapshots" \in SqliteTables /\ "entries" \in SqliteTables
    /\ "knowledge" \in Indexed /\ "rules" \in Indexed /\ "entries" \in Indexed
  BY DEF SqliteTables, Indexed

LEMMA RemadeLiterals ==
    /\ Touched("knowledge", 5) /\ Touched("rules", 5) /\ Touched("rules", 7)
    /\ Touched("entries", 18) /\ "knowledge" # "entries" /\ "rules" # "entries"
    /\ "create fts" \in {"create fts", "create narrow fts"}
    /\ "create narrow fts" \in {"create fts", "create narrow fts"}
    /\ "create trigger" \in {"create trigger", "create narrow trigger"}
    /\ "create narrow trigger" \in {"create trigger", "create narrow trigger"}
  BY DEF Touched

LEMMA StepsEntries == \A v : Steps(ENTRIES_SCHEMA, v)
<1> SUFFICES ASSUME NEW v PROVE Steps(ENTRIES_SCHEMA, v)
  OBVIOUS
<1>1. Steps(CreateTable("entries"), v)
  BY SqliteLiterals, StepsCreateTable DEF CreateTable
<1>2. Steps(EnsureIndex("entries"), v)
  BY SqliteLiterals, StepsEnsureIndex
<1> QED BY <1>1, <1>2, StepsConcat DEF ENTRIES_SCHEMA

LEMMA StepsV2 == \A v : Steps(MigrateV2ToV3, v)
<1> SUFFICES ASSUME NEW v PROVE Steps(MigrateV2ToV3, v)
  OBVIOUS
<1>1. Steps(AddColumn("knowledge", "last_hit_at"), v)
  BY SqliteLiterals, StepsColumn DEF SqliteNames
<1>2. Steps(AddColumn("rules", "last_hit_at"), v)
  BY SqliteLiterals, StepsColumn DEF SqliteNames
<1>3. Steps(Commit, v)
  BY StepsCommit
<1> QED BY <1>1, <1>2, <1>3, StepsConcat DEF MigrateV2ToV3

LEMMA StepsV4 == \A v : Steps(MigrateV4ToV5, v)
<1> SUFFICES ASSUME NEW v PROVE Steps(MigrateV4ToV5, v)
  OBVIOUS
<1>1. Steps(AddColumns("knowledge", <<"reinforcement_count", "pinned">>), v)
  <2>1. <<"reinforcement_count", "pinned">> \in Seq(SqliteNames)
    BY DEF SqliteNames
  <2> QED BY <2>1, SqliteLiterals, StepsColumns
<1>2. Steps(AddColumns("rules", <<"reinforcement_count", "pinned">>), v)
  <2>1. <<"reinforcement_count", "pinned">> \in Seq(SqliteNames)
    BY DEF SqliteNames
  <2> QED BY <2>1, SqliteLiterals, StepsColumns
<1>3. Steps(Commit, v)
  BY StepsCommit
<1> QED BY <1>1, <1>2, <1>3, StepsConcat DEF MigrateV4ToV5

LEMMA StepsV5 == Steps(MigrateV5ToV6, 5)
<1>1. Steps(Rebuild("knowledge", "create fts"), 5)
  BY SqliteLiterals, RemadeLiterals, StepsRemake
<1>2. Steps(Rebuild("rules", "create narrow fts"), 5)
  BY SqliteLiterals, RemadeLiterals, StepsRemake
<1>3. Steps(CreateTriggers("create trigger", "ddl", "knowledge"), 5)
  BY SqliteLiterals, RemadeLiterals, StepsMakeTriggers
<1>4. Steps(CreateTriggers("create narrow trigger", "ddl", "rules"), 5)
  BY SqliteLiterals, RemadeLiterals, StepsMakeTriggers
<1>5. Steps(Commit, 5)
  BY StepsCommit
<1> QED BY <1>1, <1>2, <1>3, <1>4, <1>5, StepsConcat DEF MigrateV5ToV6

LEMMA StepsV6 == \A v : Steps(MigrateV6ToV7, v)
<1> SUFFICES ASSUME NEW v PROVE Steps(MigrateV6ToV7, v)
  OBVIOUS
<1>1. Steps(AddColumns("rules", <<"content_hash", "archived", "archived_at">>), v)
  <2>1. <<"content_hash", "archived", "archived_at">> \in Seq(SqliteNames)
    BY DEF SqliteNames
  <2> QED BY <2>1, SqliteLiterals, StepsColumns
<1>2. Steps(Commit, v)
  BY StepsCommit
<1> QED BY <1>1, <1>2, StepsConcat DEF MigrateV6ToV7

LEMMA StepsV7 == Steps(MigrateV7ToV8, 7)
<1>1. Steps(AddColumns("rules", <<"content", "created_by", "updated_by">>), 7)
  <2>1. <<"content", "created_by", "updated_by">> \in Seq(SqliteNames)
    BY DEF SqliteNames
  <2> QED BY <2>1, SqliteLiterals, StepsColumns
<1>2. Steps(Rebuild("rules", "create fts"), 7)
  BY SqliteLiterals, RemadeLiterals, StepsRemake
<1>3. Steps(CreateTriggers("create trigger", "ddl", "rules"), 7)
  BY SqliteLiterals, RemadeLiterals, StepsMakeTriggers
<1>4. Steps(<<Statement("create table", "ddl", "rule_events", "")>>, 7)
  BY SqliteLiterals, StepsCreateTable
<1>5. Steps(Commit, 7)
  BY StepsCommit
<1> QED BY <1>1, <1>2, <1>3, <1>4, <1>5, StepsConcat DEF MigrateV7ToV8

LEMMA StepsV8 == \A v : Steps(MigrateV8ToV9, v)
<1> SUFFICES ASSUME NEW v PROVE Steps(MigrateV8ToV9, v)
  OBVIOUS
<1>1. Steps(AddColumns("rules", <<"correct_count", "incorrect_count", "valid_until", "superseded_by", "status">>), v)
  <2>1. <<"correct_count", "incorrect_count", "valid_until", "superseded_by", "status">> \in Seq(SqliteNames)
    BY DEF SqliteNames
  <2> QED BY <2>1, SqliteLiterals, StepsColumns
<1>2. Steps(<<Statement("create table", "ddl", "rule_outcomes", "")>>, v)
  BY SqliteLiterals, StepsCreateTable
<1>3. Steps(Commit, v)
  BY StepsCommit
<1> QED BY <1>1, <1>2, <1>3, StepsConcat DEF MigrateV8ToV9

LEMMA StepsV9 == \A v : Steps(MigrateV9ToV10, v)
<1> SUFFICES ASSUME NEW v PROVE Steps(MigrateV9ToV10, v)
  OBVIOUS
<1>1. Steps(<<Statement("create table", "ddl", "token_ledger", "")>>, v)
  BY SqliteLiterals, StepsCreateTable
<1>2. Steps(Commit, v)
  BY StepsCommit
<1> QED BY <1>1, <1>2, StepsConcat DEF MigrateV9ToV10

LEMMA StepsV10 == \A v : Steps(MigrateV10ToV11, v)
<1> SUFFICES ASSUME NEW v PROVE Steps(MigrateV10ToV11, v)
  OBVIOUS
<1>1. Steps(AddColumns("rules", <<"importance", "scope", "kind">>), v)
  <2>1. <<"importance", "scope", "kind">> \in Seq(SqliteNames)
    BY DEF SqliteNames
  <2> QED BY <2>1, SqliteLiterals, StepsColumns
<1>2. Steps(Commit, v)
  BY StepsCommit
<1> QED BY <1>1, <1>2, StepsConcat DEF MigrateV10ToV11

LEMMA StepsV11 == \A v : Steps(MigrateV11ToV12, v)
<1> SUFFICES ASSUME NEW v PROVE Steps(MigrateV11ToV12, v)
  OBVIOUS
<1>1. Steps(AddColumn("knowledge", "refs_json"), v)
  BY SqliteLiterals, StepsColumn DEF SqliteNames
<1>2. Steps(Commit, v)
  BY StepsCommit
<1> QED BY <1>1, <1>2, StepsConcat DEF MigrateV11ToV12

LEMMA StepsV12 == \A v : Steps(MigrateV12ToV13, v)
<1> SUFFICES ASSUME NEW v PROVE Steps(MigrateV12ToV13, v)
  OBVIOUS
<1>1. Steps(AddColumn("knowledge", "source_classification"), v)
  BY SqliteLiterals, StepsColumn DEF SqliteNames
<1>2. Steps(AddColumn("rules", "source_classification"), v)
  BY SqliteLiterals, StepsColumn DEF SqliteNames
<1>3. Steps(Commit, v)
  BY StepsCommit
<1> QED BY <1>1, <1>2, <1>3, StepsConcat DEF MigrateV12ToV13

LEMMA StepsV13 == \A v : Steps(MigrateV13ToV14, v)
<1> SUFFICES ASSUME NEW v PROVE Steps(MigrateV13ToV14, v)
  OBVIOUS
<1>1. Steps(AddColumns("knowledge", <<"status", "superseded_by">>), v)
  <2>1. <<"status", "superseded_by">> \in Seq(SqliteNames)
    BY DEF SqliteNames
  <2> QED BY <2>1, SqliteLiterals, StepsColumns
<1>2. Steps(Commit, v)
  BY StepsCommit
<1> QED BY <1>1, <1>2, StepsConcat DEF MigrateV13ToV14

LEMMA StepsV14 == \A v : Steps(MigrateV14ToV15, v)
<1> SUFFICES ASSUME NEW v PROVE Steps(MigrateV14ToV15, v)
  OBVIOUS
<1>1. Steps(<<Statement("create table", "ddl", "session_metrics", "")>>, v)
  BY SqliteLiterals, StepsCreateTable
<1>2. Steps(Commit, v)
  BY StepsCommit
<1> QED BY <1>1, <1>2, StepsConcat DEF MigrateV14ToV15

LEMMA StepsV15 == \A v : Steps(MigrateV15ToV16, v)
<1> SUFFICES ASSUME NEW v PROVE Steps(MigrateV15ToV16, v)
  OBVIOUS
<1>1. Steps(AddColumn("knowledge", "valid_until"), v)
  BY SqliteLiterals, StepsColumn DEF SqliteNames
<1>2. Steps(Commit, v)
  BY StepsCommit
<1> QED BY <1>1, <1>2, StepsConcat DEF MigrateV15ToV16

LEMMA StepsV16 == \A v : Steps(MigrateV16ToV17, v)
<1> SUFFICES ASSUME NEW v PROVE Steps(MigrateV16ToV17, v)
  OBVIOUS
<1>1. Steps(AddColumns("sessions", <<"principal", "workspace">>), v)
  <2>1. <<"principal", "workspace">> \in Seq(SqliteNames)
    BY DEF SqliteNames
  <2> QED BY <2>1, SqliteLiterals, StepsColumns
<1>2. Steps(Commit, v)
  BY StepsCommit
<1> QED BY <1>1, <1>2, StepsConcat DEF MigrateV16ToV17

LEMMA StepsV17 == \A v : Steps(MigrateV17ToV18, v)
<1> SUFFICES ASSUME NEW v PROVE Steps(MigrateV17ToV18, v)
  OBVIOUS
<1>1. Steps(ENTRIES_SCHEMA, v)
  BY StepsEntries
<1>2. Steps(Commit, v)
  BY StepsCommit
<1> QED BY <1>1, <1>2, StepsConcat DEF MigrateV17ToV18

LEMMA StepsV18 == Steps(MigrateV18ToV19, 18)
<1>1. Steps(AddColumn("entries", "facets_text"), 18)
  BY SqliteLiterals, StepsColumn DEF SqliteNames
<1>2. Steps(DropIndex("entries", "script"), 18)
  BY SqliteLiterals, RemadeLiterals, StepsDropIndex
<1>3. Steps(ENTRIES_SCHEMA, 18)
  BY StepsEntries
<1>4. Steps(<<Statement("rebuild", "script", "entries", "")>>, 18)
  BY SqliteLiterals, RemadeLiterals, StepsRebuild DEF Hows
<1>5. Steps(Commit, 18)
  BY StepsCommit
<1> QED BY <1>1, <1>2, <1>3, <1>4, <1>5, StepsConcat DEF MigrateV18ToV19

----------------------------------------------------------------------------
(* What the migrations spoil and repair.  A list legal in version 19 makes *)
(* no index anew.                                                          *)

LEMMA UntouchedLast == \A t : ~Touched(t, 19)
  BY DEF Touched

LEMMA QuietEffect ==
    ASSUME NEW s, Legal(s, 19)
    PROVE  /\ Spoils(s) = {} /\ s.op # "drop fts" /\ s.op # "drop trigger"
           /\ Repairs(s) \subseteq {Tx} \cup Idx("entries")
<1>1. \/ Columns(s) \/ Ensures(s) \/ s.op = "create table" \/ s.op = "commit"
      \/ s.op = "read version"
  BY UntouchedLast DEF Legal
<1>2. s.how # "dml"
  <2>1. s.op # "rebuild"
    BY <1>1 DEF Columns, Ensures
  <2> QED BY <2>1 DEF Legal
<1>3. CASE Columns(s) \/ s.op = "create table" \/ s.op = "read version"
  <2>1. Calm(s)
    BY <1>3 DEF Columns, Calm
  <2>2. Spoils(s) = {} /\ Repairs(s) = {}
    BY <2>1, <1>2, CalmEffect
  <2> QED BY <1>3, <2>2 DEF Columns
<1>4. CASE Ensures(s)
  <2>1. s.op = "ensure fts" \/ s.op = "ensure trigger"
    BY <1>4 DEF Ensures
  <2>2. /\ Spoils(s) = {}
        /\ Repairs(s) = IF s.table # "entries" THEN {}
                           ELSE IF s.op = "ensure fts" THEN {Shape(s.table)}
                           ELSE {Trig(s.table, s.name)}
    BY <1>2, <2>1, EnsureEffect
  <2>3. s.op = "ensure trigger" => s.name \in Triggers
    BY DEF Legal, OnTriggers
  <2>4. CASE s.table # "entries"
    BY <2>1, <2>2, <2>4
  <2>5. CASE s.table = "entries"
    <3>1. s.op = "ensure fts" => Repairs(s) = {Shape("entries")}
      BY <2>2, <2>5
    <3>2. s.op = "ensure trigger" => Repairs(s) = {Trig("entries", s.name)}
      BY <2>2, <2>5
    <3> QED BY <2>1, <2>2, <2>3, <3>1, <3>2 DEF Idx
  <2> QED BY <2>4, <2>5
<1>5. CASE s.op = "commit"
  BY <1>2, <1>5, CommitEffect
<1> QED BY <1>1, <1>3, <1>4, <1>5

LEMMA RunsQuiet ==
    ASSUME NEW L, Steps(L, 19), NEW O \in SUBSET Idx("rules"), Careful(O)
    PROVE  Runs(L, O, O)
<1>1. O \cap ({Tx} \cup Idx("entries")) = {}
  <2>1. Tx \notin Idx("rules")
    BY TxDiffers DEF Idx
  <2>2. Idx("rules") \cap Idx("entries") = {}
    <3>1. "rules" # "entries"
      OBVIOUS
    <3> QED BY <3>1, TrigTrig, ShapeShape, RowsRows, TrigShape, TrigRows, ShapeRows DEF Idx
  <2> QED BY <2>1, <2>2
<1>2. Tx \notin O
  BY <1>1
<1>3. \A k \in 1..Len(L) : Legal(L[k], 19)
  BY DEF Steps
<1>4. Plain(L, O)
  BY <1>1, <1>3, QuietEffect DEF Plain
<1>5. O \in SUBSET Aspects
  BY AspectsOf, SqliteLiterals
<1> QED BY <1>2, <1>4, <1>5, RunsPlain DEF Steps

LEMMA CarefulSome ==
    /\ Careful({}) /\ {} \in SUBSET Aspects /\ {} \in SUBSET Idx("rules")
    /\ \A t : Careful(Idx(t))
    /\ \A O : Careful(O \cup {Tx})
    /\ Idx("rules") \in SUBSET Aspects
<1>1. ASSUME NEW t PROVE Careful(Idx(t))
  <2> SUFFICES ASSUME NEW u \in Indexed,
                      Shape(u) \in Idx(t) \/ \E x \in Triggers : Trig(u, x) \in Idx(t)
               PROVE  RowsIn(u) \in Idx(t)
    BY DEF Careful
  <2>1. u = t
    BY TrigTrig, ShapeShape, TrigShape, TrigRows, ShapeRows DEF Idx
  <2> QED BY <2>1 DEF Idx
<1>2. Idx("rules") \in SUBSET Aspects
  BY AspectsOf, SqliteLiterals
<1>3. Careful({})
  BY DEF Careful
<1>4. \A O : Careful(O \cup {Tx})
  BY DEF Careful
<1> QED BY <1>1, <1>2, <1>3, <1>4

LEMMA RunsNewIndex ==
    ASSUME NEW t \in Indexed, t # "entries", NEW O \in SUBSET Aspects, Careful(O)
    PROVE  Runs(Rebuild(t, "create fts"), O,
                ((O \cup Idx(t)) \ {Shape(t), RowsIn(t)}) \cup {Tx})
<1> DEFINE P == O \cup Idx(t)
           Q == P \ {Shape(t)}
           R == (Q \cup {Tx}) \ {RowsIn(t)}
<1>1. Runs(DropIndex(t, "ddl"), O, P)
  BY RunsDropIndex DEF Hows
<1>2. Careful(P) /\ P \in SUBSET Aspects
  BY <1>1, RunsCareful
<1>3. RowsIn(t) \in P
  BY DEF Idx
<1>4. Runs(<<Statement("create fts", "ddl", t, "")>>, P, Q)
  <2> SUFFICES ASSUME NEW s, s = Statement("create fts", "ddl", t, "")
               PROVE  Runs(<<s>>, P, Q)
    OBVIOUS
  <2>0. t \in Tables
    BY DEF Indexed, Tables, SqliteTables
  <2>1. s \in Statements
    BY <2>0 DEF Statement, Statements, Ops, Names, Hows
  <2>2. s.op = "create fts" /\ s.table = t
    BY DEF Statement
  <2> QED BY <1>2, <1>3, <2>1, <2>2, RunsCreateFts
<1>5. Careful(Q) /\ Q \in SUBSET Aspects
  <2> HIDE DEF P, Q
  <2> QED BY <1>4, RunsCareful
<1>6. Runs(<<Statement("rebuild", "dml", t, "")>>, Q, R)
  <2> SUFFICES ASSUME NEW s, s = Statement("rebuild", "dml", t, "")
               PROVE  Runs(<<s>>, Q, R)
    OBVIOUS
  <2>0. t \in Tables
    BY DEF Indexed, Tables, SqliteTables
  <2>1. s \in Statements
    BY <2>0 DEF Statement, Statements, Ops, Names, Hows
  <2>2. s.op = "rebuild" /\ s.table = t /\ s.how = "dml"
    BY DEF Statement
  <2> QED BY <1>5, <2>1, <2>2, RunsRebuild
<1>7. R = ((O \cup Idx(t)) \ {Shape(t), RowsIn(t)}) \cup {Tx}
  BY TxDiffers
<1> HIDE DEF P, Q, R
<1>8. Runs(Rebuild(t, "create fts"), O, R)
  BY <1>1, <1>4, <1>6, RunsConcat DEF Rebuild
<1> QED BY <1>7, <1>8

LEMMA RunsNarrowIndex ==
    ASSUME NEW t \in Indexed, t # "entries", NEW O \in SUBSET Aspects, Careful(O)
    PROVE  Runs(Rebuild(t, "create narrow fts"), O,
                ((O \cup Idx(t)) \ {RowsIn(t)}) \cup {Tx})
<1> DEFINE P == O \cup Idx(t)
           R == (P \cup {Tx}) \ {RowsIn(t)}
<1>1. Runs(DropIndex(t, "ddl"), O, P)
  BY RunsDropIndex DEF Hows
<1>2. Careful(P) /\ P \in SUBSET Aspects
  BY <1>1, RunsCareful
<1>3. RowsIn(t) \in P /\ Shape(t) \in P
  BY DEF Idx
<1>4. Runs(<<Statement("create narrow fts", "ddl", t, "")>>, P, P)
  <2> SUFFICES ASSUME NEW s, s = Statement("create narrow fts", "ddl", t, "")
               PROVE  Runs(<<s>>, P, P)
    OBVIOUS
  <2>0. t \in Tables
    BY DEF Indexed, Tables, SqliteTables
  <2>1. s \in Statements
    BY <2>0 DEF Statement, Statements, Ops, Names, Hows
  <2>2. s.op = "create narrow fts" /\ s.table = t
    BY DEF Statement
  <2> QED BY <1>2, <1>3, <2>1, <2>2, RunsNarrowFts
<1>6. Runs(<<Statement("rebuild", "dml", t, "")>>, P, R)
  <2> SUFFICES ASSUME NEW s, s = Statement("rebuild", "dml", t, "")
               PROVE  Runs(<<s>>, P, R)
    OBVIOUS
  <2>0. t \in Tables
    BY DEF Indexed, Tables, SqliteTables
  <2>1. s \in Statements
    BY <2>0 DEF Statement, Statements, Ops, Names, Hows
  <2>2. s.op = "rebuild" /\ s.table = t /\ s.how = "dml"
    BY DEF Statement
  <2> QED BY <1>2, <2>1, <2>2, RunsRebuild
<1>7. R = ((O \cup Idx(t)) \ {RowsIn(t)}) \cup {Tx}
  BY TxDiffers
<1> HIDE DEF P, R
<1>8. Runs(Rebuild(t, "create narrow fts"), O, R)
  BY <1>1, <1>4, <1>6, RunsConcat DEF Rebuild
<1> QED BY <1>7, <1>8

\* The v6 migration leaves the rules without a wide index; the one of v8 makes it.
LEMMA RunsV5 == Runs(MigrateV5ToV6, {}, Idx("rules"))
<1> DEFINE K == Idx("knowledge")
           R == Idx("rules")
           A == (({} \cup K) \ {Shape("knowledge"), RowsIn("knowledge")}) \cup {Tx}
           B == ((A \cup R) \ {RowsIn("rules")}) \cup {Tx}
           C == B \ {Trig("knowledge", x) : x \in Triggers}
           D == C \cup {Trig("rules", x) : x \in Triggers} \cup {RowsIn("rules")}
<1>1. Runs(Rebuild("knowledge", "create fts"), {}, A)
  BY RunsNewIndex, CarefulSome, SqliteLiterals, RemadeLiterals
<1>2. Careful(A) /\ A \in SUBSET Aspects
  <2> HIDE DEF A
  <2> QED BY <1>1, RunsCareful
<1>3. Runs(Rebuild("rules", "create narrow fts"), A, B)
  <2> HIDE DEF A
  <2> QED BY <1>2, RunsNarrowIndex, SqliteLiterals, RemadeLiterals
<1>4. Careful(B) /\ B \in SUBSET Aspects
  <2> HIDE DEF A, B
  <2> QED BY <1>3, RunsCareful
<1>5. "ddl" # "dml" /\ "ddl" \in Hows
  BY DEF Hows
<1>6. Runs(CreateTriggers("create trigger", "ddl", "knowledge"), B, C)
  <2> HIDE DEF B
  <2> QED BY <1>4, <1>5, RunsCreateTriggers, SqliteLiterals, RemadeLiterals
<1>7. Careful(C) /\ C \in SUBSET Aspects
  <2> HIDE DEF B, C
  <2> QED BY <1>6, RunsCareful
<1>8. Runs(CreateTriggers("create narrow trigger", "ddl", "rules"), C, D)
  <2> HIDE DEF C
  <2> QED BY <1>5, <1>7, RunsNarrowTriggers, SqliteLiterals, RemadeLiterals
<1>9. D \ {Tx} = R
  <2>1. "knowledge" # "rules"
    OBVIOUS
  <2>2. K = {Trig("knowledge", x) : x \in Triggers} \cup {Shape("knowledge"), RowsIn("knowledge")}
    BY DEF Idx
  <2>3. R = {Trig("rules", x) : x \in Triggers} \cup {Shape("rules"), RowsIn("rules")}
    BY DEF Idx
  <2>4. Tx \notin R /\ Tx \notin K
    BY TxDiffers DEF Idx
  <2>5. R \cap {Trig("knowledge", x) : x \in Triggers} = {}
    BY <2>1, <2>3, TrigTrig, TrigShape, TrigRows
  <2> HIDE DEF K, R
  <2> QED BY <2>2, <2>3, <2>4, <2>5
<1>10. Careful(D) /\ D \in SUBSET Aspects
  <2> HIDE DEF C, D
  <2> QED BY <1>8, RunsCareful
<1>11. Runs(Commit, D, R)
  <2> HIDE DEF D, R
  <2>1. Careful(D \ {Tx})
    BY <1>9, CarefulSome DEF R
  <2>2. Runs(Commit, D, D \ {Tx})
    BY <1>10, <2>1, RunsCommit
  <2> QED BY <1>9, <2>2
<1> HIDE DEF A, B, C, D, R
<1>12. Runs(MigrateV5ToV6, {}, R)
  BY <1>1, <1>3, <1>6, <1>8, <1>11, RunsConcat DEF MigrateV5ToV6
<1> QED BY <1>12 DEF R

LEMMA RunsV7 ==
    ASSUME NEW O, O = {} \/ O = Idx("rules")
    PROVE  Runs(MigrateV7ToV8, O, {})
<1> DEFINE R == Idx("rules")
           B == ((O \cup R) \ {Shape("rules"), RowsIn("rules")}) \cup {Tx}
           C == B \ {Trig("rules", x) : x \in Triggers}
           cs == <<"content", "created_by", "updated_by">>
<1>1. O \in SUBSET Idx("rules") /\ Careful(O) /\ O \in SUBSET Aspects
  BY CarefulSome
<1>2. Runs(AddColumns("rules", cs), O, O)
  <2>1. cs \in Seq(SqliteNames)
    BY DEF SqliteNames
  <2>2. Steps(AddColumns("rules", cs), 19)
    <3> HIDE DEF cs
    <3> QED BY <2>1, StepsColumns, SqliteLiterals
  <2> QED BY <1>1, <2>2, RunsQuiet
<1>3. Runs(Rebuild("rules", "create fts"), O, B)
  BY <1>1, RunsNewIndex, SqliteLiterals, RemadeLiterals
<1>4. Careful(B) /\ B \in SUBSET Aspects
  <2> HIDE DEF B
  <2> QED BY <1>3, RunsCareful
<1>5. "ddl" # "dml" /\ "ddl" \in Hows
  BY DEF Hows
<1>6. Runs(CreateTriggers("create trigger", "ddl", "rules"), B, C)
  <2> HIDE DEF B
  <2> QED BY <1>4, <1>5, RunsCreateTriggers, SqliteLiterals, RemadeLiterals
<1>7. C = {Tx}
  <2>1. R = {Trig("rules", x) : x \in Triggers} \cup {Shape("rules"), RowsIn("rules")}
    BY DEF Idx
  <2>2. Tx \notin {Trig("rules", x) : x \in Triggers}
    BY TxDiffers
  <2>3. O \subseteq R
    BY <1>1
  <2> HIDE DEF R
  <2> QED BY <2>1, <2>2, <2>3
<1>8. Careful({Tx}) /\ {Tx} \in SUBSET Aspects
  BY AspectsOf DEF Careful
<1>9. Runs(<<Statement("create table", "ddl", "rule_events", "")>>, {Tx}, {Tx})
  <2> SUFFICES ASSUME NEW s, s = Statement("create table", "ddl", "rule_events", "")
               PROVE  Runs(<<s>>, {Tx}, {Tx})
    OBVIOUS
  <2>1. s \in Statements
    BY DEF Statement, Statements, Ops, Names, Hows, Tables, SqliteTables
  <2>2. s.op = "create table" /\ s.table = "rule_events" /\ s.how = "ddl"
    BY DEF Statement
  <2>3. Calm(s)
    BY <2>2 DEF Calm
  <2>4. Spoils(s) = {} /\ Repairs(s) = {}
    BY <2>2, <2>3, CalmEffect
  <2>5. After(s, {Tx}) = {Tx}
    BY <2>4 DEF After
  <2>6. Fits(s, {Tx})
    BY <2>2 DEF Fits, Apart, Dropping
  <2>7. Runs(<<s>>, {Tx}, After(s, {Tx}))
    BY <1>8, <2>1, <2>5, <2>6, RunsOne
  <2> QED BY <2>5, <2>7
<1>10. Runs(Commit, {Tx}, {})
  <2>1. {Tx} \ {Tx} = {}
    OBVIOUS
  <2>2. Careful({Tx} \ {Tx})
    BY <2>1, CarefulSome
  <2>3. Runs(Commit, {Tx}, {Tx} \ {Tx})
    BY <1>8, <2>2, RunsCommit
  <2> QED BY <2>1, <2>3
<1>11. Runs(CreateTriggers("create trigger", "ddl", "rules"), B, {Tx})
  BY <1>6, <1>7
<1> HIDE DEF B, C
<1> QED BY <1>2, <1>3, <1>9, <1>10, <1>11, RunsConcat DEF MigrateV7ToV8

LEMMA RunsV18 == Runs(MigrateV18ToV19, {}, {})
<1> DEFINE E == Idx("entries")
           A == {Trig("entries", x) : x \in Triggers}
<1>1. Runs(AddColumn("entries", "facets_text"), {}, {})
  <2>1. Steps(AddColumn("entries", "facets_text"), 19)
    BY StepsColumn, SqliteLiterals DEF SqliteNames
  <2> QED BY <2>1, CarefulSome, RunsQuiet
<1>2. Runs(DropIndex("entries", "script"), {}, E)
  <2>1. "script" \in Hows
    BY DEF Hows
  <2>2. Runs(DropIndex("entries", "script"), {}, {} \cup Idx("entries"))
    BY <2>1, RunsDropIndex, CarefulSome, SqliteLiterals
  <2> QED BY <2>2
<1>3. Careful(E) /\ E \in SUBSET Aspects
  <2> HIDE DEF E
  <2> QED BY <1>2, RunsCareful
<1>4. Tx \notin E
  BY TxDiffers DEF Idx
<1>5. Runs(CreateTable("entries"), E, E)
  <2> SUFFICES ASSUME NEW s, s = Statement("create table", "script", "entries", "")
               PROVE  Runs(<<s>>, E, E)
    BY DEF CreateTable
  <2>1. s \in Statements
    BY DEF Statement, Statements, Ops, Names, Hows, Tables, SqliteTables
  <2>2. s.op = "create table" /\ s.how = "script"
    BY DEF Statement
  <2>3. Calm(s)
    BY <2>2 DEF Calm
  <2>4. Spoils(s) = {} /\ Repairs(s) = {}
    BY <2>2, <2>3, CalmEffect
  <2>5. After(s, E) = E
    BY <2>4 DEF After
  <2>6. Fits(s, E)
    BY <1>4, <2>2 DEF Fits, Apart, Dropping
  <2>7. Runs(<<s>>, E, After(s, E))
    BY <1>3, <2>1, <2>5, <2>6, RunsOne
  <2> QED BY <2>5, <2>7
<1>6. Runs(<<Statement("ensure fts", "script", "entries", "")>>, E, E \ {Shape("entries")})
  <2> SUFFICES ASSUME NEW s, s = Statement("ensure fts", "script", "entries", "")
               PROVE  Runs(<<s>>, E, E \ {Shape("entries")})
    OBVIOUS
  <2>1. s \in Statements
    BY DEF Statement, Statements, Ops, Names, Hows, Tables, SqliteTables
  <2>2. s.op = "ensure fts" /\ s.how = "script" /\ s.table = "entries"
    BY DEF Statement
  <2>4. Spoils(s) = {} /\ Repairs(s) = {Shape("entries")}
    BY <2>2, EnsureEffect
  <2>5. After(s, E) = E \ {Shape("entries")}
    BY <2>4 DEF After
  <2>6. Fits(s, E)
    BY <1>4, <2>2 DEF Fits, Apart, Dropping
  <2>8. Careful(E \ {Shape("entries")})
    BY <1>3, ShapeRows, TxDiffers DEF Careful
  <2>7. Runs(<<s>>, E, After(s, E))
    BY <1>3, <2>1, <2>5, <2>6, <2>8, RunsOne
  <2> QED BY <2>5, <2>7
<1>7. Runs(CreateTriggers("ensure trigger", "script", "entries"), E \ {Shape("entries")},
           (E \ {Shape("entries")}) \ A)
  <2> DEFINE O == E \ {Shape("entries")}
             P == O \ {Trig("entries", "ai")}
             Q == P \ {Trig("entries", "ad")}
             R == Q \ {Trig("entries", "au")}
  <2>1. Careful(O) /\ O \in SUBSET Aspects
    <3>1. Runs(<<Statement("ensure fts", "script", "entries", "")>>, E, O)
      BY <1>6
    <3> HIDE DEF E, O
    <3> QED BY <3>1, RunsCareful
  <2>2. ASSUME NEW x \in Triggers, NEW s, s = Statement("ensure trigger", "script", "entries", x),
               NEW S \in SUBSET Aspects, Careful(S), Tx \notin S
        PROVE  s \in Statements /\ Runs(<<s>>, S, S \ {Trig("entries", x)})
    <3>1. s \in Statements
      BY <2>2 DEF Statement, Statements, Ops, Names, Hows, Tables, SqliteTables
    <3>2. s.op = "ensure trigger" /\ s.how = "script" /\ s.table = "entries" /\ s.name = x
      BY <2>2 DEF Statement
    <3>4. Spoils(s) = {} /\ Repairs(s) = {Trig("entries", x)}
      BY <3>2, EnsureEffect
    <3>5. After(s, S) = S \ {Trig("entries", x)}
      BY <3>4 DEF After
    <3>6. Fits(s, S)
      BY <2>2, <3>2 DEF Fits, Apart, Dropping
    <3>8. Careful(S \ {Trig("entries", x)})
      BY <2>2, TrigRows, TxDiffers DEF Careful
    <3>7. Runs(<<s>>, S, After(s, S))
      BY <2>2, <3>1, <3>5, <3>6, <3>8, RunsOne
    <3> QED BY <3>1, <3>5, <3>7
  <2>3. "ai" \in Triggers /\ "ad" \in Triggers /\ "au" \in Triggers
    BY DEF Triggers
  <2>t. Tx \notin O /\ Tx \notin P /\ Tx \notin Q
    BY <1>4
  <2>4. R = O \ A
    BY DEF Triggers
  <2>p. P \in SUBSET Aspects /\ Q \in SUBSET Aspects
    BY <2>1
  <2> SUFFICES ASSUME NEW a, a = Statement("ensure trigger", "script", "entries", "ai"),
                      NEW b, b = Statement("ensure trigger", "script", "entries", "ad"),
                      NEW c, c = Statement("ensure trigger", "script", "entries", "au")
               PROVE  Runs(<<a, b, c>>, O, R)
    BY <2>4 DEF CreateTriggers
  <2>5. a \in Statements /\ Runs(<<a>>, O, P)
    <3> HIDE DEF O
    <3> QED BY <2>1, <2>2, <2>3, <2>t
  <2>6. Careful(P)
    <3> HIDE DEF O, P
    <3> QED BY <2>5, RunsCareful
  <2>7. b \in Statements /\ Runs(<<b>>, P, Q)
    <3> HIDE DEF O, P
    <3> QED BY <2>2, <2>3, <2>6, <2>p, <2>t
  <2>8. Careful(Q)
    <3> HIDE DEF O, P, Q
    <3> QED BY <2>7, RunsCareful
  <2>9. c \in Statements /\ Runs(<<c>>, Q, R)
    <3> HIDE DEF O, P, Q
    <3> QED BY <2>2, <2>3, <2>8, <2>p, <2>t
  <2> HIDE DEF O, P, Q, R
  <2> QED BY <2>5, <2>7, <2>9, RunsThree
<1>8. (E \ {Shape("entries")}) \ A = {RowsIn("entries")}
  BY TrigRows, ShapeRows DEF Idx
<1>9. Runs(ENTRIES_SCHEMA, E, {RowsIn("entries")})
  <2>1. Runs(CreateTriggers("ensure trigger", "script", "entries"), E \ {Shape("entries")},
             {RowsIn("entries")})
    BY <1>7, <1>8
  <2>2. Runs(EnsureIndex("entries"), E, {RowsIn("entries")})
    <3> HIDE DEF E
    <3> QED BY <1>6, <2>1, RunsConcat DEF EnsureIndex
  <2> HIDE DEF E
  <2> QED BY <1>5, <2>2, RunsConcat DEF ENTRIES_SCHEMA
<1>10. Runs(<<Statement("rebuild", "script", "entries", "")>>, {RowsIn("entries")}, {})
  <2> SUFFICES ASSUME NEW s, s = Statement("rebuild", "script", "entries", "")
               PROVE  Runs(<<s>>, {RowsIn("entries")}, {})
    OBVIOUS
  <2>1. s \in Statements
    BY DEF Statement, Statements, Ops, Names, Hows, Tables, SqliteTables
  <2>2. s.op = "rebuild" /\ s.how = "script" /\ s.table = "entries"
    BY DEF Statement
  <2>4. Spoils(s) = {} /\ Repairs(s) = {RowsIn("entries")}
    BY <2>2, RebuildEffect
  <2>5. After(s, {RowsIn("entries")}) = {}
    BY <2>4 DEF After
  <2>9. Tx \notin {RowsIn("entries")}
    BY TxDiffers
  <2>6. Fits(s, {RowsIn("entries")})
    BY <2>2, <2>9 DEF Fits, Apart, Dropping
  <2>7. Careful({RowsIn("entries")})
    BY TrigRows, ShapeRows DEF Careful
  <2>8. {RowsIn("entries")} \in SUBSET Aspects
    BY AspectsOf, SqliteLiterals
  <2>10. Runs(<<s>>, {RowsIn("entries")}, After(s, {RowsIn("entries")}))
    BY <2>1, <2>5, <2>6, <2>7, <2>8, CarefulSome, RunsOne
  <2> QED BY <2>5, <2>10
<1>11. Runs(Commit, {}, {})
  <2>1. {} \ {Tx} = {}
    OBVIOUS
  <2>2. Runs(Commit, {}, {} \ {Tx})
    BY <2>1, CarefulSome, RunsCommit
  <2> QED BY <2>1, <2>2
<1> HIDE DEF E
<1> QED BY <1>1, <1>2, <1>9, <1>10, <1>11, RunsConcat DEF MigrateV18ToV19

----------------------------------------------------------------------------
(* The whole of a boot.                                                    *)

LEMMA ElemsConcat ==
    ASSUME NEW L \in Seq(Statements), NEW M \in Seq(Statements)
    PROVE  Elems(L \o M) = Elems(L) \cup Elems(M)
<1> DEFINE LM == L \o M
           n == Len(L)
           m == Len(M)
<1>1. /\ Len(LM) = n + m /\ n \in Nat /\ m \in Nat
      /\ (\A k \in 1..n : LM[k] = L[k]) /\ \A k \in 1..m : LM[n + k] = M[k]
  OBVIOUS
<1> HIDE DEF LM, n, m
<1>2. ASSUME NEW k \in 1..(n + m) PROVE LM[k] \in {L[i] : i \in 1..n} \cup {M[i] : i \in 1..m}
  <2>1. CASE k \in 1..n
    BY <1>1, <2>1
  <2>2. CASE k \notin 1..n
    <3>1. k - n \in 1..m /\ n + (k - n) = k
      BY <1>1, <2>2
    <3>2. LM[n + (k - n)] = M[k - n]
      BY <1>1, <3>1
    <3> QED BY <3>1, <3>2
  <2> QED BY <2>1, <2>2
<1>3. (\A k \in 1..n : k \in 1..(n + m)) /\ \A k \in 1..m : n + k \in 1..(n + m)
  BY <1>1
<1>4. {LM[i] : i \in 1..(n + m)} = {L[i] : i \in 1..n} \cup {M[i] : i \in 1..m}
  BY <1>1, <1>2, <1>3
<1> QED BY <1>1, <1>4 DEF Elems, LM, n, m

LEMMA ElemsOne ==
    ASSUME NEW s \in Statements
    PROVE  Elems(<<s>>) = {s}
<1> DEFINE L == <<s>>
<1>1. Len(L) = 1 /\ L[1] = s
  OBVIOUS
<1> HIDE DEF L
<1>2. 1..Len(L) = {1}
  BY <1>1
<1>3. Elems(L) = {s}
  BY <1>1, <1>2 DEF Elems
<1> QED BY <1>3 DEF L

LEMMA ElemsThree ==
    ASSUME NEW a \in Statements, NEW b \in Statements, NEW c \in Statements
    PROVE  <<a, b, c>> \in Seq(Statements) /\ Elems(<<a, b, c>>) = {a, b, c}
<1>1. <<a>> \in Seq(Statements) /\ <<b>> \in Seq(Statements) /\ <<c>> \in Seq(Statements)
  OBVIOUS
<1>2. /\ Elems(<<a>>) = {a} /\ Elems(<<b>>) = {b} /\ Elems(<<c>>) = {c}
  BY ElemsOne
<1>3. Elems(<<a>> \o <<b>>) = Elems(<<a>>) \cup Elems(<<b>>)
  BY <1>1, ElemsConcat
<1>4. <<a>> \o <<b>> = <<a, b>> /\ <<a, b>> \in Seq(Statements)
  BY TwoStatements
<1>5. Elems(<<a, b>> \o <<c>>) = Elems(<<a, b>>) \cup Elems(<<c>>)
  BY <1>1, <1>4, ElemsConcat
<1>6. <<a, b>> \o <<c>> = <<a, b, c>> /\ <<a, b, c>> \in Seq(Statements)
  BY ThreeStatements
<1> QED BY <1>2, <1>3, <1>4, <1>5, <1>6

LEMMA ElemsFour ==
    ASSUME NEW a \in Statements, NEW b \in Statements, NEW c \in Statements,
           NEW d \in Statements
    PROVE  Elems(<<a, b, c, d>>) = {a, b, c, d}
<1>1. <<a, b, c>> \in Seq(Statements) /\ <<d>> \in Seq(Statements)
  OBVIOUS
<1>2. Elems(<<a, b, c>>) = {a, b, c} /\ Elems(<<d>>) = {d}
  BY ElemsOne, ElemsThree
<1>3. Elems(<<a, b, c>> \o <<d>>) = Elems(<<a, b, c>>) \cup Elems(<<d>>)
  BY <1>1, ElemsConcat
<1>4. <<a, b, c>> \o <<d>> = <<a, b, c, d>>
  BY FourStatements
<1> QED BY <1>2, <1>3, <1>4

LEMMA StepsMigration ==
    /\ \A n \in 1..18 : Steps(Migrations[n], n)
    /\ \A n \in (1..18) \ Remakes : Steps(Migrations[n], 19)
<1>1. Migrations[1] = MigrateV1ToV2
  BY DEF Migrations
<1>2. Migrations[2] = MigrateV2ToV3
  BY DEF Migrations
<1>3. Migrations[3] = MigrateV3ToV4
  BY DEF Migrations
<1>4. Migrations[4] = MigrateV4ToV5
  BY DEF Migrations
<1>5. Migrations[5] = MigrateV5ToV6
  BY DEF Migrations
<1>6. Migrations[6] = MigrateV6ToV7
  BY DEF Migrations
<1>7. Migrations[7] = MigrateV7ToV8
  BY DEF Migrations
<1>8. Migrations[8] = MigrateV8ToV9
  BY DEF Migrations
<1>9. Migrations[9] = MigrateV9ToV10
  BY DEF Migrations
<1>10. Migrations[10] = MigrateV10ToV11
  BY DEF Migrations
<1>11. Migrations[11] = MigrateV11ToV12
  BY DEF Migrations
<1>12. Migrations[12] = MigrateV12ToV13
  BY DEF Migrations
<1>13. Migrations[13] = MigrateV13ToV14
  BY DEF Migrations
<1>14. Migrations[14] = MigrateV14ToV15
  BY DEF Migrations
<1>15. Migrations[15] = MigrateV15ToV16
  BY DEF Migrations
<1>16. Migrations[16] = MigrateV16ToV17
  BY DEF Migrations
<1>17. Migrations[17] = MigrateV17ToV18
  BY DEF Migrations
<1>18. Migrations[18] = MigrateV18ToV19
  BY DEF Migrations
<1>21. Steps(Migrations[1], 1) /\ Steps(Migrations[1], 19)
  BY <1>1, StepsNothing DEF MigrateV1ToV2
<1>22. Steps(Migrations[2], 2) /\ Steps(Migrations[2], 19)
  BY <1>2, StepsV2
<1>23. Steps(Migrations[3], 3) /\ Steps(Migrations[3], 19)
  BY <1>3, StepsNothing DEF MigrateV3ToV4
<1>24. Steps(Migrations[4], 4) /\ Steps(Migrations[4], 19)
  BY <1>4, StepsV4
<1>26. Steps(Migrations[6], 6) /\ Steps(Migrations[6], 19)
  BY <1>6, StepsV6
<1>28. Steps(Migrations[8], 8) /\ Steps(Migrations[8], 19)
  BY <1>8, StepsV8
<1>29. Steps(Migrations[9], 9) /\ Steps(Migrations[9], 19)
  BY <1>9, StepsV9
<1>30. Steps(Migrations[10], 10) /\ Steps(Migrations[10], 19)
  BY <1>10, StepsV10
<1>31. Steps(Migrations[11], 11) /\ Steps(Migrations[11], 19)
  BY <1>11, StepsV11
<1>32. Steps(Migrations[12], 12) /\ Steps(Migrations[12], 19)
  BY <1>12, StepsV12
<1>33. Steps(Migrations[13], 13) /\ Steps(Migrations[13], 19)
  BY <1>13, StepsV13
<1>34. Steps(Migrations[14], 14) /\ Steps(Migrations[14], 19)
  BY <1>14, StepsV14
<1>35. Steps(Migrations[15], 15) /\ Steps(Migrations[15], 19)
  BY <1>15, StepsV15
<1>36. Steps(Migrations[16], 16) /\ Steps(Migrations[16], 19)
  BY <1>16, StepsV16
<1>37. Steps(Migrations[17], 17) /\ Steps(Migrations[17], 19)
  BY <1>17, StepsV17
<1>25. Steps(Migrations[5], 5)
  BY <1>5, StepsV5
<1>27. Steps(Migrations[7], 7)
  BY <1>7, StepsV7
<1>38. Steps(Migrations[18], 18)
  BY <1>18, StepsV18
<1> HIDE DEF Migrations
<1>40. \A n \in 1..18 : \/ n = 1 \/ n = 2 \/ n = 3 \/ n = 4 \/ n = 5 \/ n = 6 \/ n = 7 \/ n = 8
                       \/ n = 9 \/ n = 10 \/ n = 11 \/ n = 12 \/ n = 13 \/ n = 14
                       \/ n = 15 \/ n = 16 \/ n = 17 \/ n = 18
  OBVIOUS
<1> QED BY <1>40, <1>21, <1>22, <1>23, <1>24, <1>25, <1>26, <1>27, <1>28, <1>29, <1>30, <1>31, <1>32, <1>33, <1>34, <1>35, <1>36, <1>37, <1>38 DEF Remakes

LEMMA DueIs ==
    ASSUME NEW n \in 1..18, NEW f \in 1..18
    PROVE  Due(n, f) = IF n >= f THEN Migrations[n] ELSE <<>>
  BY DEF Due, CORE_VERSION

LEMMA StepsDue ==
    ASSUME NEW n \in 1..18, NEW f \in 1..18
    PROVE  Steps(Due(n, f), f) /\ (n \notin Remakes => Steps(Due(n, f), 19))
<1>1. CASE n >= f
  <2>1. n \in Nat /\ f \in Nat /\ f > 0 /\ f <= n
    BY <1>1
  <2> HIDE <1>1
  <2>2. Due(n, f) = Migrations[n]
    BY <1>1, DueIs
  <2>3. Steps(Migrations[n], f)
    BY <2>1, StepsMigration, StepsSooner
  <2> QED BY <2>2, <2>3, StepsMigration
<1>2. CASE ~(n >= f)
  <2>1. Due(n, f) = <<>>
    BY <1>2, DueIs
  <2> QED BY <2>1, StepsNothing
<1> QED BY <1>1, <1>2

LEMMA RunsDue ==
    ASSUME NEW f \in 1..18
    PROVE  Runs(DueUpTo8(f), {}, {}) /\ Runs(DueAfter8(f), {}, {})
<1> DEFINE O == IF f <= 5 THEN Idx("rules") ELSE {}
<1>0. Careful(O) /\ O \in SUBSET Idx("rules") /\ (O = {} \/ O = Idx("rules"))
      /\ (f > 7 => O = {}) /\ Careful({}) /\ {} \in SUBSET Idx("rules")
  BY CarefulSome
<1>1. Runs(Due(1, f), {}, {})
  <2>1. Steps(Due(1, f), 19)
    BY StepsDue DEF Remakes
  <2> HIDE DEF O
  <2> QED BY <1>0, <2>1, RunsQuiet
<1>2. Runs(Due(2, f), {}, {})
  <2>1. Steps(Due(2, f), 19)
    BY StepsDue DEF Remakes
  <2> HIDE DEF O
  <2> QED BY <1>0, <2>1, RunsQuiet
<1>3. Runs(Due(3, f), {}, {})
  <2>1. Steps(Due(3, f), 19)
    BY StepsDue DEF Remakes
  <2> HIDE DEF O
  <2> QED BY <1>0, <2>1, RunsQuiet
<1>4. Runs(Due(4, f), {}, {})
  <2>1. Steps(Due(4, f), 19)
    BY StepsDue DEF Remakes
  <2> HIDE DEF O
  <2> QED BY <1>0, <2>1, RunsQuiet
<1>6. Runs(Due(6, f), O, O)
  <2>1. Steps(Due(6, f), 19)
    BY StepsDue DEF Remakes
  <2> HIDE DEF O
  <2> QED BY <1>0, <2>1, RunsQuiet
<1>8. Runs(Due(8, f), {}, {})
  <2>1. Steps(Due(8, f), 19)
    BY StepsDue DEF Remakes
  <2> HIDE DEF O
  <2> QED BY <1>0, <2>1, RunsQuiet
<1>9. Runs(Due(9, f), {}, {})
  <2>1. Steps(Due(9, f), 19)
    BY StepsDue DEF Remakes
  <2> HIDE DEF O
  <2> QED BY <1>0, <2>1, RunsQuiet
<1>10. Runs(Due(10, f), {}, {})
  <2>1. Steps(Due(10, f), 19)
    BY StepsDue DEF Remakes
  <2> HIDE DEF O
  <2> QED BY <1>0, <2>1, RunsQuiet
<1>11. Runs(Due(11, f), {}, {})
  <2>1. Steps(Due(11, f), 19)
    BY StepsDue DEF Remakes
  <2> HIDE DEF O
  <2> QED BY <1>0, <2>1, RunsQuiet
<1>12. Runs(Due(12, f), {}, {})
  <2>1. Steps(Due(12, f), 19)
    BY StepsDue DEF Remakes
  <2> HIDE DEF O
  <2> QED BY <1>0, <2>1, RunsQuiet
<1>13. Runs(Due(13, f), {}, {})
  <2>1. Steps(Due(13, f), 19)
    BY StepsDue DEF Remakes
  <2> HIDE DEF O
  <2> QED BY <1>0, <2>1, RunsQuiet
<1>14. Runs(Due(14, f), {}, {})
  <2>1. Steps(Due(14, f), 19)
    BY StepsDue DEF Remakes
  <2> HIDE DEF O
  <2> QED BY <1>0, <2>1, RunsQuiet
<1>15. Runs(Due(15, f), {}, {})
  <2>1. Steps(Due(15, f), 19)
    BY StepsDue DEF Remakes
  <2> HIDE DEF O
  <2> QED BY <1>0, <2>1, RunsQuiet
<1>16. Runs(Due(16, f), {}, {})
  <2>1. Steps(Due(16, f), 19)
    BY StepsDue DEF Remakes
  <2> HIDE DEF O
  <2> QED BY <1>0, <2>1, RunsQuiet
<1>17. Runs(Due(17, f), {}, {})
  <2>1. Steps(Due(17, f), 19)
    BY StepsDue DEF Remakes
  <2> HIDE DEF O
  <2> QED BY <1>0, <2>1, RunsQuiet
<1>e. Runs(<<>>, {}, {})
  BY RunsNothing
<1>5. Runs(Due(5, f), {}, O)
  <2>1. Migrations[5] = MigrateV5ToV6
    BY DEF Migrations
  <2>2. Due(5, f) = IF 5 >= f THEN Migrations[5] ELSE <<>>
    BY DueIs
  <2>3. CASE f <= 5
    <3>1. Due(5, f) = MigrateV5ToV6 /\ O = Idx("rules")
      BY <2>1, <2>2, <2>3
    <3> QED BY <3>1, RunsV5
  <2>4. CASE ~(f <= 5)
    <3>1. Due(5, f) = <<>> /\ O = {}
      BY <2>2, <2>4
    <3> QED BY <1>e, <3>1
  <2> QED BY <2>3, <2>4
<1>7. Runs(Due(7, f), O, {})
  <2>1. Migrations[7] = MigrateV7ToV8
    BY DEF Migrations
  <2>2. Due(7, f) = IF 7 >= f THEN Migrations[7] ELSE <<>>
    BY DueIs
  <2>3. CASE f <= 7
    <3>1. Due(7, f) = MigrateV7ToV8
      BY <2>1, <2>2, <2>3
    <3> HIDE DEF O
    <3> QED BY <1>0, <3>1, RunsV7
  <2>4. CASE ~(f <= 7)
    <3>1. Due(7, f) = <<>> /\ O = {}
      BY <2>2, <2>4
    <3> QED BY <1>e, <3>1
  <2> QED BY <2>3, <2>4
<1>18. Runs(Due(18, f), {}, {})
  <2>1. Migrations[18] = MigrateV18ToV19
    BY DEF Migrations
  <2>2. Due(18, f) = IF 18 >= f THEN Migrations[18] ELSE <<>>
    BY DueIs
  <2>3. Due(18, f) = MigrateV18ToV19
    BY <2>1, <2>2
  <2> QED BY <2>3, RunsV18
<1> HIDE DEF O
<1>20. Runs(DueUpTo8(f), {}, {})
  BY <1>1, <1>2, <1>3, <1>4, <1>5, <1>6, <1>7, RunsConcat DEF DueUpTo8
<1>21. Runs(DueAfter8(f), {}, {})
  BY <1>8, <1>9, <1>10, <1>11, <1>12, <1>13, <1>14, <1>15, <1>16, <1>17, <1>18, RunsConcat DEF DueAfter8
<1> QED BY <1>20, <1>21

LEMMA StepsType ==
    ASSUME NEW L, NEW v, Steps(L, v)
    PROVE  L \in Seq(Statements) /\ Paired(L) /\ \A s \in Elems(L) : Legal(s, v)
  BY DEF Steps, Elems

LEMMA StepsMigrated ==
    ASSUME NEW f \in 0..18
    PROVE  /\ f > 0 => Steps(Migrated(f), f)
           /\ f = 0 => Steps(Migrated(f), 19)
           /\ Runs(Migrated(f), {}, {})
<1>1. CASE f = 0
  <2>1. Migrated(f) = <<>>
    BY <1>1 DEF Migrated
  <2> QED BY <1>1, <2>1, StepsNothing, RunsNothing
<1>2. CASE f # 0
  <2>1. f \in 1..18 /\ Migrated(f) = DueUpTo8(f) \o DueAfter8(f)
    BY <1>2 DEF Migrated
  <2>2. \A n \in 1..18 : Steps(Due(n, f), f)
    BY <2>1, StepsDue
  <2>3. /\ Steps(Due(1, f), f) /\ Steps(Due(2, f), f) /\ Steps(Due(3, f), f)
        /\ Steps(Due(4, f), f) /\ Steps(Due(5, f), f) /\ Steps(Due(6, f), f)
        /\ Steps(Due(7, f), f) /\ Steps(Due(8, f), f) /\ Steps(Due(9, f), f)
        /\ Steps(Due(10, f), f) /\ Steps(Due(11, f), f) /\ Steps(Due(12, f), f)
        /\ Steps(Due(13, f), f) /\ Steps(Due(14, f), f) /\ Steps(Due(15, f), f)
        /\ Steps(Due(16, f), f) /\ Steps(Due(17, f), f) /\ Steps(Due(18, f), f)
    BY <2>2
  <2>4. Steps(DueUpTo8(f), f)
    BY <2>3, StepsConcat DEF DueUpTo8
  <2>5. Steps(DueAfter8(f), f)
    BY <2>3, StepsConcat DEF DueAfter8
  <2>6. Steps(Migrated(f), f)
    BY <2>1, <2>4, <2>5, StepsConcat
  <2>7. Runs(Migrated(f), {}, {})
    BY <2>1, RunsDue, RunsConcat
  <2> QED BY <1>2, <2>6, <2>7
<1> QED BY <1>1, <1>2

\* They are the migrations that are due.
LEMMA MigratedIs ==
    ASSUME NEW f \in 1..18
    PROVE  \A s : s \in Elems(Migrated(f))
                    <=> \E n \in 1..18 : n >= f /\ s \in Elems(Migrations[n])
<1>1. \A m \in 1..18 : Steps(Due(m, f), f)
  BY StepsDue
<1>2. /\ Steps(Due(1, f), f) /\ Steps(Due(2, f), f) /\ Steps(Due(3, f), f)
      /\ Steps(Due(4, f), f) /\ Steps(Due(5, f), f) /\ Steps(Due(6, f), f)
      /\ Steps(Due(7, f), f) /\ Steps(Due(8, f), f) /\ Steps(Due(9, f), f)
      /\ Steps(Due(10, f), f) /\ Steps(Due(11, f), f) /\ Steps(Due(12, f), f)
      /\ Steps(Due(13, f), f) /\ Steps(Due(14, f), f) /\ Steps(Due(15, f), f)
      /\ Steps(Due(16, f), f) /\ Steps(Due(17, f), f) /\ Steps(Due(18, f), f)
  BY <1>1
<1>9. \A a, b : Steps(a, f) /\ Steps(b, f) =>
         Steps(a \o b, f) /\ Elems(a \o b) = Elems(a) \cup Elems(b)
  BY StepsType, StepsConcat, ElemsConcat
<1>3. /\ Steps(DueUpTo8(f), f)
      /\ Elems(DueUpTo8(f)) = Elems(Due(1, f)) \cup Elems(Due(2, f)) \cup Elems(Due(3, f))
            \cup Elems(Due(4, f)) \cup Elems(Due(5, f)) \cup Elems(Due(6, f))
            \cup Elems(Due(7, f))
  BY <1>2, <1>9 DEF DueUpTo8
<1>4. /\ Steps(DueAfter8(f), f)
      /\ Elems(DueAfter8(f)) = Elems(Due(8, f)) \cup Elems(Due(9, f)) \cup Elems(Due(10, f))
            \cup Elems(Due(11, f)) \cup Elems(Due(12, f)) \cup Elems(Due(13, f))
            \cup Elems(Due(14, f)) \cup Elems(Due(15, f)) \cup Elems(Due(16, f))
            \cup Elems(Due(17, f)) \cup Elems(Due(18, f))
  BY <1>2, <1>9 DEF DueAfter8
<1>5. Elems(Migrated(f)) = Elems(DueUpTo8(f)) \cup Elems(DueAfter8(f))
  <2>1. Migrated(f) = DueUpTo8(f) \o DueAfter8(f)
    BY DEF Migrated
  <2> QED BY <1>3, <1>4, <1>9, <2>1
<1>6. \A n \in 1..18 : \/ n = 1 \/ n = 2 \/ n = 3 \/ n = 4 \/ n = 5 \/ n = 6 \/ n = 7
                      \/ n = 8 \/ n = 9 \/ n = 10 \/ n = 11 \/ n = 12 \/ n = 13
                      \/ n = 14 \/ n = 15 \/ n = 16 \/ n = 17 \/ n = 18
  OBVIOUS
<1>7. ASSUME NEW n \in 1..18
      PROVE  Elems(Due(n, f)) = IF n >= f THEN Elems(Migrations[n]) ELSE {}
  <2>1. Elems(<<>>) = {}
    <3>1. 1..Len(<<>>) = {}
      OBVIOUS
    <3> QED BY <3>1, Zenon DEF Elems
  <2> QED BY <2>1, DueIs
<1>8. \A n \in 1..18 : Elems(Due(n, f)) \subseteq Elems(DueUpTo8(f)) \cup Elems(DueAfter8(f))
  BY <1>3, <1>4, <1>6
<1>10. ASSUME NEW s, s \in Elems(DueUpTo8(f)) \cup Elems(DueAfter8(f))
       PROVE  \E n \in 1..18 : s \in Elems(Due(n, f))
  BY <1>3, <1>4, <1>10
<1>11. ASSUME NEW s, s \in Elems(Migrated(f))
       PROVE  \E n \in 1..18 : n >= f /\ s \in Elems(Migrations[n])
  <2>1. PICK n \in 1..18 : s \in Elems(Due(n, f))
    BY <1>5, <1>10, <1>11
  <2> QED BY <1>7, <2>1
<1>12. ASSUME NEW s, NEW n \in 1..18, n >= f, s \in Elems(Migrations[n])
       PROVE  s \in Elems(Migrated(f))
  BY <1>5, <1>7, <1>8, <1>12
<1> QED BY <1>11, <1>12

LEMMA StepsCore ==
    /\ Steps(CoreScript, 19) /\ Len(CoreScript) \in Nat \ {0}
    /\ CoreScript[Len(CoreScript)].op = "read version"
    /\ \A t \in SqliteTables : Statement("create table", "script", t, "") \in Elems(CoreScript)
    /\ \A t \in Indexed : Elems(EnsureIndex(t)) \subseteq Elems(CoreScript)
    /\ \A s \in Elems(CoreScript) : \/ \E t \in SqliteTables : s \in Elems(CreateTable(t))
                                    \/ \E t \in Indexed : s \in Elems(EnsureIndex(t))
                                    \/ s = Statement("read version", "ddl", "", "")
<1> DEFINE S == CORE_SCHEMA \o ENTRIES_SCHEMA
           r == Statement("read version", "ddl", "", "")
<1>1. \A t \in SqliteTables : Steps(CreateTable(t), 19)
  BY StepsCreateTable DEF CreateTable
<1>2. \A t \in Indexed : Steps(EnsureIndex(t), 19)
  BY StepsEnsureIndex
<1>3. /\ Steps(CreateTable("knowledge"), 19) /\ Steps(CreateTable("sessions"), 19)
      /\ Steps(CreateTable("session_metrics"), 19) /\ Steps(CreateTable("rules"), 19)
      /\ Steps(CreateTable("rule_events"), 19) /\ Steps(CreateTable("rule_outcomes"), 19)
      /\ Steps(CreateTable("token_ledger"), 19) /\ Steps(CreateTable("relations"), 19)
      /\ Steps(CreateTable("snapshots"), 19) /\ Steps(CreateTable("entries"), 19)
      /\ Steps(EnsureIndex("knowledge"), 19) /\ Steps(EnsureIndex("rules"), 19)
      /\ Steps(EnsureIndex("entries"), 19)
  BY <1>1, <1>2, SqliteLiterals
<1>4. Steps(S, 19)
  BY <1>3, StepsConcat
     DEF CORE_SCHEMA, CoreTables, CoreIndexes, CoreRules, CoreLedgers, CoreGraph, ENTRIES_SCHEMA
<1>5. r \in Statements /\ r.op = "read version" /\ r.how = "ddl"
  BY DEF Statement, Statements, Ops, Hows, Tables, Names
<1>6. Legal(r, 19) /\ r.op # "add column"
  BY <1>5 DEF Legal, Columns, Ensures, Drops, Makes, OnTriggers
<1>7. Steps(<<r>>, 19)
  BY <1>5, <1>6, StepsOne
<1>8. CoreScript = S \o <<r>>
  BY DEF CoreScript
<1>9. \A a, b : Steps(a, 19) /\ Steps(b, 19) => Elems(a \o b) = Elems(a) \cup Elems(b)
  BY StepsType, ElemsConcat
<1>10. Elems(CoreScript) = Elems(CORE_SCHEMA) \cup Elems(ENTRIES_SCHEMA) \cup Elems(<<r>>)
  <2>1. Steps(CORE_SCHEMA, 19) /\ Steps(ENTRIES_SCHEMA, 19)
    BY <1>3, StepsConcat
       DEF CORE_SCHEMA, CoreTables, CoreIndexes, CoreRules, CoreLedgers, CoreGraph, ENTRIES_SCHEMA
  <2>2. Elems(S) = Elems(CORE_SCHEMA) \cup Elems(ENTRIES_SCHEMA)
    BY <1>9, <2>1
  <2> HIDE DEF S, r
  <2>3. Elems(CoreScript) = Elems(S) \cup Elems(<<r>>)
    BY <1>4, <1>7, <1>8, <1>9
  <2> QED BY <2>2, <2>3
<1>11. /\ Steps(CoreTables, 19) /\ Steps(CoreIndexes, 19) /\ Steps(CoreRules, 19)
       /\ Steps(CoreLedgers, 19) /\ Steps(CoreGraph, 19)
  BY <1>3, StepsConcat DEF CoreTables, CoreIndexes, CoreRules, CoreLedgers, CoreGraph
<1>12. Elems(CORE_SCHEMA) = Elems(CoreTables) \cup Elems(CoreIndexes) \cup Elems(CoreRules)
          \cup Elems(CoreLedgers) \cup Elems(CoreGraph)
  BY <1>9, <1>11, StepsConcat DEF CORE_SCHEMA
<1>13. /\ Elems(CoreTables) = Elems(CreateTable("knowledge")) \cup Elems(CreateTable("sessions"))
             \cup Elems(CreateTable("session_metrics"))
       /\ CoreIndexes = EnsureIndex("knowledge")
       /\ Elems(CoreRules) = Elems(CreateTable("rules")) \cup Elems(EnsureIndex("rules"))
       /\ Elems(CoreLedgers) = Elems(CreateTable("rule_events"))
             \cup Elems(CreateTable("rule_outcomes")) \cup Elems(CreateTable("token_ledger"))
       /\ Elems(CoreGraph) = Elems(CreateTable("relations")) \cup Elems(CreateTable("snapshots"))
       /\ Elems(ENTRIES_SCHEMA) = Elems(CreateTable("entries")) \cup Elems(EnsureIndex("entries"))
  BY <1>3, <1>9, StepsConcat
     DEF CoreTables, CoreIndexes, CoreRules, CoreLedgers, CoreGraph, ENTRIES_SCHEMA
<1>14. ASSUME NEW t \in SqliteTables PROVE Elems(CreateTable(t)) \subseteq Elems(CoreScript)
  BY <1>10, <1>12, <1>13 DEF SqliteTables
<1>15. ASSUME NEW t \in Indexed PROVE Elems(EnsureIndex(t)) \subseteq Elems(CoreScript)
  BY <1>10, <1>12, <1>13 DEF Indexed
<1>16. ASSUME NEW t \in SqliteTables
       PROVE  Statement("create table", "script", t, "") \in Elems(CreateTable(t))
  <2>1. Statement("create table", "script", t, "") \in Statements
    BY DEF Statement, Statements, Ops, Hows, Tables, Names
  <2> QED BY <2>1, ElemsOne DEF CreateTable
<1>17. Len(CoreScript) \in Nat \ {0} /\ CoreScript[Len(CoreScript)] = r
  <2>1. S \in Seq(Statements)
    BY <1>4, StepsType
  <2>2. ASSUME NEW s \in Statements, NEW A \in Seq(Statements)
        PROVE  Len(A \o <<s>>) \in Nat \ {0} /\ (A \o <<s>>)[Len(A \o <<s>>)] = s
    OBVIOUS
  <2> HIDE DEF S, r
  <2> QED BY <1>5, <1>8, <2>1, <2>2
<1>18. Steps(CoreScript, 19)
  BY <1>4, <1>7, <1>8, StepsConcat
<1>19. \A t \in SqliteTables : Statement("create table", "script", t, "") \in Elems(CoreScript)
  BY <1>14, <1>16
<1>20. ASSUME NEW s \in Elems(CoreScript)
       PROVE  \/ \E t \in SqliteTables : s \in Elems(CreateTable(t))
              \/ \E t \in Indexed : s \in Elems(EnsureIndex(t))
              \/ s = r
  <2>1. Elems(<<r>>) = {r}
    BY <1>5, ElemsOne
  <2> HIDE DEF r
  <2> QED BY <1>10, <1>12, <1>13, <2>1, SqliteLiterals
<1> QED BY <1>5, <1>15, <1>17, <1>18, <1>19, <1>20

LEMMA BootStatements ==
    /\ End \in Statements /\ Fill \in Statements /\ Commit = <<End>>
    /\ \A f : StampOf(f) \in Statements
    /\ Commit \in Seq(Statements)
  BY DEF End, Fill, StampOf, Commit, Statement, Statements, Ops, Hows, Tables,
         SqliteTables, Names

LEMMA StampFields ==
    ASSUME NEW f
    PROVE  /\ StampOf(f).op = (IF f = 0 THEN "insert version" ELSE "update version")
           /\ StampOf(f).how = "dml" /\ StampOf(f).table = ""
  BY DEF StampOf, Statement

LEMMA FillFields ==
    Fill.op = "fill" /\ Fill.how = "dml" /\ Fill.table = "entries"
  BY DEF Fill, Statement

LEMMA EndFields ==
    End.op = "commit" /\ End.how = "ddl" /\ End.table = ""
  BY DEF End, Statement

LEMMA BootTypes ==
    ASSUME NEW f \in 0..18
    PROVE  /\ CoreScript \in Seq(Statements) /\ Migrated(f) \in Seq(Statements)
           /\ Before(f) \in Seq(Statements) /\ Rerun \in Seq(Statements)
           /\ <<StampOf(f)>> \in Seq(Statements)
<1>1. CoreScript \in Seq(Statements)
  BY StepsCore, StepsType
<1>2. Migrated(f) \in Seq(Statements)
  <2>1. f > 0 \/ f = 0
    OBVIOUS
  <2>2. Steps(Migrated(f), f) \/ Steps(Migrated(f), 19)
    BY <2>1, StepsMigrated
  <2> QED BY <2>2, StepsType
<1>3. <<Fill>> \in Seq(Statements)
  BY BootStatements
<1>4. CoreScript \o <<Fill>> \in Seq(Statements)
  BY <1>1, <1>3, ConcatProperties
<1>5. Rerun \in Seq(Statements)
  BY <1>4, BootStatements, ConcatProperties DEF Rerun
<1>6. Before(f) \in Seq(Statements)
  BY <1>1, <1>2, ConcatProperties DEF Before
<1>7. <<StampOf(f)>> \in Seq(Statements)
  BY BootStatements
<1> QED BY <1>1, <1>2, <1>5, <1>6, <1>7

LEMMA UpgradeIs ==
    ASSUME NEW f \in 0..18
    PROVE  Upgrade(f) = (Migrated(f) \o <<StampOf(f)>>) \o Commit
<1>1. f \notin {Unread, CORE_VERSION}
  BY DEF Unread, CORE_VERSION
<1>2. CASE f = 0
  <2>1. Upgrade(f) = <<Statement("insert version", "dml", "", "")>> \o Commit
    BY <1>1, <1>2 DEF Upgrade
  <2>2. Migrated(f) = <<>> /\ StampOf(f) = Statement("insert version", "dml", "", "")
    BY <1>2 DEF Migrated, StampOf
  <2>3. <<>> \o <<StampOf(f)>> = <<StampOf(f)>>
    BY BootTypes, ConcatEmptySeq
  <2> QED BY <2>1, <2>2, <2>3
<1>3. CASE f # 0
  <2>1. Upgrade(f) = ((DueUpTo8(f) \o DueAfter8(f))
                          \o <<Statement("update version", "dml", "", "")>>) \o Commit
    BY <1>1, <1>3 DEF Upgrade
  <2>2. /\ Migrated(f) = DueUpTo8(f) \o DueAfter8(f)
        /\ StampOf(f) = Statement("update version", "dml", "", "")
    BY <1>3 DEF Migrated, StampOf
  <2> QED BY <2>1, <2>2
<1> QED BY <1>2, <1>3

LEMMA BootIs ==
    /\ SqliteBoot[Unread] = CoreScript
    /\ SqliteBoot[19] = CoreScript \o Rerun
    /\ \A f \in 0..18 : SqliteBoot[f] =
          ((Before(f) \o <<StampOf(f)>>) \o Commit) \o Rerun
<1>0. /\ CoreScript \in Seq(Statements) /\ Rerun \in Seq(Statements)
      /\ 0 \in 0..18 /\ 19 # Unread
  BY BootTypes DEF Unread
<1>1. ASSUME NEW f \in {Unread} \cup 0..19
      PROVE  SqliteBoot[f] = (CoreScript \o Upgrade(f))
                \o (IF f = Unread THEN <<>> ELSE Rerun)
  BY <1>1 DEF SqliteBoot, CORE_VERSION, Rerun, Fill
<1>2. CoreScript \o <<>> = CoreScript
  BY <1>0, ConcatEmptySeq
<1>3. SqliteBoot[Unread] = CoreScript
  <2>1. Upgrade(Unread) = <<>>
    BY DEF Upgrade, Unread, CORE_VERSION
  <2> QED BY <1>1, <1>2, <2>1
<1>4. SqliteBoot[19] = CoreScript \o Rerun
  <2>1. Upgrade(19) = <<>>
    BY DEF Upgrade, CORE_VERSION
  <2>2. 19 \in {Unread} \cup 0..19
    OBVIOUS
  <2> QED BY <1>0, <1>1, <1>2, <2>1, <2>2
<1>5. ASSUME NEW f \in 0..18
      PROVE  SqliteBoot[f] = ((Before(f) \o <<StampOf(f)>>) \o Commit) \o Rerun
  <2> DEFINE C == CoreScript
             X == Migrated(f)
             U == <<StampOf(f)>>
  <2>1. /\ C \in Seq(Statements) /\ X \in Seq(Statements) /\ U \in Seq(Statements)
        /\ Commit \in Seq(Statements)
    BY BootTypes, BootStatements
  <2>2. Upgrade(f) = (X \o U) \o Commit
    BY UpgradeIs
  <2>3. f \in {Unread} \cup 0..19 /\ f # Unread
    BY DEF Unread
  <2>4. SqliteBoot[f] = (C \o Upgrade(f)) \o Rerun
    BY <1>1, <2>3
  <2>5. X \o U \in Seq(Statements)
    BY <2>1, ConcatProperties
  <2>6. C \o ((X \o U) \o Commit) = (C \o (X \o U)) \o Commit
    BY <2>1, <2>5, ConcatAssociative
  <2>7. C \o (X \o U) = (C \o X) \o U
    BY <2>1, ConcatAssociative
  <2> QED BY <2>2, <2>4, <2>6, <2>7 DEF Before
<1> QED BY <1>3, <1>4, <1>5

LEMMA BootRuns ==
    ASSUME NEW f \in {Unread} \cup 0..19
    PROVE  Runs(SqliteBoot[f], {}, {})
<1>1. Runs(CoreScript, {}, {})
  BY StepsCore, CarefulSome, RunsQuiet
<1>2. Runs(Commit, {Tx}, {})
  <2>1. {Tx} \ {Tx} = {}
    OBVIOUS
  <2>2. Careful({Tx} \ {Tx})
    BY <2>1, CarefulSome
  <2>4. Careful({Tx}) /\ {Tx} \in SUBSET Aspects
    BY AspectsOf DEF Careful
  <2>3. Runs(Commit, {Tx}, {Tx} \ {Tx})
    BY <2>2, <2>4, RunsCommit
  <2> QED BY <2>1, <2>3
<1>3. Runs(<<Fill>>, {}, {Tx})
  BY BootStatements, FillFields, RunsStamp
<1>4. Runs(Rerun, {}, {})
  BY <1>1, <1>2, <1>3, RunsConcat DEF Rerun
<1>5. CASE f = Unread
  BY <1>1, <1>5, BootIs
<1>6. CASE f = 19
  BY <1>1, <1>4, <1>6, BootIs, RunsConcat
<1>7. CASE f \in 0..18
  <2>1. StampOf(f).op = "insert version" \/ StampOf(f).op = "update version"
    BY StampFields
  <2>2. Runs(<<StampOf(f)>>, {}, {Tx})
    BY <2>1, BootStatements, StampFields, RunsStamp
  <2>3. Runs(Before(f), {}, {})
    BY <1>1, <1>7, StepsMigrated, RunsConcat DEF Before
  <2>4. Runs((Before(f) \o <<StampOf(f)>>) \o Commit, {}, {})
    BY <1>2, <2>2, <2>3, RunsConcat
  <2> QED BY <1>4, <1>7, <2>4, BootIs, RunsConcat
<1>8. f = Unread \/ f = 19 \/ f \in 0..18
  OBVIOUS
<1> QED BY <1>5, <1>6, <1>7, <1>8

----------------------------------------------------------------------------
(* Where the statements of a boot stand.                                   *)

LEMMA ConcatAt ==
    ASSUME NEW L \in Seq(Statements), NEW M \in Seq(Statements)
    PROVE  /\ L \o M \in Seq(Statements) /\ Len(L \o M) = Len(L) + Len(M)
           /\ Len(L) \in Nat /\ Len(M) \in Nat
           /\ \A k \in 1..Len(L) : (L \o M)[k] = L[k]
           /\ \A k \in (Len(L) + 1)..(Len(L) + Len(M)) :
                 k - Len(L) \in 1..Len(M) /\ (L \o M)[k] = M[k - Len(L)]
  OBVIOUS

LEMMA ConcatOne ==
    ASSUME NEW L \in Seq(Statements), NEW s \in Statements
    PROVE  /\ L \o <<s>> \in Seq(Statements) /\ Len(L \o <<s>>) = Len(L) + 1
           /\ Len(L) \in Nat /\ (L \o <<s>>)[Len(L) + 1] = s
           /\ \A k \in 1..Len(L) : (L \o <<s>>)[k] = L[k]
  OBVIOUS

LEMMA ConcatLeft ==
    ASSUME NEW L \in Seq(Statements), NEW M \in Seq(Statements)
    PROVE  /\ Len(L \o M) >= Len(L) /\ Len(L \o M) \in Nat /\ L \o M \in Seq(Statements)
           /\ \A k \in 1..Len(L) : (L \o M)[k] = L[k]
  OBVIOUS

LEMMA BootPrefix ==
    ASSUME NEW f \in {Unread} \cup 0..19
    PROVE  /\ SqliteBoot[f] \in Seq(Statements)
           /\ Len(CoreScript) \in Nat \ {0} /\ Len(SqliteBoot[f]) \in Nat
           /\ Len(SqliteBoot[f]) >= Len(CoreScript)
           /\ \A k \in 1..Len(CoreScript) : SqliteBoot[f][k] = CoreScript[k]
           /\ Len(SqliteBoot[Unread]) = Len(CoreScript)
<1>0. /\ CoreScript \in Seq(Statements) /\ Rerun \in Seq(Statements)
      /\ Len(CoreScript) \in Nat \ {0}
  <2>1. 0 \in 0..18
    OBVIOUS
  <2> QED BY <2>1, BootTypes, StepsCore
<1>1. CASE f = Unread
  BY <1>0, <1>1, BootIs
<1>2. CASE f = 19
  <2>1. SqliteBoot[f] = CoreScript \o Rerun
    BY <1>2, BootIs
  <2>2. /\ Len(CoreScript \o Rerun) >= Len(CoreScript) /\ Len(CoreScript \o Rerun) \in Nat
        /\ CoreScript \o Rerun \in Seq(Statements)
        /\ \A k \in 1..Len(CoreScript) : (CoreScript \o Rerun)[k] = CoreScript[k]
    BY <1>0, ConcatLeft
  <2> QED BY <1>0, <2>1, <2>2, BootIs
<1>3. CASE f \in 0..18
  <2> DEFINE A == Before(f) \o <<StampOf(f)>>
             D == A \o Commit
  <2>1. Before(f) \in Seq(Statements) /\ <<StampOf(f)>> \in Seq(Statements)
        /\ Commit \in Seq(Statements) /\ Migrated(f) \in Seq(Statements)
    BY <1>3, BootTypes, BootStatements
  <2>2. /\ Len(Before(f)) >= Len(CoreScript) /\ Len(Before(f)) \in Nat
        /\ \A k \in 1..Len(CoreScript) : Before(f)[k] = CoreScript[k]
    BY <1>0, <2>1, ConcatLeft DEF Before
  <2>3. /\ Len(A) >= Len(Before(f)) /\ Len(A) \in Nat /\ A \in Seq(Statements)
        /\ \A k \in 1..Len(Before(f)) : A[k] = Before(f)[k]
    BY <2>1, ConcatLeft
  <2> HIDE DEF A
  <2>4. /\ Len(D) >= Len(A) /\ Len(D) \in Nat /\ D \in Seq(Statements)
        /\ \A k \in 1..Len(A) : D[k] = A[k]
    BY <2>1, <2>3, ConcatLeft
  <2> HIDE DEF D
  <2>5. SqliteBoot[f] = D \o Rerun
    BY <1>3, BootIs DEF A, D
  <2>6. /\ Len(SqliteBoot[f]) >= Len(D) /\ Len(SqliteBoot[f]) \in Nat
        /\ SqliteBoot[f] \in Seq(Statements)
        /\ \A k \in 1..Len(D) : SqliteBoot[f][k] = D[k]
    BY <1>0, <2>4, <2>5, ConcatLeft
  <2>7. \A k \in 1..Len(CoreScript) :
           k \in 1..Len(D) /\ k \in 1..Len(A) /\ k \in 1..Len(Before(f))
    BY <1>0, <2>2, <2>3, <2>4
  <2>8. Len(SqliteBoot[f]) >= Len(CoreScript)
    BY <1>0, <2>2, <2>3, <2>4, <2>6
  <2>9. \A k \in 1..Len(CoreScript) : SqliteBoot[f][k] = CoreScript[k]
    BY <2>2, <2>3, <2>4, <2>6, <2>7
  <2> QED BY <1>0, <2>6, <2>8, <2>9, BootIs
<1>8. f = Unread \/ f = 19 \/ f \in 0..18
  OBVIOUS
<1> QED BY <1>1, <1>2, <1>3, <1>8

LEMMA RerunAt ==
    /\ Rerun \in Seq(Statements) /\ Len(Rerun) \in Nat \ {0}
    /\ Rerun[Len(Rerun)] = End
    /\ \A k \in 1..Len(Rerun) : Rerun[k] \in Elems(CoreScript) \cup {Fill, End}
    /\ Paired(Rerun)
<1>1. CoreScript \in Seq(Statements) /\ <<Fill>> \in Seq(Statements) /\ <<End>> \in Seq(Statements)
  <2>1. CoreScript \in Seq(Statements)
    BY StepsCore, StepsType
  <2> QED BY <2>1, BootStatements, OneStatement
<1>2. Rerun = (CoreScript \o <<Fill>>) \o <<End>>
  BY BootStatements DEF Rerun
<1>3. Elems(Rerun) = Elems(CoreScript) \cup {Fill} \cup {End}
  <2>1. Elems(CoreScript \o <<Fill>>) = Elems(CoreScript) \cup Elems(<<Fill>>)
    BY <1>1, ElemsConcat
  <2>2. CoreScript \o <<Fill>> \in Seq(Statements)
    BY <1>1, ConcatProperties
  <2>3. Elems(Rerun) = Elems(CoreScript \o <<Fill>>) \cup Elems(<<End>>)
    BY <1>1, <1>2, <2>2, ElemsConcat
  <2> QED BY <2>1, <2>3, ElemsOne, BootStatements
<1>4. ASSUME NEW s \in Statements, NEW A \in Seq(Statements)
      PROVE  /\ A \o <<s>> \in Seq(Statements)
             /\ Len(A \o <<s>>) \in Nat \ {0} /\ (A \o <<s>>)[Len(A \o <<s>>)] = s
  OBVIOUS
<1>5. CoreScript \o <<Fill>> \in Seq(Statements)
  BY <1>1, ConcatProperties
<1>6. Rerun \in Seq(Statements) /\ Len(Rerun) \in Nat \ {0} /\ Rerun[Len(Rerun)] = End
  BY <1>2, <1>4, <1>5, BootStatements
<1>7. \A k \in 1..Len(Rerun) : Rerun[k] \in Elems(CoreScript) \cup {Fill, End}
  BY <1>3 DEF Elems
<1>8. Paired(<<Fill>>) /\ Paired(<<End>>)
  <2>1. ASSUME NEW s \in Statements, s.op # "add column"
        PROVE  Paired(<<s>>)
    BY <2>1, OneStatement DEF Paired
  <2> QED BY <2>1, BootStatements, FillFields, EndFields
<1>9. Paired(CoreScript)
  BY StepsCore, StepsType
<1>10. Paired(CoreScript \o <<Fill>>)
  BY <1>1, <1>8, <1>9, PairedConcat
<1>11. Paired(Rerun)
  BY <1>1, <1>2, <1>5, <1>8, <1>10, PairedConcat
<1> QED BY <1>6, <1>7, <1>11

\* The parts of a boot on an older database.
LEMMA BootParts ==
    ASSUME NEW f \in 0..18
    PROVE  /\ Past(f) = Len(Before(f)) + 2 /\ Len(Before(f)) \in Nat
           /\ Len(Before(f)) >= Len(CoreScript)
           /\ Len(SqliteBoot[f]) = Past(f) + Len(Rerun)
           /\ \A k \in 1..Len(Before(f)) : SqliteBoot[f][k] = Before(f)[k]
           /\ SqliteBoot[f][Len(Before(f)) + 1] = StampOf(f)
           /\ SqliteBoot[f][Len(Before(f)) + 2] = End
           /\ \A k \in (Past(f) + 1)..Len(SqliteBoot[f]) :
                 k - Past(f) \in 1..Len(Rerun) /\ SqliteBoot[f][k] = Rerun[k - Past(f)]
           /\ Paired(SqliteBoot[f])
<1> DEFINE C == CoreScript
           X == Migrated(f)
           P == Before(f)
           U == <<StampOf(f)>>
           A == P \o U
           D == A \o Commit
           n == Len(P)
<1>1. /\ C \in Seq(Statements) /\ X \in Seq(Statements) /\ P \in Seq(Statements)
      /\ U \in Seq(Statements) /\ Commit \in Seq(Statements) /\ Rerun \in Seq(Statements)
  BY BootTypes, BootStatements
<1>2. /\ Len(U) = 1 /\ U[1] = StampOf(f)
      /\ Len(Commit) = 1 /\ Commit[1] = End
  <2>1. Commit = <<End>>
    BY BootStatements
  <2> QED BY <2>1
<1>3. P = C \o X /\ Len(P) = Len(C) + Len(X) /\ Len(C) \in Nat /\ Len(X) \in Nat
  BY <1>1, ConcatAt DEF Before
<1>4. Len(Upgrade(f)) = Len(X) + 2
  <2>1. Upgrade(f) = (X \o U) \o Commit
    BY UpgradeIs
  <2> HIDE DEF X, U
  <2>2. X \o U \in Seq(Statements) /\ Len(X \o U) = Len(X) + Len(U)
    BY <1>1, ConcatProperties
  <2>3. Len((X \o U) \o Commit) = Len(X \o U) + Len(Commit)
    BY <1>1, <2>2, ConcatProperties
  <2> QED BY <1>2, <1>3, <2>1, <2>2, <2>3
<1>5. Past(f) = n + 2 /\ n \in Nat
  BY <1>3, <1>4 DEF Past
<1>6. SqliteBoot[f] = D \o Rerun
  BY BootIs
<1>7. Paired(D \o Rerun)
  <2>1. ASSUME NEW s \in Statements, s.op # "add column"
        PROVE  Paired(<<s>>)
    BY <2>1, OneStatement DEF Paired
  <2>2. Paired(U)
    <3>1. StampOf(f).op # "add column"
      BY StampFields
    <3> QED BY <2>1, <3>1, BootStatements
  <2>3. Paired(Commit)
    BY <2>1, BootStatements, EndFields
  <2>4. Paired(C) /\ Paired(X)
    <3>1. f > 0 \/ f = 0
      OBVIOUS
    <3> QED BY <3>1, StepsCore, StepsMigrated, StepsType
  <2>5. Paired(P)
    BY <1>1, <2>4, PairedConcat DEF Before
  <2> HIDE DEF P, U
  <2>6. Paired(A) /\ A \in Seq(Statements)
    BY <1>1, <2>2, <2>5, PairedConcat, ConcatAt
  <2> HIDE DEF A
  <2>7. Paired(D) /\ D \in Seq(Statements)
    BY <1>1, <2>3, <2>6, PairedConcat, ConcatAt
  <2> HIDE DEF D
  <2> QED BY <1>1, <2>7, RerunAt, PairedConcat
<1> HIDE DEF C, X, P, U
<1>8. /\ A \in Seq(Statements) /\ Len(A) = n + 1
      /\ (\A k \in 1..n : A[k] = P[k]) /\ A[n + 1] = StampOf(f)
  BY <1>1, BootStatements, ConcatOne DEF U
<1> HIDE DEF A
<1>9. /\ D \in Seq(Statements) /\ Len(D) = n + 2
      /\ (\A k \in 1..(n + 1) : D[k] = A[k]) /\ D[n + 2] = End
  <2>1. /\ D \in Seq(Statements) /\ Len(D) = Len(A) + 1
        /\ (\A k \in 1..Len(A) : D[k] = A[k]) /\ D[Len(A) + 1] = End
    BY <1>8, BootStatements, ConcatOne
  <2>2. (n + 1) + 1 = n + 2
    BY <1>5
  <2> HIDE DEF n
  <2> QED BY <1>8, <2>1, <2>2
<1> HIDE DEF D
<1>10. \A k \in 1..n : D[k] = P[k]
  <2>1. \A k \in 1..n : k \in 1..(n + 1)
    BY <1>5
  <2> HIDE DEF n
  <2> QED BY <1>8, <1>9, <2>1
<1>11. D[n + 1] = StampOf(f)
  <2>1. n + 1 \in 1..(n + 1)
    BY <1>5
  <2> HIDE DEF n
  <2> QED BY <1>8, <1>9, <2>1
<1>12. /\ Len(D \o Rerun) = (n + 2) + Len(Rerun) /\ Len(Rerun) \in Nat
       /\ (\A k \in 1..(n + 2) : (D \o Rerun)[k] = D[k])
       /\ \A k \in ((n + 2) + 1)..((n + 2) + Len(Rerun)) :
             k - (n + 2) \in 1..Len(Rerun) /\ (D \o Rerun)[k] = Rerun[k - (n + 2)]
  <2>1. /\ Len(D \o Rerun) = Len(D) + Len(Rerun) /\ Len(Rerun) \in Nat
        /\ (\A k \in 1..Len(D) : (D \o Rerun)[k] = D[k])
        /\ \A k \in (Len(D) + 1)..(Len(D) + Len(Rerun)) :
              k - Len(D) \in 1..Len(Rerun) /\ (D \o Rerun)[k] = Rerun[k - Len(D)]
    <3>1. D \in Seq(Statements) /\ Rerun \in Seq(Statements)
      BY <1>1, <1>9
    <3> QED BY <3>1, ConcatAt
  <2>2. Len(D) = n + 2
    BY <1>9
  <2> HIDE DEF n
  <2> QED BY <2>1, <2>2
<1>13. (\A k \in 1..n : k \in 1..(n + 2)) /\ n + 1 \in 1..(n + 2) /\ n + 2 \in 1..(n + 2)
  BY <1>5
<1> HIDE DEF n
<1>14. /\ \A k \in 1..n : SqliteBoot[f][k] = P[k]
       /\ SqliteBoot[f][n + 1] = StampOf(f) /\ SqliteBoot[f][n + 2] = End
  BY <1>6, <1>9, <1>10, <1>11, <1>12, <1>13
<1>15. Len(P) >= Len(C)
  BY <1>3
<1>16. /\ Len(SqliteBoot[f]) = Past(f) + Len(Rerun)
       /\ \A k \in (Past(f) + 1)..Len(SqliteBoot[f]) :
             k - Past(f) \in 1..Len(Rerun) /\ SqliteBoot[f][k] = Rerun[k - Past(f)]
  BY <1>5, <1>6, <1>12
<1> QED BY <1>5, <1>6, <1>7, <1>14, <1>15, <1>16 DEF C, P, n

LEMMA LegalEnd == Legal(End, 19)
  BY EndFields DEF Legal, Columns, Ensures, Drops, Makes, OnTriggers

LEMMA BootLast ==
    ASSUME NEW f \in 0..19
    PROVE  /\ Len(SqliteBoot[f]) > Past(f) /\ Past(f) \in Nat /\ Len(SqliteBoot[f]) \in Nat
           /\ Past(f) >= Len(CoreScript) /\ (f = 19 => Past(f) = Len(CoreScript))
           /\ SqliteBoot[f][Len(SqliteBoot[f])] = End
           /\ \A k \in (Past(f) + 1)..Len(SqliteBoot[f]) :
                 k - Past(f) \in 1..Len(Rerun) /\ SqliteBoot[f][k] = Rerun[k - Past(f)]
<1>1. /\ Rerun \in Seq(Statements) /\ Len(Rerun) \in Nat \ {0} /\ Rerun[Len(Rerun)] = End
      /\ CoreScript \in Seq(Statements) /\ Len(CoreScript) \in Nat \ {0}
  BY RerunAt, StepsCore, StepsType
<1>2. /\ Past(f) \in Nat /\ Past(f) >= Len(CoreScript)
      /\ Len(SqliteBoot[f]) = Past(f) + Len(Rerun)
      /\ (f = 19 => Past(f) = Len(CoreScript))
      /\ \A k \in (Past(f) + 1)..Len(SqliteBoot[f]) :
            k - Past(f) \in 1..Len(Rerun) /\ SqliteBoot[f][k] = Rerun[k - Past(f)]
  <2>1. CASE f = 19
    <3>1. Upgrade(19) = <<>>
      BY DEF Upgrade, CORE_VERSION
    <3>2. Past(f) = Len(CoreScript)
      <4>1. Len(<<>>) = 0
        OBVIOUS
      <4> QED BY <1>1, <2>1, <3>1, <4>1 DEF Past
    <3>3. SqliteBoot[f] = CoreScript \o Rerun
      BY <2>1, BootIs
    <3>4. /\ Len(CoreScript \o Rerun) = Len(CoreScript) + Len(Rerun)
          /\ \A k \in (Len(CoreScript) + 1)..(Len(CoreScript) + Len(Rerun)) :
                /\ k - Len(CoreScript) \in 1..Len(Rerun)
                /\ (CoreScript \o Rerun)[k] = Rerun[k - Len(CoreScript)]
      BY <1>1, ConcatAt
    <3> QED BY <1>1, <3>2, <3>3, <3>4
  <2>2. CASE f # 19
    <3>1. f \in 0..18
      BY <2>2
    <3>2. /\ Past(f) = Len(Before(f)) + 2 /\ Len(Before(f)) \in Nat
          /\ Len(Before(f)) >= Len(CoreScript)
          /\ Len(SqliteBoot[f]) = Past(f) + Len(Rerun)
          /\ \A k \in (Past(f) + 1)..Len(SqliteBoot[f]) :
                k - Past(f) \in 1..Len(Rerun) /\ SqliteBoot[f][k] = Rerun[k - Past(f)]
      BY <3>1, BootParts
    <3> QED BY <1>1, <2>2, <3>2
  <2> QED BY <2>1, <2>2
<1> DEFINE n == Len(SqliteBoot[f])
<1>3. n > Past(f) /\ n \in Nat /\ n \in (Past(f) + 1)..n /\ n - Past(f) = Len(Rerun)
  BY <1>1, <1>2
<1>4. SqliteBoot[f][n] = Rerun[n - Past(f)]
  BY <1>2, <1>3
<1> QED BY <1>1, <1>2, <1>3, <1>4

LEMMA CoreLegal ==
    /\ \A s \in Elems(CoreScript) : Legal(s, 19)
    /\ \A k \in 1..Len(CoreScript) : Legal(CoreScript[k], 19)
  BY StepsCore DEF Steps, Elems

\* What stands at a place of a boot.
LEMMA BootAt ==
    ASSUME NEW f \in {Unread} \cup 0..19, NEW k \in 1..Len(SqliteBoot[f])
    PROVE  \/ SqliteBoot[f][k] \in Elems(CoreScript) \cup {End}
           \/ /\ f \in 1..18 /\ k > Len(CoreScript) /\ k < Past(f) - 1
              /\ SqliteBoot[f][k] \in Elems(Migrated(f))
           \/ f \in 0..18 /\ k = Past(f) - 1 /\ SqliteBoot[f][k] = StampOf(f)
           \/ f \in 0..19 /\ k > Past(f) /\ SqliteBoot[f][k] = Fill
<1> DEFINE B == SqliteBoot[f]
<1>0. /\ Len(B) \in Nat /\ k \in Nat /\ Len(CoreScript) \in Nat
      /\ Len(SqliteBoot[Unread]) = Len(CoreScript)
  <2>1. Len(B) \in Nat /\ Len(CoreScript) \in Nat \ {0} /\ Len(SqliteBoot[Unread]) = Len(CoreScript)
    BY BootPrefix
  <2> HIDE DEF B
  <2>2. k \in 1..Len(B)
    BY DEF B
  <2> QED BY <2>1, <2>2
<1>1. CASE k \in 1..Len(CoreScript)
  <2>1. B[k] = CoreScript[k]
    BY <1>1, BootPrefix
  <2> QED BY <1>1, <2>1 DEF Elems
<1>2. CASE k \notin 1..Len(CoreScript) /\ f = Unread
  BY <1>0, <1>2
<1>3. CASE f \in 0..19 /\ k > Past(f)
  <2>1. Past(f) \in Nat
    BY <1>3, BootLast
  <2>2. k \in (Past(f) + 1)..Len(B)
    BY <1>0, <1>3, <2>1
  <2>3. k - Past(f) \in 1..Len(Rerun) /\ B[k] = Rerun[k - Past(f)]
    BY <1>3, <2>2, BootLast
  <2>4. B[k] \in Elems(CoreScript) \cup {Fill, End}
    BY <2>3, RerunAt
  <2>5. CASE B[k] = Fill
    BY <1>3, <2>5
  <2>6. CASE B[k] # Fill
    BY <2>4, <2>6
  <2> QED BY <2>5, <2>6
<1>4. CASE f \in 0..19 /\ k <= Past(f) /\ k > Len(CoreScript)
  <2>7. f \in 0..19 /\ Past(f) \in Nat /\ (f = 19 => Past(f) = Len(CoreScript))
    BY <1>4, BootLast
  <2>8. f # 19
    BY <1>0, <1>4, <2>7
  <2>1. f \in 0..18 /\ Past(f) \in Nat
    BY <2>7, <2>8
  <2>2. /\ Past(f) = Len(Before(f)) + 2 /\ Len(Before(f)) \in Nat
        /\ \A j \in 1..Len(Before(f)) : B[j] = Before(f)[j]
        /\ B[Len(Before(f)) + 1] = StampOf(f) /\ B[Len(Before(f)) + 2] = End
    BY <2>1, BootParts
  <2>3. CASE k = Len(Before(f)) + 2
    BY <2>2, <2>3
  <2>4. CASE k = Len(Before(f)) + 1
    <3>1. k = Past(f) - 1
      BY <2>2, <2>4
    <3>2. B[k] = StampOf(f)
      BY <2>2, <2>4
    <3> QED BY <2>1, <3>1, <3>2
  <2>5. CASE k <= Len(Before(f))
    <3>1. k \in 1..Len(Before(f)) /\ k < Past(f) - 1
      BY <1>0, <2>2, <2>5
    <3>2. B[k] = Before(f)[k]
      BY <2>2, <3>1
    <3>3. CoreScript \in Seq(Statements) /\ Migrated(f) \in Seq(Statements)
      BY <2>1, BootTypes
    <3>4. /\ Len(Before(f)) = Len(CoreScript) + Len(Migrated(f)) /\ Len(Migrated(f)) \in Nat
          /\ \A j \in (Len(CoreScript) + 1)..(Len(CoreScript) + Len(Migrated(f))) :
                /\ j - Len(CoreScript) \in 1..Len(Migrated(f))
                /\ Before(f)[j] = Migrated(f)[j - Len(CoreScript)]
      BY <3>3, ConcatAt DEF Before
    <3>5. k \in (Len(CoreScript) + 1)..(Len(CoreScript) + Len(Migrated(f)))
      BY <1>0, <1>4, <3>1, <3>4
    <3>6. B[k] = Migrated(f)[k - Len(CoreScript)] /\ k - Len(CoreScript) \in 1..Len(Migrated(f))
      BY <3>2, <3>4, <3>5
    <3>7. f # 0
      <4>1. f = 0 => Len(Migrated(f)) = 0
        BY DEF Migrated
      <4> QED BY <3>6, <4>1
    <3>8. f \in 1..18
      BY <2>1, <3>7
    <3>9. B[k] \in Elems(Migrated(f))
      BY <3>6 DEF Elems
    <3> QED BY <1>4, <3>1, <3>8, <3>9
  <2>6. k = Len(Before(f)) + 2 \/ k = Len(Before(f)) + 1 \/ k <= Len(Before(f))
    BY <1>0, <1>4, <2>2
  <2> QED BY <2>3, <2>4, <2>5, <2>6
<1>5. \/ k \in 1..Len(CoreScript) \/ (k \notin 1..Len(CoreScript) /\ f = Unread)
      \/ (f \in 0..19 /\ k > Past(f))
      \/ (f \in 0..19 /\ k <= Past(f) /\ k > Len(CoreScript))
  <2>1. f = Unread \/ (f \in 0..19 /\ Past(f) \in Nat)
    BY BootLast
  <2> QED BY <1>0, <2>1
<1> QED BY <1>1, <1>2, <1>3, <1>4, <1>5

\* What has run when the version is stamped.
LEMMA BootBefore ==
    ASSUME NEW f \in 0..18, NEW s \in Elems(CoreScript) \cup Elems(Migrated(f))
    PROVE  \E k \in 1..(Past(f) - 2) : SqliteBoot[f][k] = s
<1>1. /\ Past(f) = Len(Before(f)) + 2 /\ Len(Before(f)) \in Nat
      /\ \A j \in 1..Len(Before(f)) : SqliteBoot[f][j] = Before(f)[j]
  BY BootParts
<1>2. Elems(Before(f)) = Elems(CoreScript) \cup Elems(Migrated(f))
  BY BootTypes, ElemsConcat DEF Before
<1>3. PICK k \in 1..Len(Before(f)) : Before(f)[k] = s
  BY <1>2 DEF Elems
<1>4. k \in 1..(Past(f) - 2)
  BY <1>1
<1> QED BY <1>1, <1>3, <1>4

LEMMA BootPaired ==
    ASSUME NEW f \in {Unread} \cup 0..19
    PROVE  Paired(SqliteBoot[f])
<1>0. CoreScript \in Seq(Statements) /\ Paired(CoreScript)
  BY StepsCore, StepsType
<1>1. CASE f = Unread
  BY <1>0, <1>1, BootIs
<1>2. CASE f = 19
  BY <1>0, <1>2, BootIs, RerunAt, PairedConcat
<1>3. CASE f \in 0..18
  BY <1>3, BootParts
<1>4. f = Unread \/ f = 19 \/ f \in 0..18
  OBVIOUS
<1> QED BY <1>1, <1>2, <1>3, <1>4

\* The statements that make sure of an index, and those that drop one.
LEMMA EnsureElems ==
    ASSUME NEW t \in Indexed
    PROVE  Elems(EnsureIndex(t)) = {Statement("ensure fts", "script", t, "")}
              \cup {Statement("ensure trigger", "script", t, x) : x \in Triggers}
<1> DEFINE s == Statement("ensure fts", "script", t, "")
           a == Statement("ensure trigger", "script", t, "ai")
           b == Statement("ensure trigger", "script", t, "ad")
           c == Statement("ensure trigger", "script", t, "au")
<1>0. t \in Tables
  BY DEF Indexed, Tables, SqliteTables
<1>1. s \in Statements /\ a \in Statements /\ b \in Statements /\ c \in Statements
  BY <1>0 DEF Statement, Statements, Ops, Hows, Names, Triggers
<1>2. EnsureIndex(t) = <<s>> \o <<a, b, c>>
  BY DEF EnsureIndex, CreateTriggers
<1>3. {Statement("ensure trigger", "script", t, x) : x \in Triggers} = {a, b, c}
  BY DEF Triggers
<1> HIDE DEF s, a, b, c
<1>4. <<s>> \in Seq(Statements)
  BY <1>1, OneStatement
<1>5. <<a, b, c>> \in Seq(Statements) /\ Elems(<<a, b, c>>) = {a, b, c}
  BY <1>1, ElemsThree
<1>6. Elems(<<s>> \o <<a, b, c>>) = Elems(<<s>>) \cup Elems(<<a, b, c>>)
  BY <1>4, <1>5, ElemsConcat
<1>7. Elems(<<s>>) = {s}
  BY <1>1, ElemsOne
<1> QED BY <1>2, <1>3, <1>5, <1>6, <1>7 DEF s

LEMMA DropElems ==
    ASSUME NEW t \in Indexed, NEW how \in Hows
    PROVE  Statement("drop fts", how, t, "") \in Elems(DropIndex(t, how))
<1> DEFINE a == Statement("drop trigger", how, t, "ai")
           b == Statement("drop trigger", how, t, "ad")
           c == Statement("drop trigger", how, t, "au")
           s == Statement("drop fts", how, t, "")
<1>0. t \in Tables
  BY DEF Indexed, Tables, SqliteTables
<1>1. s \in Statements /\ a \in Statements /\ b \in Statements /\ c \in Statements
  BY <1>0 DEF Statement, Statements, Ops, Names, Triggers
<1>2. DropIndex(t, how) = <<a, b, c, s>>
  BY DEF DropIndex
<1> HIDE DEF s, a, b, c
<1>3. Elems(<<a, b, c, s>>) = {a, b, c, s}
  BY <1>1, ElemsFour
<1> QED BY <1>2, <1>3 DEF s

LEMMA CoreElems ==
    /\ \A s \in Elems(CoreScript) : Core(s) /\ Legal(s, 19)
    /\ \A t \in SqliteTables : \E s \in Elems(CoreScript) : s.op = "create table" /\ s.table = t
    /\ \A t \in Indexed : \E s \in Elems(CoreScript) : s.op = "ensure fts" /\ s.table = t
    /\ \A t \in Indexed, x \in Triggers : \E s \in Elems(CoreScript) :
          s.op = "ensure trigger" /\ s.table = t /\ s.name = x
<1>1. ASSUME NEW s \in Elems(CoreScript) PROVE Core(s)
  <2>1. CASE \E t \in SqliteTables : s \in Elems(CreateTable(t))
    <3>1. PICK t \in SqliteTables : s \in Elems(CreateTable(t))
      BY <2>1
    <3>2. Statement("create table", "script", t, "") \in Statements
      BY DEF Statement, Statements, Ops, Hows, Tables, Names
    <3>3. s = Statement("create table", "script", t, "")
      BY <3>1, <3>2, ElemsOne DEF CreateTable
    <3> QED BY <3>3 DEF Core, Statement
  <2>2. CASE \E t \in Indexed : s \in Elems(EnsureIndex(t))
    <3>1. PICK t \in Indexed : s \in Elems(EnsureIndex(t))
      BY <2>2
    <3>2. \/ s = Statement("ensure fts", "script", t, "")
          \/ \E x \in Triggers : s = Statement("ensure trigger", "script", t, x)
      BY <3>1, EnsureElems
    <3>4. Statement("ensure fts", "script", t, "").op = "ensure fts"
      BY DEF Statement
    <3>5. \A x : Statement("ensure trigger", "script", t, x).op = "ensure trigger"
      BY DEF Statement
    <3>3. s.op = "ensure fts" \/ s.op = "ensure trigger"
      BY <3>2, <3>4, <3>5
    <3> QED BY <3>3 DEF Core, Ensures
  <2>3. CASE s = Statement("read version", "ddl", "", "")
    <3>1. s.op = "read version"
      BY <2>3 DEF Statement
    <3> QED BY <3>1 DEF Core
  <2> QED BY <2>1, <2>2, <2>3, StepsCore
<1>2. ASSUME NEW t \in SqliteTables
      PROVE  \E s \in Elems(CoreScript) : s.op = "create table" /\ s.table = t
  <2>1. Statement("create table", "script", t, "") \in Elems(CoreScript)
    BY StepsCore
  <2>2. /\ Statement("create table", "script", t, "").op = "create table"
        /\ Statement("create table", "script", t, "").table = t
    BY DEF Statement
  <2> QED BY <2>1, <2>2
<1>3. ASSUME NEW t \in Indexed
      PROVE  /\ \E s \in Elems(CoreScript) : s.op = "ensure fts" /\ s.table = t
             /\ \A x \in Triggers : \E s \in Elems(CoreScript) :
                   s.op = "ensure trigger" /\ s.table = t /\ s.name = x
  <2>1. Elems(EnsureIndex(t)) \subseteq Elems(CoreScript)
    BY StepsCore
  <2>2. /\ Statement("ensure fts", "script", t, "") \in Elems(CoreScript)
        /\ \A x \in Triggers : Statement("ensure trigger", "script", t, x) \in Elems(CoreScript)
    BY <2>1, EnsureElems
  <2>3. /\ Statement("ensure fts", "script", t, "").op = "ensure fts"
        /\ Statement("ensure fts", "script", t, "").table = t
    BY DEF Statement
  <2>4. \A x \in Triggers : /\ Statement("ensure trigger", "script", t, x).op = "ensure trigger"
                            /\ Statement("ensure trigger", "script", t, x).table = t
                            /\ Statement("ensure trigger", "script", t, x).name = x
    BY DEF Statement
  <2> QED BY <2>2, <2>3, <2>4
<1> QED BY <1>1, <1>2, <1>3, CoreLegal

----------------------------------------------------------------------------
(* What the migrations add and make anew.                                  *)

LEMMA MigratedLegal ==
    ASSUME NEW f \in 1..18, NEW s \in Elems(Migrated(f))
    PROVE  Legal(s, f)
<1>1. f \in 0..18 /\ f > 0
  OBVIOUS
<1>2. Steps(Migrated(f), f)
  BY <1>1, StepsMigrated
<1> QED BY <1>2, StepsType

LEMMA AddedColumns ==
    /\ \A n \in 1..18 : \A s \in Elems(Migrations[n]) :
          s.op = "add column" => <<s.table, s.name>> \in ColumnsOf(Migrations[n])
    /\ \A n \in 1..18 : \A x \in ColumnsOf(Migrations[n]) :
          /\ x \in SqliteColumns
          /\ \E s \in Elems(Migrations[n]) : s.op = "add column" /\ x = <<s.table, s.name>>
    /\ \A x \in SqliteColumns : \E n \in 1..18 : x \in ColumnsOf(Migrations[n])
    /\ \A x \in SqliteColumns : x[1] \in SqliteTables /\ x[2] \in SqliteNames
<1>1. ASSUME NEW n \in 1..18
      PROVE  Migrations[n] \in Seq(Statements) /\ DOMAIN Migrations[n] = 1..Len(Migrations[n])
             /\ \A k \in 1..Len(Migrations[n]) : Legal(Migrations[n][k], n)
  <2>1. Steps(Migrations[n], n)
    BY StepsMigration
  <2> QED BY <2>1 DEF Steps
<1>2. DOMAIN Migrations = 1..18
  BY DEF Migrations
<1>3. ASSUME NEW n \in 1..18, NEW s \in Elems(Migrations[n]), s.op = "add column"
      PROVE  <<s.table, s.name>> \in ColumnsOf(Migrations[n])
  BY <1>1, <1>3 DEF Elems, ColumnsOf
<1>4. ASSUME NEW n \in 1..18, NEW x \in ColumnsOf(Migrations[n])
      PROVE  /\ x \in SqliteColumns
             /\ \E s \in Elems(Migrations[n]) : s.op = "add column" /\ x = <<s.table, s.name>>
             /\ x[1] \in SqliteTables /\ x[2] \in SqliteNames
  <2>1. x \in SqliteColumns
    BY <1>2 DEF SqliteColumns
  <2>2. PICK i \in 1..Len(Migrations[n]) :
           /\ Migrations[n][i].op = "add column"
           /\ x = <<Migrations[n][i].table, Migrations[n][i].name>>
    BY <1>1 DEF ColumnsOf
  <2>3. Migrations[n][i] \in Elems(Migrations[n])
    BY DEF Elems
  <2>4. Migrations[n][i].table \in SqliteTables /\ Migrations[n][i].name \in SqliteNames
    BY <1>1, <2>2 DEF Legal, Columns
  <2> QED BY <2>1, <2>2, <2>3, <2>4
<1>5. \A x \in SqliteColumns : \E n \in 1..18 : x \in ColumnsOf(Migrations[n])
  BY <1>2 DEF SqliteColumns
<1> QED BY <1>3, <1>4, <1>5

LEMMA RebuildElems ==
    ASSUME NEW t \in Indexed, Touched(t, 1), t # "entries", NEW op \in {"create fts", "create narrow fts"}
    PROVE  Statement("drop fts", "ddl", t, "") \in Elems(Rebuild(t, op))
<1>1. Steps(DropIndex(t, "ddl"), 1)
  BY StepsDropIndex
<1>2. Steps(<<Statement(op, "ddl", t, "")>>, 1)
  BY StepsMakeFts
<1>3. Steps(<<Statement("rebuild", "dml", t, "")>>, 1)
  BY StepsRebuild DEF Hows
<1>4. \A a, b : Steps(a, 1) /\ Steps(b, 1) =>
         Steps(a \o b, 1) /\ Elems(a \o b) = Elems(a) \cup Elems(b)
  BY StepsType, StepsConcat, ElemsConcat
<1>5. Elems(DropIndex(t, "ddl")) \subseteq Elems(Rebuild(t, op))
  <2> DEFINE A == DropIndex(t, "ddl")
             B == <<Statement(op, "ddl", t, "")>>
             C == <<Statement("rebuild", "dml", t, "")>>
             D == A \o B
  <2>1. Rebuild(t, op) = D \o C
    BY DEF Rebuild
  <2>2. Steps(A, 1) /\ Steps(B, 1) /\ Steps(C, 1)
    BY <1>1, <1>2, <1>3
  <2> HIDE DEF A, B, C
  <2>3. Steps(D, 1) /\ Elems(A) \subseteq Elems(D)
    BY <1>4, <2>2
  <2> HIDE DEF D
  <2>4. Elems(D) \subseteq Elems(D \o C)
    BY <1>4, <2>2, <2>3
  <2> QED BY <2>1, <2>3, <2>4 DEF A
<1> QED BY <1>5, DropElems DEF Hows

LEMMA DropsBefore ==
    ASSUME NEW f \in 1..18, NEW t \in Indexed, Touched(t, f)
    PROVE  \E s \in Elems(Migrated(f)) : s.op = "drop fts" /\ s.table = t
<1>0. \A how : /\ Statement("drop fts", how, t, "").op = "drop fts"
              /\ Statement("drop fts", how, t, "").table = t
  BY DEF Statement
<1>9. ASSUME NEW n \in 1..18, n >= f, NEW S, S \subseteq Elems(Migrations[n])
      PROVE  S \subseteq Elems(Migrated(f))
  BY <1>9, MigratedIs
<1>1. CASE t = "knowledge"
  <2>1. 5 >= f
    BY <1>1 DEF Touched
  <2>2. Touched("knowledge", 1)
    BY DEF Touched
  <2>3. Statement("drop fts", "ddl", "knowledge", "") \in Elems(Rebuild("knowledge", "create fts"))
    BY <2>2, RebuildElems, SqliteLiterals, RemadeLiterals
  <2> DEFINE A == Rebuild("knowledge", "create fts")
             B == Rebuild("rules", "create narrow fts")
             C == CreateTriggers("create trigger", "ddl", "knowledge")
             D == CreateTriggers("create narrow trigger", "ddl", "rules")
  <2>4. /\ Steps(A, 5) /\ Steps(B, 5) /\ Steps(C, 5) /\ Steps(D, 5) /\ Steps(Commit, 5)
    BY SqliteLiterals, RemadeLiterals, StepsRemake, StepsMakeTriggers, StepsCommit
  <2>5. Migrations[5] = A \o B \o C \o D \o Commit
    BY DEF Migrations, MigrateV5ToV6
  <2>6. \A a, b : Steps(a, 5) /\ Steps(b, 5) =>
           Steps(a \o b, 5) /\ Elems(a \o b) = Elems(a) \cup Elems(b)
    BY StepsType, StepsConcat, ElemsConcat
  <2> HIDE DEF A, B, C, D
  <2>7. Elems(A) \subseteq Elems(Migrations[5])
    BY <2>4, <2>5, <2>6
  <2>11. 5 \in 1..18
    OBVIOUS
  <2>12. Elems(A) \subseteq Elems(Migrated(f))
    BY <1>9, <2>1, <2>7, <2>11
  <2>13. Statement("drop fts", "ddl", "knowledge", "") \in Elems(A)
    BY <2>3 DEF A
  <2>8. Statement("drop fts", "ddl", t, "") \in Elems(Migrated(f))
    BY <1>1, <2>12, <2>13
  <2> QED BY <1>0, <2>8
<1>2. CASE t = "rules"
  <2>1. 7 >= f
    BY <1>2 DEF Touched
  <2>2. Touched("rules", 1)
    BY DEF Touched
  <2>3. Statement("drop fts", "ddl", "rules", "") \in Elems(Rebuild("rules", "create fts"))
    BY <2>2, RebuildElems, SqliteLiterals, RemadeLiterals
  <2> DEFINE cs == <<"content", "created_by", "updated_by">>
             A == AddColumns("rules", cs)
             B == Rebuild("rules", "create fts")
             C == CreateTriggers("create trigger", "ddl", "rules")
             D == <<Statement("create table", "ddl", "rule_events", "")>>
  <2>9. Steps(A, 7)
    <3>1. cs \in Seq(SqliteNames)
      BY DEF SqliteNames
    <3> HIDE DEF cs
    <3> QED BY <3>1, SqliteLiterals, StepsColumns
  <2>4. /\ Steps(B, 7) /\ Steps(C, 7) /\ Steps(D, 7) /\ Steps(Commit, 7)
    BY SqliteLiterals, RemadeLiterals, StepsRemake, StepsMakeTriggers, StepsCommit, StepsCreateTable
  <2>5. Migrations[7] = A \o B \o C \o D \o Commit
    BY DEF Migrations, MigrateV7ToV8
  <2>6. \A a, b : Steps(a, 7) /\ Steps(b, 7) =>
           Steps(a \o b, 7) /\ Elems(a \o b) = Elems(a) \cup Elems(b)
    BY StepsType, StepsConcat, ElemsConcat
  <2> HIDE DEF A, B, C, D
  <2>7. Elems(B) \subseteq Elems(Migrations[7])
    BY <2>4, <2>5, <2>6, <2>9
  <2>11. 7 \in 1..18
    OBVIOUS
  <2>12. Elems(B) \subseteq Elems(Migrated(f))
    BY <1>9, <2>1, <2>7, <2>11
  <2>13. Statement("drop fts", "ddl", "rules", "") \in Elems(B)
    BY <2>3 DEF B
  <2>8. Statement("drop fts", "ddl", t, "") \in Elems(Migrated(f))
    BY <1>2, <2>12, <2>13
  <2> QED BY <1>0, <2>8
<1>3. CASE t = "entries"
  <2>1. 18 >= f
    OBVIOUS
  <2>3. Statement("drop fts", "script", "entries", "") \in Elems(DropIndex("entries", "script"))
    BY DropElems, SqliteLiterals DEF Hows
  <2> DEFINE A == AddColumn("entries", "facets_text")
             B == DropIndex("entries", "script")
             C == ENTRIES_SCHEMA
             D == <<Statement("rebuild", "script", "entries", "")>>
  <2>9. Steps(A, 18)
    BY SqliteLiterals, StepsColumn DEF SqliteNames
  <2>10. Steps(D, 18)
    BY SqliteLiterals, RemadeLiterals, StepsRebuild DEF Hows
  <2>4. /\ Steps(B, 18) /\ Steps(C, 18) /\ Steps(Commit, 18)
    BY SqliteLiterals, RemadeLiterals, StepsDropIndex, StepsEntries, StepsCommit
  <2>5. Migrations[18] = A \o B \o C \o D \o Commit
    BY DEF Migrations, MigrateV18ToV19
  <2>6. \A a, b : Steps(a, 18) /\ Steps(b, 18) =>
           Steps(a \o b, 18) /\ Elems(a \o b) = Elems(a) \cup Elems(b)
    BY StepsType, StepsConcat, ElemsConcat
  <2> HIDE DEF A, B, C, D
  <2>7. Elems(B) \subseteq Elems(Migrations[18])
    BY <2>4, <2>5, <2>6, <2>9, <2>10
  <2>11. 18 \in 1..18
    OBVIOUS
  <2>12. Elems(B) \subseteq Elems(Migrated(f))
    BY <1>9, <2>1, <2>7, <2>11
  <2>13. Statement("drop fts", "script", "entries", "") \in Elems(B)
    BY <2>3 DEF B
  <2>8. Statement("drop fts", "script", t, "") \in Elems(Migrated(f))
    BY <1>3, <2>12, <2>13
  <2> QED BY <1>0, <2>8
<1> QED BY <1>1, <1>2, <1>3 DEF Indexed

----------------------------------------------------------------------------
(* The Postgres list.                                                      *)

LEMMA PgConcat ==
    \A a, b : PgSteps(a) /\ PgSteps(b) =>
       PgSteps(a \o b) /\ Elems(a \o b) = Elems(a) \cup Elems(b)
<1>1. ASSUME NEW a \in Seq(Statements), NEW b \in Seq(Statements)
      PROVE  a \o b \in Seq(Statements) /\ Elems(a \o b) = Elems(a) \cup Elems(b)
  BY ElemsConcat, ConcatProperties
<1> QED BY <1>1 DEF PgSteps

LEMMA PgOne ==
    ASSUME NEW s \in Statements, PgLegal(s)
    PROVE  PgSteps(<<s>>) /\ Elems(<<s>>) = {s}
  BY OneStatement, ElemsOne DEF PgSteps

LEMMA PgTableIs ==
    ASSUME NEW t \in PgTables
    PROVE  PgSteps(PgTable(t)) /\ Elems(PgTable(t)) = {Creates(t)}
<1> SUFFICES ASSUME NEW s, s = Statement("create table", "ddl", t, "")
             PROVE  PgSteps(<<s>>) /\ Elems(<<s>>) = {s}
  BY DEF PgTable, Creates
<1>1. s \in Statements
  BY DEF Statement, Statements, Ops, Hows, Names, Tables, PgTables
<1>2. s.op = "create table" /\ s.how = "ddl" /\ s.table = t
  BY DEF Statement
<1> QED BY <1>1, <1>2, PgOne DEF PgLegal

LEMMA PgGuardedIs ==
    ASSUME NEW t \in PgTables, NEW c \in PgNames, c = "content" => t = "rules",
           c = "facets_text" => t = "entries"
    PROVE  PgSteps(Guarded(t, c)) /\ Elems(Guarded(t, c)) = {Guards(t, c)}
<1> SUFFICES ASSUME NEW s, s = Statement("guarded column", "ddl", t, c)
             PROVE  PgSteps(<<s>>) /\ Elems(<<s>>) = {s}
  BY DEF Guarded, Guards
<1>1. s \in Statements
  BY DEF Statement, Statements, Ops, Hows, Names, Tables, PgTables, PgNames, SqliteNames
<1>2. s.op = "guarded column" /\ s.how = "ddl" /\ s.table = t /\ s.name = c
  BY DEF Statement
<1> QED BY <1>1, <1>2, PgOne DEF PgLegal

LEMMA ColumnElems ==
    ASSUME NEW t \in SqliteTables, NEW cs \in Seq(SqliteNames), NEW i \in 1..Len(cs)
    PROVE  Statement("add column", "ddl", t, cs[i]) \in Elems(AddColumns(t, cs))
<1> DEFINE L == AddColumns(t, cs)
           n == Len(cs)
<1>1. L = [k \in 1..(2 * n) |-> AddColumn(t, cs[(k + 1) \div 2])[2 - (k % 2)]]
  BY DEF AddColumns
<1>2. n \in Nat /\ i \in 1..n /\ 2 * n \in Nat
  OBVIOUS
<1>3. Len(L) = 2 * n
  BY <1>1, <1>2
<1> HIDE DEF L, n
<1>4. 2 * i \in 1..(2 * n) /\ (2 * i + 1) \div 2 = i /\ 2 - ((2 * i) % 2) = 2
  BY <1>2
<1>5. L[2 * i] = AddColumn(t, cs[i])[2]
  BY <1>1, <1>4
<1>6. AddColumn(t, cs[i])[2] = Statement("add column", "ddl", t, cs[i])
  BY DEF AddColumn
<1>7. L[2 * i] \in Elems(L)
  BY <1>3, <1>4 DEF Elems
<1> QED BY <1>5, <1>6, <1>7 DEF L

LEMMA SecondElem ==
    ASSUME NEW L, Len(L) = 2
    PROVE  L[2] \in Elems(L)
  BY DEF Elems

LEMMA ColumnElem ==
    ASSUME NEW t \in SqliteTables, NEW c \in SqliteNames
    PROVE  Statement("add column", "ddl", t, c) \in Elems(AddColumn(t, c))
<1> DEFINE L == AddColumn(t, c)
<1>1. Len(L) = 2
  BY DEF AddColumn
<1>2. L[2] = Statement("add column", "ddl", t, c)
  BY DEF AddColumn
<1> HIDE DEF L
<1>3. L[2] \in Elems(L)
  BY <1>1, SecondElem
<1> QED BY <1>2, <1>3 DEF L

LEMMA AddsMore == \A A, B, t, c, n : Adds(A, t, c, n) /\ Steps(B, n) => Adds(A \o B, t, c, n)
<1>1. ASSUME NEW A, NEW B, NEW n, Steps(A, n), Steps(B, n)
      PROVE  Steps(A \o B, n) /\ Elems(A \o B) = Elems(A) \cup Elems(B)
  BY <1>1, StepsType, StepsConcat, ElemsConcat
<1> QED BY <1>1 DEF Adds

LEMMA AddsOne ==
    ASSUME NEW t \in SqliteTables, NEW c \in SqliteNames, NEW n
    PROVE  Adds(AddColumn(t, c), t, c, n)
  BY StepsColumn, ColumnElem DEF Adds

LEMMA AddsFirst ==
    ASSUME NEW t \in SqliteTables, NEW cs \in Seq(SqliteNames), Len(cs) > 0, NEW n
    PROVE  Adds(AddColumns(t, cs), t, cs[1], n)
<1>1. 1 \in 1..Len(cs)
  OBVIOUS
<1> QED BY <1>1, StepsColumns, ColumnElems DEF Adds

LEMMA KnownColumn ==
    ASSUME NEW n \in 1..18, NEW t, NEW c, Adds(Migrations[n], t, c, n)
    PROVE  <<t, c>> \in SqliteColumns
<1>1. /\ Statement("add column", "ddl", t, c).op = "add column"
      /\ Statement("add column", "ddl", t, c).table = t
      /\ Statement("add column", "ddl", t, c).name = c
  BY DEF Statement
<1>2. <<t, c>> \in ColumnsOf(Migrations[n])
  BY <1>1, AddedColumns DEF Adds
<1> QED BY <1>2, AddedColumns

LEMMA KnownAlone ==
    ASSUME NEW n \in 1..18, NEW t, NEW c, NEW A, Adds(A, t, c, n), Migrations[n] = A \o Commit
    PROVE  <<t, c>> \in SqliteColumns
  BY AddsMore, StepsCommit, KnownColumn

LEMMA Numbered == {7, 8, 10, 11, 12, 13, 15, 16, 18} \subseteq 1..18
  OBVIOUS

LEMMA PgKnownColumns ==
    /\ <<"sessions", "principal">> \in SqliteColumns
    /\ <<"rules", "content">> \in SqliteColumns
    /\ <<"rules", "correct_count">> \in SqliteColumns
    /\ <<"rules", "importance">> \in SqliteColumns
    /\ <<"knowledge", "refs_json">> \in SqliteColumns
    /\ <<"knowledge", "source_classification">> \in SqliteColumns
    /\ <<"rules", "source_classification">> \in SqliteColumns
    /\ <<"knowledge", "status">> \in SqliteColumns
    /\ <<"knowledge", "valid_until">> \in SqliteColumns
    /\ <<"entries", "facets_text">> \in SqliteColumns
<1>1. <<"sessions", "principal">> \in SqliteColumns
  <2> DEFINE cs == <<"principal", "workspace">>
             A == AddColumns("sessions", cs)
  <2>1. cs \in Seq(SqliteNames) /\ Len(cs) > 0 /\ cs[1] = "principal"
    BY DEF SqliteNames
  <2>2. Migrations[16] = A \o Commit
    BY DEF Migrations, MigrateV16ToV17
  <2> HIDE DEF cs
  <2>3. Adds(A, "sessions", "principal", 16)
    BY <2>1, AddsFirst, SqliteLiterals
  <2> HIDE DEF A
  <2> QED BY <2>2, <2>3, KnownAlone, Numbered
<1>2. <<"rules", "content">> \in SqliteColumns
  <2> DEFINE cs == <<"content", "created_by", "updated_by">>
             A == AddColumns("rules", cs)
             B == Rebuild("rules", "create fts")
             C == CreateTriggers("create trigger", "ddl", "rules")
             D == <<Statement("create table", "ddl", "rule_events", "")>>
  <2>1. cs \in Seq(SqliteNames) /\ Len(cs) > 0 /\ cs[1] = "content"
    BY DEF SqliteNames
  <2>2. Migrations[7] = A \o B \o C \o D \o Commit
    BY DEF Migrations, MigrateV7ToV8
  <2> HIDE DEF cs
  <2>3. Adds(A, "rules", "content", 7)
    BY <2>1, AddsFirst, SqliteLiterals
  <2>4. Steps(B, 7)
    BY SqliteLiterals, RemadeLiterals, StepsRemake
  <2>5. Steps(C, 7)
    BY SqliteLiterals, RemadeLiterals, StepsMakeTriggers
  <2>6. Steps(D, 7)
    BY SqliteLiterals, StepsCreateTable
  <2> HIDE DEF A, B, C, D
  <2> QED BY <2>2, <2>3, <2>4, <2>5, <2>6, StepsCommit, AddsMore, KnownColumn, Numbered
<1>3. <<"rules", "correct_count">> \in SqliteColumns
  <2> DEFINE cs == <<"correct_count", "incorrect_count", "valid_until", "superseded_by", "status">>
             A == AddColumns("rules", cs)
             B == <<Statement("create table", "ddl", "rule_outcomes", "")>>
  <2>1. cs \in Seq(SqliteNames) /\ Len(cs) > 0 /\ cs[1] = "correct_count"
    BY DEF SqliteNames
  <2>2. Migrations[8] = A \o B \o Commit
    BY DEF Migrations, MigrateV8ToV9
  <2> HIDE DEF cs
  <2>3. Adds(A, "rules", "correct_count", 8)
    BY <2>1, AddsFirst, SqliteLiterals
  <2>4. Steps(B, 8)
    BY SqliteLiterals, StepsCreateTable
  <2> HIDE DEF A, B
  <2> QED BY <2>2, <2>3, <2>4, StepsCommit, AddsMore, KnownColumn, Numbered
<1>4. <<"rules", "importance">> \in SqliteColumns
  <2> DEFINE cs == <<"importance", "scope", "kind">>
             A == AddColumns("rules", cs)
  <2>1. cs \in Seq(SqliteNames) /\ Len(cs) > 0 /\ cs[1] = "importance"
    BY DEF SqliteNames
  <2>2. Migrations[10] = A \o Commit
    BY DEF Migrations, MigrateV10ToV11
  <2> HIDE DEF cs
  <2>3. Adds(A, "rules", "importance", 10)
    BY <2>1, AddsFirst, SqliteLiterals
  <2> HIDE DEF A
  <2> QED BY <2>2, <2>3, KnownAlone, Numbered
<1>5. <<"knowledge", "refs_json">> \in SqliteColumns
  <2> DEFINE A == AddColumn("knowledge", "refs_json")
  <2>2. Migrations[11] = A \o Commit
    BY DEF Migrations, MigrateV11ToV12
  <2>3. Adds(A, "knowledge", "refs_json", 11)
    BY AddsOne, SqliteLiterals DEF SqliteNames
  <2> HIDE DEF A
  <2> QED BY <2>2, <2>3, KnownAlone, Numbered
<1>6. <<"knowledge", "source_classification">> \in SqliteColumns
  <2> DEFINE A == AddColumn("knowledge", "source_classification")
             B == AddColumn("rules", "source_classification")
  <2>2. Migrations[12] = A \o B \o Commit
    BY DEF Migrations, MigrateV12ToV13
  <2>3. Adds(A, "knowledge", "source_classification", 12)
    BY AddsOne, SqliteLiterals DEF SqliteNames
  <2>4. Steps(B, 12)
    BY SqliteLiterals, StepsColumn DEF SqliteNames
  <2> HIDE DEF A, B
  <2> QED BY <2>2, <2>3, <2>4, StepsCommit, AddsMore, KnownColumn, Numbered
<1>7. <<"rules", "source_classification">> \in SqliteColumns
  <2> DEFINE A == AddColumn("knowledge", "source_classification")
             B == AddColumn("rules", "source_classification")
  <2>1. Migrations[12] = A \o B \o Commit
    BY DEF Migrations, MigrateV12ToV13
  <2>2. Adds(B, "rules", "source_classification", 12) /\ Steps(A, 12)
    BY AddsOne, StepsColumn, SqliteLiterals DEF SqliteNames
  <2> HIDE DEF A, B
  <2>3. Adds(A \o B, "rules", "source_classification", 12)
    BY <2>2, StepsType, StepsConcat, ElemsConcat DEF Adds
  <2> QED BY <2>1, <2>3, KnownAlone, Numbered
<1>8. <<"knowledge", "status">> \in SqliteColumns
  <2> DEFINE cs == <<"status", "superseded_by">>
             A == AddColumns("knowledge", cs)
  <2>1. cs \in Seq(SqliteNames) /\ Len(cs) > 0 /\ cs[1] = "status"
    BY DEF SqliteNames
  <2>2. Migrations[13] = A \o Commit
    BY DEF Migrations, MigrateV13ToV14
  <2> HIDE DEF cs
  <2>3. Adds(A, "knowledge", "status", 13)
    BY <2>1, AddsFirst, SqliteLiterals
  <2> HIDE DEF A
  <2> QED BY <2>2, <2>3, KnownAlone, Numbered
<1>9. <<"knowledge", "valid_until">> \in SqliteColumns
  <2> DEFINE A == AddColumn("knowledge", "valid_until")
  <2>2. Migrations[15] = A \o Commit
    BY DEF Migrations, MigrateV15ToV16
  <2>3. Adds(A, "knowledge", "valid_until", 15)
    BY AddsOne, SqliteLiterals DEF SqliteNames
  <2> HIDE DEF A
  <2> QED BY <2>2, <2>3, KnownAlone, Numbered
<1>10. <<"entries", "facets_text">> \in SqliteColumns
  <2> DEFINE A == AddColumn("entries", "facets_text")
             B == DropIndex("entries", "script")
             C == ENTRIES_SCHEMA
             D == <<Statement("rebuild", "script", "entries", "")>>
  <2>2. Migrations[18] = A \o B \o C \o D \o Commit
    BY DEF Migrations, MigrateV18ToV19
  <2>3. Adds(A, "entries", "facets_text", 18)
    BY AddsOne, SqliteLiterals DEF SqliteNames
  <2>4. Steps(B, 18)
    BY SqliteLiterals, RemadeLiterals, StepsDropIndex
  <2>5. Steps(C, 18)
    BY StepsEntries
  <2>6. Steps(D, 18)
    BY SqliteLiterals, RemadeLiterals, StepsRebuild DEF Hows
  <2> HIDE DEF A, B, C, D
  <2> QED BY <2>2, <2>3, <2>4, <2>5, <2>6, StepsCommit, AddsMore, KnownColumn, Numbered
<1> QED BY <1>1, <1>2, <1>3, <1>4, <1>5, <1>6, <1>7, <1>8, <1>9, <1>10

LEMMA PgLiterals ==
    /\ "knowledge" \in PgTables
    /\ "sessions" \in PgTables
    /\ "rules" \in PgTables
    /\ "rule_outcomes" \in PgTables
    /\ "token_ledger" \in PgTables
    /\ "rule_events" \in PgTables
    /\ "relations" \in PgTables
    /\ "snapshots" \in PgTables
    /\ "session_metrics" \in PgTables
    /\ "tokens" \in PgTables
    /\ "recall_log" \in PgTables
    /\ "sieve_rejections" \in PgTables
    /\ "entries" \in PgTables
  BY DEF PgTables, SqliteTables

LEMMA PgNameLiterals ==
    /\ "principal" \in PgNames /\ "principal" # "content" /\ "principal" # "facets_text"
    /\ "content" \in PgNames /\ "content" # "facets_text"
    /\ "correct_count" \in PgNames /\ "correct_count" # "content" /\ "correct_count" # "facets_text"
    /\ "importance" \in PgNames /\ "importance" # "content" /\ "importance" # "facets_text"
    /\ "refs_json" \in PgNames /\ "refs_json" # "content" /\ "refs_json" # "facets_text"
    /\ "source_classification" \in PgNames /\ "source_classification" # "content" /\ "source_classification" # "facets_text"
    /\ "status" \in PgNames /\ "status" # "content" /\ "status" # "facets_text"
    /\ "valid_until" \in PgNames /\ "valid_until" # "content" /\ "valid_until" # "facets_text"
    /\ "subject_keys" \in PgNames /\ "subject_keys" # "content" /\ "subject_keys" # "facets_text"
    /\ "provenance" \in PgNames /\ "provenance" # "content" /\ "provenance" # "facets_text"
    /\ "entity_type" \in PgNames /\ "entity_type" # "content" /\ "entity_type" # "facets_text"
    /\ "facets_text" \in PgNames /\ "facets_text" # "content"
  BY DEF PgNames

LEMMA PgEntitiesIs ==
    /\ PgSteps(PgEntities)
    /\ Elems(PgEntities) = {Creates("knowledge"), Creates("sessions"), Guards("sessions", "principal")}
<1> DEFINE A == PgTable("knowledge")
           B == PgTable("sessions")
           C == Guarded("sessions", "principal")
<1>1. PgSteps(A) /\ Elems(A) = {Creates("knowledge")}
  BY PgLiterals, PgTableIs
<1>2. PgSteps(B) /\ Elems(B) = {Creates("sessions")}
  BY PgLiterals, PgTableIs
<1>3. PgSteps(C) /\ Elems(C) = {Guards("sessions", "principal")}
  BY PgLiterals, PgNameLiterals, PgGuardedIs
<1>4. PgEntities = A \o B \o C
  BY DEF PgEntities
<1> HIDE DEF A, B, C
<1> QED BY <1>1, <1>2, <1>3, <1>4, PgConcat

LEMMA PgRulesIs ==
    /\ PgSteps(PgRules)
    /\ Elems(PgRules) = {Creates("rules"), Guards("rules", "content")}
<1> DEFINE A == PgTable("rules")
           B == Guarded("rules", "content")
<1>1. PgSteps(A) /\ Elems(A) = {Creates("rules")}
  BY PgLiterals, PgTableIs
<1>2. PgSteps(B) /\ Elems(B) = {Guards("rules", "content")}
  BY PgLiterals, PgNameLiterals, PgGuardedIs
<1>3. PgRules = A \o B
  BY DEF PgRules
<1> HIDE DEF A, B
<1> QED BY <1>1, <1>2, <1>3, PgConcat

LEMMA PgLifecycleIs ==
    /\ PgSteps(PgLifecycle)
    /\ Elems(PgLifecycle) = {Guards("rules", "correct_count"), Guards("rules", "importance"),
            Guards("knowledge", "refs_json"),
            Guards("knowledge", "source_classification"),
            Guards("rules", "source_classification"),
            Guards("knowledge", "status"), Guards("knowledge", "valid_until")}
<1> DEFINE A == Guarded("rules", "correct_count")
           B == Guarded("rules", "importance")
           C == Guarded("knowledge", "refs_json")
           D == Guarded("knowledge", "source_classification")
           E == Guarded("rules", "source_classification")
           F == Guarded("knowledge", "status")
           H == Guarded("knowledge", "valid_until")
           K == A \o B \o C \o D
<1>1. PgSteps(A) /\ Elems(A) = {Guards("rules", "correct_count")}
  BY PgLiterals, PgNameLiterals, PgGuardedIs
<1>2. PgSteps(B) /\ Elems(B) = {Guards("rules", "importance")}
  BY PgLiterals, PgNameLiterals, PgGuardedIs
<1>3. PgSteps(C) /\ Elems(C) = {Guards("knowledge", "refs_json")}
  BY PgLiterals, PgNameLiterals, PgGuardedIs
<1>4. PgSteps(D) /\ Elems(D) = {Guards("knowledge", "source_classification")}
  BY PgLiterals, PgNameLiterals, PgGuardedIs
<1>5. PgSteps(E) /\ Elems(E) = {Guards("rules", "source_classification")}
  BY PgLiterals, PgNameLiterals, PgGuardedIs
<1>6. PgSteps(F) /\ Elems(F) = {Guards("knowledge", "status")}
  BY PgLiterals, PgNameLiterals, PgGuardedIs
<1>7. PgSteps(H) /\ Elems(H) = {Guards("knowledge", "valid_until")}
  BY PgLiterals, PgNameLiterals, PgGuardedIs
<1>8. PgLifecycle = K \o E \o F \o H
  BY DEF PgLifecycle
<1> HIDE DEF A, B, C, D, E, F, H
<1>9. PgSteps(K) /\ Elems(K) = Elems(A) \cup Elems(B) \cup Elems(C) \cup Elems(D)
  BY <1>1, <1>2, <1>3, <1>4, PgConcat
<1> HIDE DEF K
<1> QED BY <1>1, <1>2, <1>3, <1>4, <1>5, <1>6, <1>7, <1>8, <1>9, PgConcat

LEMMA PgLedgersIs ==
    /\ PgSteps(PgLedgers)
    /\ Elems(PgLedgers) = {Creates("rule_outcomes"), Creates("token_ledger"), Creates("rule_events"),
            Creates("relations"), Creates("snapshots"), Creates("session_metrics")}
<1> DEFINE A == PgTable("rule_outcomes")
           B == PgTable("token_ledger")
           C == PgTable("rule_events")
           D == PgTable("relations")
           E == PgTable("snapshots")
           F == PgTable("session_metrics")
<1>1. PgSteps(A) /\ Elems(A) = {Creates("rule_outcomes")}
  BY PgLiterals, PgTableIs
<1>2. PgSteps(B) /\ Elems(B) = {Creates("token_ledger")}
  BY PgLiterals, PgTableIs
<1>3. PgSteps(C) /\ Elems(C) = {Creates("rule_events")}
  BY PgLiterals, PgTableIs
<1>4. PgSteps(D) /\ Elems(D) = {Creates("relations")}
  BY PgLiterals, PgTableIs
<1>5. PgSteps(E) /\ Elems(E) = {Creates("snapshots")}
  BY PgLiterals, PgTableIs
<1>6. PgSteps(F) /\ Elems(F) = {Creates("session_metrics")}
  BY PgLiterals, PgTableIs
<1>7. PgLedgers = A \o B \o C \o D \o E \o F
  BY DEF PgLedgers
<1> HIDE DEF A, B, C, D, E, F
<1> QED BY <1>1, <1>2, <1>3, <1>4, <1>5, <1>6, <1>7, PgConcat

LEMMA PgClaimsIs ==
    /\ PgSteps(PgClaims)
    /\ Elems(PgClaims) = {Guards("knowledge", "subject_keys"), Guards("knowledge", "provenance")}
<1> DEFINE A == Guarded("knowledge", "subject_keys")
           B == Guarded("knowledge", "provenance")
<1>1. PgSteps(A) /\ Elems(A) = {Guards("knowledge", "subject_keys")}
  BY PgLiterals, PgNameLiterals, PgGuardedIs
<1>2. PgSteps(B) /\ Elems(B) = {Guards("knowledge", "provenance")}
  BY PgLiterals, PgNameLiterals, PgGuardedIs
<1>3. PgClaims = A \o B
  BY DEF PgClaims
<1> HIDE DEF A, B
<1> QED BY <1>1, <1>2, <1>3, PgConcat

LEMMA PgAuditIs ==
    /\ PgSteps(PgAudit)
    /\ Elems(PgAudit) = {Creates("tokens"), Creates("recall_log"), Guards("recall_log", "entity_type"),
            Creates("sieve_rejections")}
<1> DEFINE A == PgTable("tokens")
           B == PgTable("recall_log")
           C == Guarded("recall_log", "entity_type")
           D == PgTable("sieve_rejections")
<1>1. PgSteps(A) /\ Elems(A) = {Creates("tokens")}
  BY PgLiterals, PgTableIs
<1>2. PgSteps(B) /\ Elems(B) = {Creates("recall_log")}
  BY PgLiterals, PgTableIs
<1>3. PgSteps(C) /\ Elems(C) = {Guards("recall_log", "entity_type")}
  BY PgLiterals, PgNameLiterals, PgGuardedIs
<1>4. PgSteps(D) /\ Elems(D) = {Creates("sieve_rejections")}
  BY PgLiterals, PgTableIs
<1>5. PgAudit = A \o B \o C \o D
  BY DEF PgAudit
<1> HIDE DEF A, B, C, D
<1> QED BY <1>1, <1>2, <1>3, <1>4, <1>5, PgConcat

LEMMA PgEntriesIs ==
    /\ PgSteps(PgEntries)
    /\ Elems(PgEntries) = {Creates("entries"), Guards("entries", "facets_text")}
<1> DEFINE A == PgTable("entries")
           B == Guarded("entries", "facets_text")
<1>1. PgSteps(A) /\ Elems(A) = {Creates("entries")}
  BY PgLiterals, PgTableIs
<1>2. PgSteps(B) /\ Elems(B) = {Guards("entries", "facets_text")}
  BY PgLiterals, PgNameLiterals, PgGuardedIs
<1>3. PgEntries = A \o B
  BY DEF PgEntries
<1> HIDE DEF A, B
<1> QED BY <1>1, <1>2, <1>3, PgConcat

LEMMA PgDdlIs ==
    /\ PgSteps(PgDdl)
    /\ Elems(PgDdl) = Elems(PgEntities) \cup Elems(PgRules) \cup Elems(PgLifecycle) \cup Elems(PgLedgers)
                          \cup Elems(PgClaims) \cup Elems(PgAudit) \cup Elems(PgEntries)
  BY PgEntitiesIs, PgRulesIs, PgLifecycleIs, PgLedgersIs,
     PgClaimsIs, PgAuditIs, PgEntriesIs, PgConcat DEF PgDdl

LEMMA TFields ==
    ASSUME NEW t
    PROVE  Creates(t).op = "create table" /\ Creates(t).table = t
  BY DEF Creates, Statement

LEMMA GFields ==
    ASSUME NEW t, NEW c
    PROVE  Guards(t, c).op = "guarded column" /\ Guards(t, c).table = t /\ Guards(t, c).name = c
  BY DEF Guards, Statement

LEMMA GKnown ==
    ASSUME NEW t, NEW c,
           <<t, c>> \in SqliteColumns \/ c \in {"subject_keys", "provenance", "entity_type"}
    PROVE  GuardedName(Guards(t, c))
<1>1. Guards(t, c).op = "guarded column" /\ Guards(t, c).table = t /\ Guards(t, c).name = c
  BY GFields
<1> QED BY <1>1 DEF GuardedName

LEMMA PgElems ==
    /\ \A s \in Elems(PgDdl) : PgLegal(s)
    /\ \A t \in PgTables : \E s \in Elems(PgDdl) : s.op = "create table" /\ s.table = t
    /\ \E s \in Elems(PgDdl) : s.op = "guarded column" /\ s.table = "rules" /\ s.name = "content"
    /\ \E s \in Elems(PgDdl) : s.op = "guarded column" /\ s.table = "entries" /\ s.name = "facets_text"
    /\ \A s \in Elems(PgDdl) : s.op = "guarded column" => GuardedName(s)
<1>1. \A s \in Elems(PgDdl) : PgLegal(s)
  BY PgDdlIs DEF PgSteps
<1>2. ASSUME NEW t \in PgTables PROVE Creates(t) \in Elems(PgDdl)
  <2>1. CASE t = "knowledge" \/ t = "sessions"
    BY <2>1, PgEntitiesIs, PgDdlIs
  <2>2. CASE t = "rules"
    BY <2>2, PgRulesIs, PgDdlIs
  <2>3. CASE t \in {"rule_outcomes", "token_ledger", "rule_events", "relations", "snapshots",
                    "session_metrics"}
    BY <2>3, PgLedgersIs, PgDdlIs
  <2>4. CASE t \in {"tokens", "recall_log", "sieve_rejections"}
    BY <2>4, PgAuditIs, PgDdlIs
  <2>5. CASE t = "entries"
    BY <2>5, PgEntriesIs, PgDdlIs
  <2> QED BY <2>1, <2>2, <2>3, <2>4, <2>5 DEF PgTables, SqliteTables
<1>3. Guards("rules", "content") \in Elems(PgDdl)
  BY PgRulesIs, PgDdlIs
<1>4. Guards("entries", "facets_text") \in Elems(PgDdl)
  BY PgEntriesIs, PgDdlIs
<1>5. ASSUME NEW s \in Elems(PgDdl), \A t : s # Creates(t) PROVE GuardedName(s)
  <2>1. CASE s \in Elems(PgEntities)
    BY <1>5, <2>1, PgEntitiesIs, GKnown, PgKnownColumns
  <2>2. CASE s \in Elems(PgRules)
    BY <1>5, <2>2, PgRulesIs, GKnown, PgKnownColumns
  <2>3. CASE s \in Elems(PgLifecycle)
    BY <1>5, <2>3, PgLifecycleIs, GKnown, PgKnownColumns
  <2>4. CASE s \in Elems(PgLedgers)
    BY <1>5, <2>4, PgLedgersIs
  <2>5. CASE s \in Elems(PgClaims)
    BY <1>5, <2>5, PgClaimsIs, GKnown
  <2>6. CASE s \in Elems(PgAudit)
    BY <1>5, <2>6, PgAuditIs, GKnown
  <2>7. CASE s \in Elems(PgEntries)
    BY <1>5, <2>7, PgEntriesIs, GKnown, PgKnownColumns
  <2> QED BY <2>1, <2>2, <2>3, <2>4, <2>5, <2>6, <2>7, PgDdlIs
<1>6. ASSUME NEW s \in Elems(PgDdl), s.op = "guarded column" PROVE GuardedName(s)
  <2>1. ASSUME NEW t, s = Creates(t) PROVE FALSE
    BY <1>6, <2>1, TFields
  <2> QED BY <1>5, <2>1
<1>7. ASSUME NEW t \in PgTables PROVE \E s \in Elems(PgDdl) : s.op = "create table" /\ s.table = t
  BY <1>2, TFields
<1>8. \E s \in Elems(PgDdl) : s.op = "guarded column" /\ s.table = "rules" /\ s.name = "content"
  BY <1>3, GFields
<1>9. \E s \in Elems(PgDdl) : s.op = "guarded column" /\ s.table = "entries" /\ s.name = "facets_text"
  BY <1>4, GFields
<1> QED BY <1>1, <1>6, <1>7, <1>8, <1>9

LEMMA PgBootAt ==
    /\ PgBoot \in Seq(Statements) /\ Len(PgDdl) \in Nat /\ Len(PgBoot) = Len(PgDdl) + 3
    /\ \A k \in 1..Len(PgDdl) : PgBoot[k] \in Elems(PgDdl)
    /\ \A s \in Elems(PgDdl) : \E k \in 1..Len(PgDdl) : PgBoot[k] = s
    /\ PgBoot[Len(PgDdl) + 1] = Stamp
    /\ PgBoot[Len(PgDdl) + 2] = Fill
    /\ PgBoot[Len(PgDdl) + 3] = End
<1>1. PgDdl \in Seq(Statements)
  BY PgDdlIs DEF PgSteps
<1>2. Stamp \in Statements /\ Fill \in Statements /\ End \in Statements /\ Commit = <<End>>
  <2>1. Stamp \in Statements
    BY DEF Stamp, Statement, Statements, Ops, Hows, Tables, Names
  <2> QED BY <2>1, BootStatements
<1>3. PgBoot = (PgDdl \o <<Stamp, Fill>>) \o <<End>>
  BY <1>2 DEF PgBoot, Stamp, Fill
<1> DEFINE L == PgDdl
           M == <<Stamp, Fill>>
<1>4. M \in Seq(Statements) /\ Len(M) = 2 /\ M[1] = Stamp /\ M[2] = Fill
  BY <1>2
<1> HIDE DEF M, L
<1>5. L \in Seq(Statements)
  BY <1>1 DEF L
<1>6. /\ L \o M \in Seq(Statements) /\ Len(L \o M) = Len(L) + 2 /\ Len(L) \in Nat
      /\ \A k \in 1..Len(L) : (L \o M)[k] = L[k]
      /\ \A k \in (Len(L) + 1)..(Len(L) + 2) : (L \o M)[k] = M[k - Len(L)]
  <2>1. M \in Seq(Statements)
    BY <1>4
  <2>2. /\ L \o M \in Seq(Statements) /\ Len(L \o M) = Len(L) + Len(M) /\ Len(L) \in Nat
        /\ \A k \in 1..Len(L) : (L \o M)[k] = L[k]
        /\ \A k \in (Len(L) + 1)..(Len(L) + Len(M)) : (L \o M)[k] = M[k - Len(L)]
    BY <1>5, <2>1, ConcatAt
  <2>3. Len(M) = 2
    BY <1>4
  <2> QED BY <2>2, <2>3
<1>7. (L \o M)[Len(L) + 1] = Stamp /\ (L \o M)[Len(L) + 2] = Fill
  <2>1. /\ Len(L) + 1 \in (Len(L) + 1)..(Len(L) + 2) /\ Len(L) + 2 \in (Len(L) + 1)..(Len(L) + 2)
        /\ Len(L) + 1 - Len(L) = 1 /\ Len(L) + 2 - Len(L) = 2
    BY <1>6
  <2> QED BY <1>4, <1>6, <2>1
<1> DEFINE N == L \o M
           B == N \o <<End>>
<1>8. N \in Seq(Statements) /\ Len(N) = Len(L) + 2 /\ Len(L) \in Nat
      /\ (\A k \in 1..Len(L) : N[k] = L[k]) /\ N[Len(L) + 1] = Stamp /\ N[Len(L) + 2] = Fill
  BY <1>6, <1>7
<1> HIDE DEF N
<1>9. /\ B \in Seq(Statements) /\ Len(B) = Len(N) + 1 /\ B[Len(N) + 1] = End
      /\ \A k \in 1..Len(N) : B[k] = N[k]
  BY <1>2, <1>8, ConcatOne
<1>10. PgBoot = B
  BY <1>3 DEF B, N, L, M
<1> HIDE DEF B
<1>11. /\ Len(B) = Len(L) + 3 /\ B[Len(L) + 1] = Stamp /\ B[Len(L) + 2] = Fill
       /\ B[Len(L) + 3] = End /\ \A k \in 1..Len(L) : B[k] = L[k]
  <2>1. /\ Len(L) + 1 \in 1..Len(N) /\ Len(L) + 2 \in 1..Len(N) /\ Len(N) + 1 = Len(L) + 3
        /\ \A k \in 1..Len(L) : k \in 1..Len(N)
    BY <1>8
  <2> QED BY <1>8, <1>9, <2>1
<1>12. \A k \in 1..Len(L) : L[k] \in Elems(L)
  BY DEF Elems
<1>13. \A s \in Elems(L) : \E k \in 1..Len(L) : L[k] = s
  BY DEF Elems
<1> QED BY <1>8, <1>9, <1>10, <1>11, <1>12, <1>13 DEF L

\* The columns of the Postgres list.
LEMMA PgColumnsAre ==
    /\ \A s \in Elems(PgDdl) : s.op = "guarded column" => <<s.table, s.name>> \in PgColumns
    /\ \A x \in PgColumns : \E s \in Elems(PgDdl) :
          s.op = "guarded column" /\ x = <<s.table, s.name>>
    /\ \A x \in PgColumns : x[1] \in PgTables
    /\ \A x \in PgColumns : x \in SqliteColumns
                            \/ x[2] \in {"subject_keys", "provenance", "entity_type"}
<1>1. DOMAIN PgDdl = 1..Len(PgDdl)
  <2>1. PgDdl \in Seq(Statements)
    BY PgDdlIs DEF PgSteps
  <2> QED BY <2>1
<1>2. ASSUME NEW s \in Elems(PgDdl), s.op = "guarded column"
      PROVE  <<s.table, s.name>> \in PgColumns
  <2>1. PICK k \in 1..Len(PgDdl) : s = PgDdl[k]
    BY DEF Elems
  <2> QED BY <1>1, <1>2, <2>1 DEF PgColumns
<1>3. ASSUME NEW x \in PgColumns
      PROVE  \E s \in Elems(PgDdl) : s.op = "guarded column" /\ x = <<s.table, s.name>>
  <2>1. PICK k \in 1..Len(PgDdl) : PgDdl[k].op = "guarded column"
                                    /\ x = <<PgDdl[k].table, PgDdl[k].name>>
    BY <1>1 DEF PgColumns
  <2>2. PgDdl[k] \in Elems(PgDdl)
    BY DEF Elems
  <2> QED BY <2>1, <2>2
<1>4. ASSUME NEW x \in PgColumns
      PROVE  /\ x[1] \in PgTables
             /\ x \in SqliteColumns \/ x[2] \in {"subject_keys", "provenance", "entity_type"}
  <2>1. PICK s \in Elems(PgDdl) : s.op = "guarded column" /\ x = <<s.table, s.name>>
    BY <1>3
  <2>2. PgLegal(s) /\ GuardedName(s)
    BY <2>1, PgElems
  <2>3. s.table \in PgTables
    BY <2>1, <2>2 DEF PgLegal
  <2>4. x[1] = s.table /\ x[2] = s.name
    BY <2>1
  <2>5. x \in SqliteColumns \/ x[2] \in {"subject_keys", "provenance", "entity_type"}
    BY <2>1, <2>2, <2>4 DEF GuardedName
  <2> QED BY <2>3, <2>4, <2>5
<1> QED BY <1>2, <1>3, <1>4

----------------------------------------------------------------------------
(* The databases.                                                          *)

LEMMA ProperCore ==
    ASSUME NEW s \in Statements, NEW v, Legal(s, v),
           s.op = "add column" => <<s.table, s.name>> \in SqliteColumns
    PROVE  Proper("sqlite", s)
<1>1. /\ s.op # "guarded column" /\ s.op # "fill"
      /\ s.op = "create table" => s.table \in SqliteTables
      /\ Ensures(s) \/ Drops(s) \/ Makes(s) \/ s.op = "rebuild" => s.table \in Indexed
      /\ OnTriggers(s) => s.name \in Triggers
  BY DEF Legal, Columns, Ensures, Drops, Makes
<1>2. TablesOf("sqlite") = SqliteTables /\ ColumnsBy("sqlite") = SqliteColumns
  BY DEF TablesOf, ColumnsBy
<1> QED BY <1>1, <1>2 DEF Proper

LEMMA ProperOther ==
    /\ Proper("sqlite", End) /\ Proper("sqlite", Fill) /\ \A f : Proper("sqlite", StampOf(f))
    /\ Proper("postgres", End) /\ Proper("postgres", Fill) /\ Proper("postgres", Stamp)
<1>1. End \in Statements /\ Fill \in Statements /\ Stamp \in Statements
      /\ \A f : StampOf(f) \in Statements
  <2>1. Stamp \in Statements
    BY DEF Stamp, Statement, Statements, Ops, Hows, Tables, Names
  <2> QED BY <2>1, BootStatements
<1>2. Stamp.op = "stamp"
  BY DEF Stamp, Statement
<1>3. ASSUME NEW s \in Statements, NEW b,
             b = "sqlite" => s.op = "commit" \/ s.op = "insert version" \/ s.op = "update version" \/ s.op = "fill",
             b = "postgres" => s.op = "commit" \/ s.op = "stamp" \/ s.op = "fill",
             b = "sqlite" \/ b = "postgres", s.op = "fill" => s.table = "entries"
      PROVE  Proper(b, s)
  BY <1>3 DEF Proper, Ensures, Drops, Makes, OnTriggers
<1>4. ASSUME NEW f PROVE Proper("sqlite", StampOf(f))
  BY <1>1, <1>3, StampFields
<1> QED BY <1>1, <1>2, <1>3, <1>4, EndFields, FillFields

LEMMA SeqAt ==
    ASSUME NEW L \in Seq(Statements), NEW k \in 1..Len(L)
    PROVE  L[k] \in Statements
  OBVIOUS

LEMMA SqliteProper ==
    ASSUME NEW f \in {Unread} \cup 0..19, NEW k \in 1..Len(SqliteBoot[f])
    PROVE  Proper("sqlite", SqliteBoot[f][k])
<1> DEFINE s == SqliteBoot[f][k]
<1>0. s \in Statements
  <2>1. SqliteBoot[f] \in Seq(Statements)
    BY BootPrefix
  <2> QED BY <2>1, SeqAt
<1>1. CASE s \in Elems(CoreScript)
  <2>1. Core(s) /\ Legal(s, 19)
    BY <1>1, CoreElems
  <2>2. s.op # "add column"
    BY <2>1 DEF Core, Ensures
  <2> HIDE DEF s
  <2>3. Proper("sqlite", s)
    BY <1>0, <2>1, <2>2, ProperCore
  <2> QED BY <2>3 DEF s
<1>2. CASE s = End
  BY <1>2, ProperOther
<1>3. CASE f \in 1..18 /\ s \in Elems(Migrated(f))
  <2>1. Legal(s, f)
    BY <1>3, MigratedLegal
  <2>2. PICK n \in 1..18 : n >= f /\ s \in Elems(Migrations[n])
    BY <1>3, MigratedIs
  <2>3. s.op = "add column" => <<s.table, s.name>> \in ColumnsOf(Migrations[n])
    BY <2>2, AddedColumns
  <2>4. s.op = "add column" => <<s.table, s.name>> \in SqliteColumns
    BY <2>3, AddedColumns
  <2> HIDE DEF s
  <2>5. Proper("sqlite", s)
    BY <1>0, <2>1, <2>4, ProperCore
  <2> QED BY <2>5 DEF s
<1>4. CASE s = StampOf(f)
  BY <1>4, ProperOther
<1>5. CASE s = Fill
  BY <1>5, ProperOther
<1> QED BY <1>1, <1>2, <1>3, <1>4, <1>5, BootAt

LEMMA PgProper ==
    ASSUME NEW k \in 1..Len(PgBoot)
    PROVE  Proper("postgres", PgBoot[k])
<1>1. CASE k \in 1..Len(PgDdl)
  <2> DEFINE s == PgBoot[k]
  <2>1. s \in Elems(PgDdl) /\ s \in Statements
    BY <1>1, PgBootAt
  <2>2. PgLegal(s)
    BY <2>1, PgElems
  <2>3. s.op = "guarded column" => <<s.table, s.name>> \in PgColumns
    BY <2>1, PgColumnsAre
  <2> HIDE DEF s
  <2>4. TablesOf("postgres") = PgTables /\ ColumnsBy("postgres") = PgColumns
    BY DEF TablesOf, ColumnsBy, PgTables
  <2>5. "rules" \in Indexed /\ "entries" \in Indexed
    BY SqliteLiterals
  <2>6. s.op = "create table" \/ s.op = "guarded column"
    BY <2>2 DEF PgLegal
  <2>7. /\ s.op = "create table" => s.table \in PgTables
        /\ s.op = "guarded column" /\ s.name \in {"content", "facets_text"} => s.table \in Indexed
    BY <2>2, <2>5 DEF PgLegal
  <2>8. ~Ensures(s) /\ ~Drops(s) /\ ~Makes(s) /\ s.op # "rebuild" /\ ~OnTriggers(s) /\ s.op # "fill"
        /\ s.op # "add column"
    BY <2>6 DEF Ensures, Drops, Makes, OnTriggers
  <2>9. Proper("postgres", s)
    BY <2>1, <2>3, <2>4, <2>6, <2>7, <2>8 DEF Proper
  <2> QED BY <2>9 DEF s
<1>2. CASE k \notin 1..Len(PgDdl)
  <2>1. k = Len(PgDdl) + 1 \/ k = Len(PgDdl) + 2 \/ k = Len(PgDdl) + 3
    BY <1>2, PgBootAt
  <2> QED BY <2>1, PgBootAt, ProperOther
<1> QED BY <1>1, <1>2

----------------------------------------------------------------------------
(* What each kind of statement makes of a database.                        *)

LEMMA ApplyTable ==
    ASSUME NEW s, NEW d, NEW m, s.op = "create table"
    PROVE  Apply(s, d, m) =
              IF s.table \in d.tables THEN d
              ELSE With(d, d.tables \cup {s.table}, d.columns \cup ColumnsIn(s.table),
                        TableIndex(d, s.table))
  BY DEF Apply, With, ColumnsIn, TableIndex, Indexing

LEMMA ApplyColumn ==
    ASSUME NEW s, NEW b, NEW d \in Databases(b), NEW m, s.op = "add column"
    PROVE  /\ ~m => Apply(s, d, m) = d
           /\ m => Apply(s, d, m) =
                      With(d, d.tables, d.columns \cup {<<s.table, s.name>>}, d.index)
<1>1. ~m => Apply(s, d, m) = d
  BY DEF Apply
<1>2. m => Apply(s, d, m) = [d EXCEPT !.columns = d.columns \cup {<<s.table, s.name>>}]
  BY DEF Apply
<1>3. \A X : [d EXCEPT !.columns = X] = With(d, d.tables, X, d.index)
  BY DEF With, Databases
<1> QED BY <1>1, <1>2, <1>3

LEMMA ApplyGuarded ==
    ASSUME NEW s, NEW b, NEW d \in Databases(b), NEW m, s.op = "guarded column"
    PROVE  Apply(s, d, m) =
              With(d, d.tables, d.columns \cup {<<s.table, s.name>>}, GuardedIndex(d, s))
<1>1. Apply(s, d, m) =
         [d EXCEPT !.columns = d.columns \cup {<<s.table, s.name>>}, !.index = GuardedIndex(d, s)]
  BY DEF Apply, GuardedIndex, Widening
<1>2. \A X, I : [d EXCEPT !.columns = X, !.index = I] = With(d, d.tables, X, I)
  BY DEF With, Databases
<1> QED BY <1>1, <1>2

LEMMA ApplyMake ==
    ASSUME NEW s, NEW d, NEW m
    PROVE  /\ s.op = "create fts" => Apply(s, d, m) = Made(d, s.table, TRUE)
           /\ s.op = "create narrow fts" => Apply(s, d, m) = Made(d, s.table, FALSE)
           /\ s.op = "ensure fts" =>
                 Apply(s, d, m) = IF d.index[s.table].there THEN d ELSE Made(d, s.table, TRUE)
           /\ s.op = "drop fts" => Apply(s, d, m) = [d EXCEPT !.index[s.table] = NoIndex]
<1>1. CASE s.op = "create fts"
  BY <1>1 DEF Apply, Made
<1>2. CASE s.op = "create narrow fts"
  BY <1>2 DEF Apply, Made
<1>3. CASE s.op = "ensure fts"
  BY <1>3 DEF Apply, Made
<1>4. CASE s.op = "drop fts"
  BY <1>4 DEF Apply, Made
<1> QED BY <1>1, <1>2, <1>3, <1>4

LEMMA ApplyRebuild ==
    ASSUME NEW s, NEW d, NEW m, s.op = "rebuild"
    PROVE  Apply(s, d, m) =
              [d EXCEPT !.index[s.table].rows =
                  IF s.table = "entries" THEN d.rows[s.table] \ d.unfilled
                  ELSE d.rows[s.table]]
  BY DEF Apply

LEMMA ApplyTrigger ==
    ASSUME NEW s, NEW d, NEW m
    PROVE  /\ s.op = "drop trigger" => Apply(s, d, m) = Hung(d, s.table, s.name, "none")
           /\ s.op = "create trigger" => Apply(s, d, m) = Hung(d, s.table, s.name, "wide")
           /\ s.op = "create narrow trigger" =>
                 Apply(s, d, m) = Hung(d, s.table, s.name, "narrow")
           /\ s.op = "ensure trigger" =>
                 Apply(s, d, m) = IF d.triggers[s.table][s.name] = "none"
                                  THEN Hung(d, s.table, s.name, "wide") ELSE d
<1>1. CASE s.op = "drop trigger"
  BY <1>1 DEF Apply, Hung
<1>2. CASE s.op = "create trigger"
  BY <1>2 DEF Apply, Hung
<1>3. CASE s.op = "create narrow trigger"
  BY <1>3 DEF Apply, Hung
<1>4. CASE s.op = "ensure trigger"
  BY <1>4 DEF Apply, Hung
<1> QED BY <1>1, <1>2, <1>3, <1>4

LEMMA ApplyVersion ==
    ASSUME NEW s, NEW d, NEW m, Versions(s)
    PROVE  Apply(s, d, m) = [d EXCEPT !.version = CORE_VERSION]
  BY DEF Apply, Versions

LEMMA ApplyFill ==
    ASSUME NEW s, NEW d, NEW m, s.op = "fill"
    PROVE  Apply(s, d, m) =
              [d EXCEPT !.unfilled = {},
                        !.index[s.table].rows = IF d.triggers[s.table]["au"] = "wide"
                                                THEN @ \cup d.unfilled ELSE @]
  BY DEF Apply

LEMMA ApplyNothing ==
    ASSUME NEW s, NEW d, NEW m,
           s.op = "has column" \/ s.op = "read version" \/ s.op = "commit"
    PROVE  Apply(s, d, m) = d
  BY DEF Apply

LEMMA OpCases ==
    ASSUME NEW s \in Statements
    PROVE  \/ s.op = "create table" \/ s.op = "add column" \/ s.op = "guarded column"
           \/ s.op = "create fts" \/ s.op = "create narrow fts" \/ s.op = "ensure fts"
           \/ s.op = "drop fts" \/ s.op = "rebuild" \/ OnTriggers(s) \/ Versions(s)
           \/ s.op = "fill"
           \/ s.op = "has column" \/ s.op = "read version" \/ s.op = "commit"
  BY DEF Statements, Ops, OnTriggers, Versions

LEMMA CoreVersion == CORE_VERSION = 19 /\ CORE_VERSION \in 0..19
  BY DEF CORE_VERSION

LEMMA MadeSound ==
    ASSUME NEW b, NEW d, Sound(b, d), NEW t \in Indexed, NEW w \in BOOLEAN
    PROVE  Sound(b, Made(d, t, w))
<1>1. d \in Databases(b)
  BY DEF Sound
<1> DEFINE e == Made(d, t, w)
<1>2. /\ e.index = [d.index EXCEPT ![t] = [there |-> TRUE, wide |-> w, stemmed |-> TRUE,
                                           rows |-> {}]]
      /\ e.rows = d.rows /\ e.unfilled = d.unfilled
  BY <1>1 DEF Made, Databases
<1>3. e \in Databases(b)
  BY <1>1 DEF Made, Databases, Shapes
<1> HIDE DEF e
<1>4. \A u \in Indexed :
         \/ e.index[u] = d.index[u]
         \/ e.index[u].there /\ e.index[u].rows = {}
  BY <1>1, <1>2 DEF Databases
<1>5. Sound(b, e)
  BY <1>2, <1>3, <1>4 DEF Sound
<1> QED BY <1>5 DEF e

LEMMA NoneSound ==
    ASSUME NEW b, NEW d, Sound(b, d), NEW t \in Indexed
    PROVE  Sound(b, [d EXCEPT !.index[t] = NoIndex])
<1>1. d \in Databases(b)
  BY DEF Sound
<1> DEFINE e == [d EXCEPT !.index[t] = NoIndex]
<1>2. /\ e.index = [d.index EXCEPT ![t] = NoIndex]
      /\ e.rows = d.rows /\ e.unfilled = d.unfilled
  BY <1>1 DEF Databases
<1>3. e \in Databases(b)
  BY <1>1 DEF NoIndex, Databases, Shapes
<1> HIDE DEF e
<1>4. \A u \in Indexed : e.index[u] = d.index[u] \/ e.index[u].rows = {}
  BY <1>1, <1>2 DEF Databases, NoIndex
<1>5. Sound(b, e)
  BY <1>2, <1>3, <1>4 DEF Sound
<1> QED BY <1>5 DEF e

LEMMA HungSound ==
    ASSUME NEW b, NEW d, Sound(b, d), NEW t \in Indexed, NEW x \in Triggers, NEW k \in Kinds
    PROVE  Sound(b, Hung(d, t, x, k))
<1>1. d \in Databases(b)
  BY DEF Sound
<1> DEFINE e == Hung(d, t, x, k)
<1>2. e.index = d.index /\ e.rows = d.rows /\ e.unfilled = d.unfilled
  BY <1>1 DEF Hung, Databases
<1>3. e \in Databases(b)
  BY <1>1 DEF Hung, Databases
<1> HIDE DEF e
<1>5. Sound(b, e)
  BY <1>2, <1>3 DEF Sound
<1> QED BY <1>5 DEF e

\* A change that leaves rows and the rows of indexes alone.
LEMMA OtherSound ==
    ASSUME NEW b, NEW d, Sound(b, d), NEW e \in Databases(b),
           e.rows = d.rows, e.unfilled = d.unfilled,
           \A t \in Indexed : e.index[t].rows = d.index[t].rows
                              /\ (d.index[t].there => e.index[t].there)
    PROVE  Sound(b, e)
  BY DEF Sound

LEMMA VersionSound ==
    ASSUME NEW b, NEW d, Sound(b, d)
    PROVE  Sound(b, [d EXCEPT !.version = CORE_VERSION])
<1>1. d \in Databases(b)
  BY DEF Sound
<1> DEFINE e == [d EXCEPT !.version = CORE_VERSION]
<1>2. e.index = d.index /\ e.rows = d.rows /\ e.unfilled = d.unfilled
  BY <1>1 DEF Databases
<1>3. e \in Databases(b)
  BY <1>1, CoreVersion DEF Databases
<1> HIDE DEF e
<1>5. Sound(b, e)
  BY <1>2, <1>3, OtherSound
<1> QED BY <1>5 DEF e

\* New rows of an index, of its table.
LEMMA RowsSound ==
    ASSUME NEW b, NEW d, Sound(b, d), NEW t \in Indexed, NEW S \in SUBSET d.rows[t],
           NEW F, F = d.unfilled \/ F = {},
           b = "sqlite" => d.index[t].there \/ S = {}
    PROVE  Sound(b, [d EXCEPT !.unfilled = F, !.index[t].rows = S])
<1>1. d \in Databases(b)
  BY DEF Sound
<1> DEFINE e == [d EXCEPT !.unfilled = F, !.index[t].rows = S]
<1>2. /\ e.index = [d.index EXCEPT ![t] = [d.index[t] EXCEPT !.rows = S]]
      /\ e.rows = d.rows /\ e.unfilled = F
  BY <1>1 DEF Databases
<1>3. S \in SUBSET Rows /\ F \in SUBSET Rows
  BY <1>1 DEF Databases
<1>4. e.index \in [Indexed -> Shapes]
  BY <1>1, <1>2, <1>3 DEF Databases, Shapes
<1>5. e \in Databases(b)
  BY <1>1, <1>2, <1>3, <1>4 DEF Databases
<1>6. /\ e.index[t].rows = S /\ e.index[t].there = d.index[t].there
      /\ \A u \in Indexed \ {t} : e.index[u] = d.index[u]
  BY <1>1, <1>2 DEF Databases, Shapes
<1> HIDE DEF e
<1>7. Sound(b, e)
  BY <1>2, <1>5, <1>6 DEF Sound
<1> QED BY <1>7 DEF e

LEMMA WiderShapes ==
    ASSUME NEW f \in [Indexed -> Shapes], NEW t \in Indexed
    PROVE  /\ Indexing(f, t) \in [Indexed -> Shapes]
           /\ Widening(f, t) \in [Indexed -> Shapes]
           /\ \A u \in Indexed :
                 /\ Indexing(f, t)[u].rows = f[u].rows
                 /\ f[u].there => Indexing(f, t)[u].there
                 /\ f[u].wide => Indexing(f, t)[u].wide
                 /\ Widening(f, t)[u].rows = f[u].rows
                 /\ Widening(f, t)[u].there = f[u].there
                 /\ f[u].wide => Widening(f, t)[u].wide
           /\ Indexing(f, t)[t].there
           /\ Indexing(f, t)[t].wide
           /\ Widening(f, t)[t].wide
<1> DEFINE a == [f[t] EXCEPT !.there = TRUE, !.wide = TRUE]
           b == [f[t] EXCEPT !.wide = TRUE]
           g == [f EXCEPT ![t] = a]
           h == [f EXCEPT ![t] = b]
<1>1. a \in Shapes /\ a.there /\ a.wide /\ a.rows = f[t].rows
  BY DEF Shapes
<1>2. b \in Shapes /\ b.wide /\ b.there = f[t].there /\ b.rows = f[t].rows
  BY DEF Shapes
<1>3. g = Indexing(f, t)
  BY DEF Indexing
<1>4. h = Widening(f, t)
  BY DEF Widening
<1> HIDE DEF a, b
<1>5. g[t] = a /\ h[t] = b /\ \A u \in Indexed \ {t} : g[u] = f[u] /\ h[u] = f[u]
  OBVIOUS
<1>6. g \in [Indexed -> Shapes] /\ h \in [Indexed -> Shapes]
  BY <1>1, <1>2
<1> HIDE DEF g, h
<1>7. /\ \A u \in Indexed :
            /\ g[u].rows = f[u].rows /\ (f[u].there => g[u].there) /\ (f[u].wide => g[u].wide)
            /\ h[u].rows = f[u].rows /\ h[u].there = f[u].there /\ (f[u].wide => h[u].wide)
      /\ g[t].there /\ g[t].wide /\ h[t].wide
  BY <1>1, <1>2, <1>5
<1> QED BY <1>3, <1>4, <1>6, <1>7

\* New tables and columns, and indexes with the same rows.
LEMMA TableSound ==
    ASSUME NEW b, NEW d, Sound(b, d), NEW Y \in SUBSET TablesOf(b),
           NEW X \in SUBSET ColumnsBy(b), NEW I \in [Indexed -> Shapes],
           \A u \in Indexed : I[u].rows = d.index[u].rows /\ (d.index[u].there => I[u].there)
    PROVE  Sound(b, With(d, Y, X, I))
<1>1. d \in Databases(b)
  BY DEF Sound
<1> DEFINE e == With(d, Y, X, I)
<1>2. e.index = I /\ e.rows = d.rows /\ e.unfilled = d.unfilled
  BY <1>1 DEF Databases, With
<1>4. e \in Databases(b)
  BY <1>1 DEF Databases, With
<1> HIDE DEF e
<1>5. Sound(b, e)
  BY <1>2, <1>4, OtherSound
<1> QED BY <1>5 DEF e

LEMMA TableIndexType ==
    ASSUME NEW d, d.index \in [Indexed -> Shapes], NEW t
    PROVE  /\ TableIndex(d, t) \in [Indexed -> Shapes]
           /\ \A u \in Indexed :
                 /\ TableIndex(d, t)[u].rows = d.index[u].rows
                 /\ d.index[u].there => TableIndex(d, t)[u].there
                 /\ d.index[u].wide => TableIndex(d, t)[u].wide
           /\ backend = "postgres" /\ t \in Indexed =>
                 TableIndex(d, t)[t].there /\ TableIndex(d, t)[t].wide
           /\ backend # "postgres" => TableIndex(d, t) = d.index
<1>1. CASE backend = "postgres" /\ t \in Indexed
  <2>1. TableIndex(d, t) = Indexing(d.index, t)
    BY <1>1 DEF TableIndex
  <2> QED BY <1>1, <2>1, WiderShapes
<1>2. CASE ~(backend = "postgres" /\ t \in Indexed)
  <2>1. TableIndex(d, t) = d.index
    BY <1>2 DEF TableIndex
  <2> QED BY <1>2, <2>1
<1> QED BY <1>1, <1>2

LEMMA GuardedIndexType ==
    ASSUME NEW d, d.index \in [Indexed -> Shapes], NEW s,
           s.name \in {"content", "facets_text"} => s.table \in Indexed
    PROVE  /\ GuardedIndex(d, s) \in [Indexed -> Shapes]
           /\ \A u \in Indexed :
                 /\ GuardedIndex(d, s)[u].rows = d.index[u].rows
                 /\ d.index[u].there => GuardedIndex(d, s)[u].there
                 /\ d.index[u].wide => GuardedIndex(d, s)[u].wide
           /\ s.name \in {"content", "facets_text"} => GuardedIndex(d, s)[s.table].wide
<1>1. CASE s.name \in {"content", "facets_text"}
  <2>1. GuardedIndex(d, s) = Widening(d.index, s.table)
    BY <1>1 DEF GuardedIndex
  <2> QED BY <1>1, <2>1, WiderShapes
<1>2. CASE s.name \notin {"content", "facets_text"}
  <2>1. GuardedIndex(d, s) = d.index
    BY <1>2 DEF GuardedIndex
  <2> QED BY <1>2, <2>1
<1> QED BY <1>1, <1>2

LEMMA ApplySound ==
    ASSUME backend \in {"sqlite", "postgres"}, NEW s, Proper(backend, s),
           NEW d, Sound(backend, d), NEW m, ~Raises(s, d, m)
    PROVE  Sound(backend, Apply(s, d, m))
<1>1. s \in Statements
  BY DEF Proper
<1>0. d \in Databases(backend) /\ d.index \in [Indexed -> Shapes]
      /\ d.tables \in SUBSET TablesOf(backend) /\ d.columns \in SUBSET ColumnsBy(backend)
  BY DEF Sound, Databases
<1>2. CASE s.op = "create table"
  <2>1. CASE s.table \in d.tables
    BY <1>2, <2>1, ApplyTable
  <2>2. CASE s.table \notin d.tables
    <3>1. s.table \in TablesOf(backend)
      BY <1>2 DEF Proper
    <3> DEFINE Y == d.tables \cup {s.table}
               X == d.columns \cup ColumnsIn(s.table)
               I == TableIndex(d, s.table)
    <3>2. Apply(s, d, m) = With(d, Y, X, I)
      BY <1>2, <2>2, ApplyTable
    <3>3. X \in SUBSET ColumnsBy(backend) /\ Y \in SUBSET TablesOf(backend)
      BY <1>0, <3>1 DEF ColumnsIn
    <3>4. /\ I \in [Indexed -> Shapes]
          /\ \A u \in Indexed : I[u].rows = d.index[u].rows /\ (d.index[u].there => I[u].there)
      BY <1>0, TableIndexType
    <3> HIDE DEF X, Y, I
    <3>5. Sound(backend, With(d, Y, X, I))
      BY <3>3, <3>4, TableSound
    <3> QED BY <3>2, <3>5
  <2> QED BY <2>1, <2>2
<1>3. CASE s.op = "add column"
  <2> DEFINE X == d.columns \cup {<<s.table, s.name>>}
  <2>1. X \in SUBSET ColumnsBy(backend)
    BY <1>0, <1>3 DEF Proper
  <2>2. Apply(s, d, m) = d \/ Apply(s, d, m) = With(d, d.tables, X, d.index)
    BY <1>0, <1>3, ApplyColumn
  <2> HIDE DEF X
  <2>3. Sound(backend, With(d, d.tables, X, d.index))
    BY <1>0, <2>1, TableSound
  <2> QED BY <2>2, <2>3
<1>4. CASE s.op = "guarded column"
  <2> DEFINE X == d.columns \cup {<<s.table, s.name>>}
             I == GuardedIndex(d, s)
  <2>1. X \in SUBSET ColumnsBy(backend)
    BY <1>0, <1>4 DEF Proper
  <2>2. Apply(s, d, m) = With(d, d.tables, X, I)
    BY <1>0, <1>4, ApplyGuarded
  <2>3. s.name \in {"content", "facets_text"} => s.table \in Indexed
    BY <1>4 DEF Proper
  <2>4. /\ I \in [Indexed -> Shapes]
        /\ \A u \in Indexed : I[u].rows = d.index[u].rows /\ (d.index[u].there => I[u].there)
    BY <1>0, <2>3, GuardedIndexType
  <2> HIDE DEF X, I
  <2>5. Sound(backend, With(d, d.tables, X, I))
    BY <1>0, <2>1, <2>4, TableSound
  <2> QED BY <2>2, <2>5
<1>5. CASE s.op = "create fts" \/ s.op = "create narrow fts" \/ s.op = "ensure fts"
            \/ s.op = "drop fts"
  <2>1. s.table \in Indexed
    BY <1>5 DEF Proper, Makes, Ensures, Drops
  <2>2. \/ Apply(s, d, m) = d \/ Apply(s, d, m) = Made(d, s.table, TRUE)
        \/ Apply(s, d, m) = Made(d, s.table, FALSE)
        \/ Apply(s, d, m) = [d EXCEPT !.index[s.table] = NoIndex]
    BY <1>5, ApplyMake
  <2>3. Sound(backend, Made(d, s.table, TRUE)) /\ Sound(backend, Made(d, s.table, FALSE))
    BY <2>1, MadeSound
  <2>4. Sound(backend, [d EXCEPT !.index[s.table] = NoIndex])
    BY <2>1, NoneSound
  <2> QED BY <2>2, <2>3, <2>4
<1>6. CASE s.op = "rebuild"
  <2> DEFINE t == s.table
             S == IF s.table = "entries" THEN d.rows[s.table] \ d.unfilled ELSE d.rows[s.table]
  <2>1. t \in Indexed
    BY <1>6 DEF Proper
  <2>2. d.index[t].there
    BY <1>6 DEF Raises
  <2>3. S \in SUBSET d.rows[t]
    OBVIOUS
  <2>4. Apply(s, d, m) = [d EXCEPT !.index[t].rows = S]
    BY <1>6, ApplyRebuild
  <2>5. [d EXCEPT !.index[t].rows = S] = [d EXCEPT !.unfilled = d.unfilled, !.index[t].rows = S]
    BY DEF Sound, Databases
  <2> HIDE DEF t, S
  <2>6. Sound(backend, [d EXCEPT !.unfilled = d.unfilled, !.index[t].rows = S])
    BY <2>1, <2>2, <2>3, RowsSound
  <2> QED BY <2>4, <2>5, <2>6
<1>7. CASE OnTriggers(s)
  <2>1. s.table \in Indexed /\ s.name \in Triggers
    BY <1>7 DEF Proper, OnTriggers, Makes, Ensures, Drops
  <2>2. \/ Apply(s, d, m) = d \/ Apply(s, d, m) = Hung(d, s.table, s.name, "none")
        \/ Apply(s, d, m) = Hung(d, s.table, s.name, "wide")
        \/ Apply(s, d, m) = Hung(d, s.table, s.name, "narrow")
    BY <1>7, ApplyTrigger DEF OnTriggers
  <2> QED BY <2>1, <2>2, HungSound DEF Kinds
<1>8. CASE Versions(s)
  BY <1>8, ApplyVersion, VersionSound
<1>9. CASE s.op = "fill"
  <2>1. s.table = "entries" /\ "entries" \in Indexed
    BY <1>9, SqliteLiterals DEF Proper
  <2> DEFINE t == s.table
             S == IF d.triggers[t]["au"] = "wide" THEN d.index[t].rows \cup d.unfilled
                  ELSE d.index[t].rows
  <2>2. Apply(s, d, m) = [d EXCEPT !.unfilled = {}, !.index[t].rows = S]
    BY <1>9, ApplyFill
  <2>3. S \in SUBSET d.rows[t]
    BY <2>1 DEF Sound
  <2>4. backend = "sqlite" => d.index[t].there \/ S = {}
    <3>1. ASSUME backend = "sqlite", ~d.index[t].there PROVE S = {}
      <4>1. d.index[t].rows = {}
        BY <2>1, <3>1 DEF Sound
      <4>2. d.unfilled = {} \/ d.triggers[t]["au"] = "none"
        BY <1>9, <3>1 DEF Raises
      <4> QED BY <4>1, <4>2
    <3> QED BY <3>1
  <2>5. t \in Indexed
    BY <2>1
  <2> HIDE DEF t, S
  <2>6. Sound(backend, [d EXCEPT !.unfilled = {}, !.index[t].rows = S])
    BY <2>3, <2>4, <2>5, RowsSound
  <2> QED BY <2>2, <2>6
<1>10. CASE s.op = "has column" \/ s.op = "read version" \/ s.op = "commit"
  BY <1>10, ApplyNothing
<1> QED BY <1>1, <1>2, <1>3, <1>4, <1>5, <1>6, <1>7, <1>8, <1>9, <1>10, OpCases

----------------------------------------------------------------------------
(* Where the processes are.                                                *)

LEMMA UnreadIs == Unread = -1 /\ Unread \notin 0..19 /\ Unread \in Int
  BY DEF Unread

LEMMA BootList ==
    ASSUME NEW v, TypeInv(v), NEW p \in Procs
    PROVE  /\ backend = "sqlite" => Boot(p) = SqliteBoot[proc[p].from]
           /\ backend = "postgres" => Boot(p) = PgBoot
           /\ proc[p] \in Places /\ proc[p].from \in {Unread} \cup 0..19
           /\ Boot(p) \in Seq(Statements) /\ Len(Boot(p)) \in Nat
           /\ \A k \in 1..Len(Boot(p)) : Proper(backend, Boot(p)[k])
           /\ proc[p].at = "boot" => /\ proc[p].next \in 1..Len(Boot(p))
                                     /\ Proper(backend, Current(p))
<1>1. proc[p] \in Places /\ proc[p].from \in {Unread} \cup 0..19
  BY DEF TypeInv, Placed, Places
<1>2. CASE backend = "sqlite"
  <2>1. Boot(p) = SqliteBoot[proc[p].from]
    BY <1>2 DEF Boot
  <2>2. Boot(p) \in Seq(Statements) /\ Len(Boot(p)) \in Nat
    BY <1>1, <2>1, BootPrefix
  <2>3. \A k \in 1..Len(Boot(p)) : Proper(backend, Boot(p)[k])
    BY <1>1, <1>2, <2>1, SqliteProper
  <2>4. proc[p].at = "boot" => proc[p].next \in 1..Len(Boot(p))
    BY DEF TypeInv, Placed
  <2> QED BY <1>1, <1>2, <2>1, <2>2, <2>3, <2>4 DEF Current
<1>3. CASE backend = "postgres"
  <2>1. Boot(p) = PgBoot
    BY <1>3 DEF Boot
  <2>2. Boot(p) \in Seq(Statements) /\ Len(Boot(p)) \in Nat
    BY <2>1, PgBootAt
  <2>3. \A k \in 1..Len(Boot(p)) : Proper(backend, Boot(p)[k])
    BY <1>3, <2>1, PgProper
  <2>4. proc[p].at = "boot" => proc[p].next \in 1..Len(Boot(p))
    BY DEF TypeInv, Placed
  <2> QED BY <1>1, <1>3, <2>1, <2>2, <2>3, <2>4 DEF Current
<1> QED BY <1>2, <1>3 DEF TypeInv

LEMMA BootIsFrom == \A p : Boot(p) = BootFrom(proc[p].from)
  BY DEF Boot, BootFrom

LEMMA AdvanceIs ==
    ASSUME NEW p \in Procs, proc \in [Procs -> Places], Advance(p)
    PROVE  /\ proc' = [proc EXCEPT ![p] = IF Ends(p) THEN Served ELSE NextPlace(p)]
           /\ proc'[p] = IF Ends(p) THEN Served ELSE NextPlace(p)
           /\ \A q \in Procs \ {p} : proc'[q] = proc[q]
<1>1. CASE Ends(p)
  <2>1. proc' = [proc EXCEPT ![p] = Served]
    BY <1>1 DEF Advance, Ends, Served
  <2> QED BY <1>1, <2>1
<1>2. CASE ~Ends(p)
  <2>1. proc' = [proc EXCEPT ![p] = NextPlace(p)]
    BY <1>2, Zenon DEF Advance, Ends, NextPlace
  <2> QED BY <1>2, <2>1
<1> QED BY <1>1, <1>2

LEMMA NextFields ==
    ASSUME NEW r \in Places, NEW f, NEW m \in BOOLEAN, NEW n \in Nat
    PROVE  /\ Goes(r, n, f, m).at = r.at /\ Goes(r, n, f, m).next = n
           /\ Goes(r, n, f, m).from = f /\ Goes(r, n, f, m).missing = m
           /\ (f \in {Unread} \cup 0..19 => Goes(r, n, f, m) \in Places)
<1> DEFINE q == Goes(r, n, f, m)
<1>1. q.at = r.at /\ q.next = n /\ q.from = f /\ q.missing = m
  BY DEF Places, Goes
<1>2. ASSUME f \in {Unread} \cup 0..19 PROVE q \in Places
  BY <1>2 DEF Places, Goes
<1> QED BY <1>1, <1>2

LEMMA PlaceFields ==
    ASSUME NEW p \in Procs, proc[p] \in Places
    PROVE  /\ NextPlace(p).at = proc[p].at /\ NextPlace(p).next = proc[p].next + 1
           /\ NextPlace(p).from = IF Current(p).op = "read version" /\ proc[p].from = Unread
                                  THEN db.version ELSE proc[p].from
           /\ NextPlace(p).missing = (Current(p).op = "has column"
                 /\ <<Current(p).table, Current(p).name>> \notin Sees(p).columns)
           /\ (NextPlace(p).from \in {Unread} \cup 0..19 => NextPlace(p) \in Places)
           /\ Served.at = "serving" /\ Served.from = Unread /\ Served.next = 1
           /\ Served \in Places
           /\ Down.at = "down" /\ Down.from = Unread /\ Down.next = 1 /\ Down \in Places
<1> DEFINE f == IF Current(p).op = "read version" /\ proc[p].from = Unread
                THEN db.version ELSE proc[p].from
           m == Current(p).op = "has column"
                   /\ <<Current(p).table, Current(p).name>> \notin Sees(p).columns
           q == [proc[p] EXCEPT !.next = proc[p].next + 1, !.from = f, !.missing = m]
<1>1. m \in BOOLEAN
  OBVIOUS
<1>2. NextPlace(p) = q
  BY DEF NextPlace
<1> HIDE DEF f, m
<1>3. q.at = proc[p].at /\ q.next = proc[p].next + 1 /\ q.from = f /\ q.missing = m
      /\ (f \in {Unread} \cup 0..19 => q \in Places)
  <2> DEFINE n == proc[p].next + 1
  <2>1. n \in Nat
    BY DEF Places
  <2> HIDE DEF n
  <2>2. q = Goes(proc[p], n, f, m)
    BY DEF n, Goes
  <2> HIDE DEF q
  <2>3. q.at = proc[p].at /\ q.next = n /\ q.from = f /\ q.missing = m
        /\ (f \in {Unread} \cup 0..19 => q \in Places)
    BY <1>1, <2>1, <2>2, NextFields
  <2> QED BY <2>3 DEF n
<1> HIDE DEF q
<1>5. /\ Served.at = "serving" /\ Served.from = Unread /\ Served.next = 1
      /\ Down.at = "down" /\ Down.from = Unread /\ Down.next = 1
  BY DEF Served, Down
<1>6. Served \in Places /\ Down \in Places
  BY DEF Served, Down, Places
<1> QED BY <1>2, <1>3, <1>5, <1>6 DEF f, m

\* One statement further, the list is the same up to it.
LEMMA BootMoves ==
    ASSUME NEW v, TypeInv(v), NEW p \in Procs, proc[p].at = "boot", ~Ends(p)
    PROVE  /\ NextPlace(p).from \in {Unread, v, 19}
           /\ NextPlace(p).from \in {Unread} \cup 0..19
           /\ backend = "postgres" => NextPlace(p).from = Unread
           /\ proc[p].next + 1 \in 1..Len(BootFrom(NextPlace(p).from))
           /\ BootFrom(NextPlace(p).from) \in Seq(Statements)
           /\ \A k \in 1..proc[p].next : BootFrom(NextPlace(p).from)[k] = Boot(p)[k]
<1> DEFINE f == NextPlace(p).from
           L == BootFrom(f)
           k == proc[p].next
<1>1. proc[p] \in Places /\ k \in 1..Len(Boot(p)) /\ Len(Boot(p)) \in Nat
      /\ Proper(backend, Current(p)) /\ Boot(p) \in Seq(Statements)
  BY BootList
<1>2. f = IF Current(p).op = "read version" /\ proc[p].from = Unread THEN db.version
          ELSE proc[p].from
  BY <1>1, PlaceFields
<1>3. /\ proc[p].from \in {Unread, v, 19} /\ db.version \in {v, 19} /\ v \in 0..19
      /\ backend = "postgres" => proc[p].from = Unread
      /\ backend \in {"sqlite", "postgres"}
  BY DEF TypeInv, Placed
<1>4. f \in {Unread, v, 19} /\ f \in {Unread} \cup 0..19
  <2> HIDE DEF f
  <2>1. f = db.version \/ f = proc[p].from
    BY <1>2
  <2>2. f \in {Unread, v, 19}
    BY <1>3, <2>1
  <2> QED BY <1>3, <2>2
<1>5. backend = "postgres" => Current(p).op # "read version"
  BY <1>1 DEF Proper
<1>6. CASE backend = "postgres"
  <2>1. f = Unread
    BY <1>2, <1>3, <1>5, <1>6
  <2>2. L = PgBoot /\ Boot(p) = PgBoot
    BY <1>6 DEF Boot, BootFrom
  <2>3. k # Len(Boot(p))
    BY <1>5, <1>6 DEF Ends
  <2> QED BY <1>1, <1>4, <2>1, <2>2, <2>3
<1>7. CASE backend = "sqlite"
  <2>0. L = SqliteBoot[f] /\ Boot(p) = SqliteBoot[proc[p].from]
    BY <1>7 DEF Boot, BootFrom
  <2>1. CASE Current(p).op = "read version" /\ proc[p].from = Unread
    <3>1. f = db.version /\ f \in 0..19
      <4>1. f = db.version
        BY <1>2, <2>1
      <4>2. db.version \in 0..19
        BY <1>3
      <4> QED BY <4>1, <4>2
    <3>2. Len(Boot(p)) = Len(CoreScript) /\ \A i \in 1..Len(CoreScript) : Boot(p)[i] = CoreScript[i]
      BY <2>0, <2>1, BootPrefix
    <3>3. /\ SqliteBoot[f] \in Seq(Statements) /\ Len(SqliteBoot[f]) \in Nat
          /\ \A i \in 1..Len(CoreScript) : SqliteBoot[f][i] = CoreScript[i]
      BY <3>1, BootPrefix
    <3>4. Len(SqliteBoot[f]) > Past(f) /\ Past(f) \in Nat /\ Past(f) >= Len(CoreScript)
      BY <3>1, BootLast
    <3>5. k \in 1..Len(CoreScript) /\ Len(CoreScript) \in Nat
      BY <1>1, <3>2, BootPrefix
    <3>6. k + 1 \in 1..Len(SqliteBoot[f])
      BY <3>3, <3>4, <3>5
    <3>7. \A i \in 1..k : i \in 1..Len(CoreScript)
      BY <3>5
    <3> HIDE DEF f, k
    <3>8. \A i \in 1..k : SqliteBoot[f][i] = Boot(p)[i]
      BY <3>2, <3>3, <3>7
    <3> QED BY <1>4, <1>7, <2>0, <3>3, <3>6, <3>8 DEF f, k
  <2>2. CASE ~(Current(p).op = "read version" /\ proc[p].from = Unread)
    <3>1. f = proc[p].from
      BY <1>2, <2>2
    <3>2. L = Boot(p)
      BY <2>0, <3>1
    <3>3. k # Len(Boot(p))
      <4>1. CASE Current(p).op # "read version"
        BY <4>1 DEF Ends
      <4>2. CASE Current(p).op = "read version" /\ k = Len(Boot(p))
        <5>1. proc[p].from \in 0..19
          BY <1>1, <2>2, <4>2 DEF Places
        <5>2. Boot(p)[Len(Boot(p))] = End
          BY <2>0, <5>1, BootLast
        <5>3. Current(p) = End
          BY <4>2, <5>2 DEF Current
        <5> QED BY <4>2, <5>3, EndFields
      <4> QED BY <4>1, <4>2
    <3> QED BY <1>1, <1>4, <1>7, <3>2, <3>3
  <2> QED BY <2>1, <2>2
<1> QED BY <1>3, <1>6, <1>7

----------------------------------------------------------------------------
(* The fields that a statement changes.                                    *)

LEMMA WithFields ==
    ASSUME NEW b, NEW d \in Databases(b), NEW Y, NEW X, NEW I
    PROVE  /\ With(d, Y, X, I).tables = Y /\ With(d, Y, X, I).columns = X
           /\ With(d, Y, X, I).index = I /\ With(d, Y, X, I).version = d.version
           /\ With(d, Y, X, I).triggers = d.triggers /\ With(d, Y, X, I).rows = d.rows
           /\ With(d, Y, X, I).unfilled = d.unfilled
  BY DEF With, Databases

LEMMA MadeSame ==
    ASSUME NEW b, NEW d \in Databases(b), NEW t \in Indexed, NEW w
    PROVE  SameBut(d, Made(d, t, w), "index") /\ Made(d, t, w).unfilled = d.unfilled
  BY DEF Made, Databases, SameBut

LEMMA NoneFields ==
    ASSUME NEW b, NEW d \in Databases(b), NEW t \in Indexed
    PROVE  /\ SameBut(d, NoneOf(d, t), "index") /\ NoneOf(d, t).unfilled = d.unfilled
           /\ NoneOf(d, t).index[t] = NoIndex
           /\ \A u \in Indexed \ {t} : NoneOf(d, t).index[u] = d.index[u]
  BY DEF NoneOf, Databases, SameBut

LEMMA HungFields ==
    ASSUME NEW b, NEW d \in Databases(b), NEW t \in Indexed, NEW x \in Triggers, NEW k
    PROVE  /\ SameBut(d, Hung(d, t, x, k), "triggers") /\ Hung(d, t, x, k).unfilled = d.unfilled
           /\ Hung(d, t, x, k).triggers[t][x] = k
           /\ \A u \in Indexed, y \in Triggers :
                 u # t \/ y # x => Hung(d, t, x, k).triggers[u][y] = d.triggers[u][y]
  BY DEF Hung, Databases, SameBut

LEMMA StampedFields ==
    ASSUME NEW b, NEW d \in Databases(b)
    PROVE  /\ SameBut(d, Stamped(d), "version") /\ Stamped(d).unfilled = d.unfilled
           /\ Stamped(d).version = 19
  BY CoreVersion DEF Stamped, Databases, SameBut

LEMMA RowsOfFields ==
    ASSUME NEW b, NEW d \in Databases(b), NEW t \in Indexed, NEW S
    PROVE  /\ SameBut(d, RowsOf(d, t, S), "index") /\ RowsOf(d, t, S).unfilled = d.unfilled
           /\ RowsOf(d, t, S).index[t].rows = S
           /\ RowsOf(d, t, S).index[t].there = d.index[t].there
           /\ RowsOf(d, t, S).index[t].wide = d.index[t].wide
           /\ RowsOf(d, t, S).index[t].stemmed = d.index[t].stemmed
           /\ \A u \in Indexed \ {t} : RowsOf(d, t, S).index[u] = d.index[u]
  BY DEF RowsOf, Databases, SameBut, Shapes

LEMMA FilledFields ==
    ASSUME NEW b, NEW d \in Databases(b), NEW t \in Indexed, NEW S
    PROVE  /\ SameBut(d, Filled(d, t, S), "index") /\ Filled(d, t, S).unfilled = {}
           /\ Filled(d, t, S).index[t].rows = S
           /\ Filled(d, t, S).index[t].there = d.index[t].there
           /\ Filled(d, t, S).index[t].wide = d.index[t].wide
           /\ Filled(d, t, S).index[t].stemmed = d.index[t].stemmed
           /\ \A u \in Indexed \ {t} : Filled(d, t, S).index[u] = d.index[u]
  BY DEF Filled, Databases, SameBut, Shapes

\* What a statement makes of a database, in one of these ways.
LEMMA ApplyCases ==
    ASSUME NEW s, Proper(backend, s), NEW d \in Databases(backend), NEW m,
           NEW e, e = Apply(s, d, m)
    PROVE  \/ /\ s.op = "create table"
              /\ IF s.table \in d.tables THEN e = d
                 ELSE e = With(d, d.tables \cup {s.table}, d.columns \cup ColumnsIn(s.table),
                               TableIndex(d, s.table))
           \/ /\ s.op = "add column"
              /\ \/ m /\ e = With(d, d.tables, d.columns \cup {<<s.table, s.name>>}, d.index)
                 \/ ~m /\ e = d
           \/ /\ s.op = "guarded column"
              /\ e = With(d, d.tables, d.columns \cup {<<s.table, s.name>>}, GuardedIndex(d, s))
           \/ s.op = "create fts" /\ e = Made(d, s.table, TRUE) /\ s.table \in Indexed
           \/ s.op = "create narrow fts" /\ e = Made(d, s.table, FALSE) /\ s.table \in Indexed
           \/ /\ s.op = "ensure fts" /\ s.table \in Indexed
              /\ IF d.index[s.table].there THEN e = d ELSE e = Made(d, s.table, TRUE)
           \/ s.op = "drop fts" /\ e = NoneOf(d, s.table) /\ s.table \in Indexed
           \/ /\ s.op = "rebuild" /\ s.table \in Indexed
              /\ e = RowsOf(d, s.table, IF s.table = "entries" THEN d.rows[s.table] \ d.unfilled
                                        ELSE d.rows[s.table])
           \/ /\ s.op = "drop trigger" /\ s.table \in Indexed /\ s.name \in Triggers
              /\ e = Hung(d, s.table, s.name, "none")
           \/ /\ s.op = "create trigger" /\ s.table \in Indexed /\ s.name \in Triggers
              /\ e = Hung(d, s.table, s.name, "wide")
           \/ /\ s.op = "create narrow trigger" /\ s.table \in Indexed /\ s.name \in Triggers
              /\ e = Hung(d, s.table, s.name, "narrow")
           \/ /\ s.op = "ensure trigger" /\ s.table \in Indexed /\ s.name \in Triggers
              /\ IF d.triggers[s.table][s.name] = "none"
                 THEN e = Hung(d, s.table, s.name, "wide") ELSE e = d
           \/ Versions(s) /\ e = Stamped(d)
           \/ /\ s.op = "fill" /\ s.table = "entries" /\ s.table \in Indexed
              /\ e = Filled(d, s.table, IF d.triggers[s.table]["au"] = "wide"
                                        THEN d.index[s.table].rows \cup d.unfilled
                                        ELSE d.index[s.table].rows)
           \/ (s.op = "has column" \/ s.op = "read version" \/ s.op = "commit") /\ e = d
<1>1. s \in Statements
  BY DEF Proper
<1>2. CASE s.op = "create table"
  BY <1>2, ApplyTable
<1>3. CASE s.op = "add column"
  <2>1. \/ m /\ e = With(d, d.tables, d.columns \cup {<<s.table, s.name>>}, d.index)
        \/ ~m /\ e = d
    BY <1>3, ApplyColumn, Zenon
  <2> QED BY <1>3, <2>1, Zenon
<1>4. CASE s.op = "guarded column"
  BY <1>4, ApplyGuarded
<1>5. CASE s.op = "create fts" \/ s.op = "create narrow fts" \/ s.op = "ensure fts"
            \/ s.op = "drop fts"
  <2>1. s.table \in Indexed
    BY <1>5 DEF Proper, Makes, Ensures, Drops
  <2> QED BY <1>5, <2>1, ApplyMake DEF NoneOf
<1>6. CASE s.op = "rebuild"
  <2>1. s.table \in Indexed
    BY <1>6 DEF Proper
  <2> QED BY <1>6, <2>1, ApplyRebuild DEF RowsOf
<1>7. CASE OnTriggers(s)
  <2>1. s.table \in Indexed /\ s.name \in Triggers
    BY <1>7 DEF Proper, OnTriggers, Makes, Ensures, Drops
  <2> QED BY <1>7, <2>1, ApplyTrigger DEF OnTriggers
<1>8. CASE Versions(s)
  BY <1>8, ApplyVersion DEF Stamped
<1>9. CASE s.op = "fill"
  <2>1. s.table = "entries" /\ "entries" \in Indexed
    BY <1>9, SqliteLiterals DEF Proper
  <2> QED BY <1>9, <2>1, ApplyFill DEF Filled
<1>10. CASE s.op = "has column" \/ s.op = "read version" \/ s.op = "commit"
  BY <1>10, ApplyNothing
<1> QED BY <1>1, <1>2, <1>3, <1>4, <1>5, <1>6, <1>7, <1>8, <1>9, <1>10, OpCases

LEMMA GrowsSelf == \A d : Grows(d, d)
  BY DEF Grows

LEMMA GrowsOn == \A d, e, f : Grows(d, e) /\ Grows(e, f) => Grows(d, f)
  BY DEF Grows

LEMMA ApplyFields ==
    ASSUME NEW s, Proper(backend, s), NEW d \in Databases(backend), NEW m,
           NEW e, e = Apply(s, d, m)
    PROVE  /\ e.rows = d.rows
           /\ e.version = IF Versions(s) THEN 19 ELSE d.version
           /\ Grows(d, e)
           /\ e.unfilled = (IF s.op = "fill" THEN {} ELSE d.unfilled)
           /\ Keeps(s, d, e)
<1> SUFFICES /\ e.rows = d.rows
             /\ e.version = IF Versions(s) THEN 19 ELSE d.version
             /\ Grows(d, e)
             /\ e.unfilled = (IF s.op = "fill" THEN {} ELSE d.unfilled)
             /\ s.op # "create table" => e.tables = d.tables
  BY DEF Keeps
<1>0. d.version \in 0..19 /\ d.index \in [Indexed -> Shapes]
  BY DEF Databases
<1>1. CASE s.op = "create table"
  <2>0. ~Versions(s)
    BY <1>1 DEF Versions
  <2>1. CASE e = d
    BY <1>1, <2>0, <2>1 DEF Grows
  <2>2. CASE e = With(d, d.tables \cup {s.table}, d.columns \cup ColumnsIn(s.table),
                      TableIndex(d, s.table))
    <3>1. /\ e.tables = d.tables \cup {s.table} /\ e.columns = d.columns \cup ColumnsIn(s.table)
          /\ e.index = TableIndex(d, s.table) /\ e.version = d.version
          /\ e.rows = d.rows /\ e.unfilled = d.unfilled
      BY <2>2, WithFields
    <3>2. \A u \in Indexed : (d.index[u].there => e.index[u].there)
                             /\ (d.index[u].wide => e.index[u].wide)
      BY <1>0, <3>1, TableIndexType
    <3> QED BY <1>1, <2>0, <3>1, <3>2 DEF Grows
  <2> QED BY <1>1, <2>1, <2>2, ApplyTable
<1>2. CASE s.op = "add column"
  <2>0. ~Versions(s)
    BY <1>2 DEF Versions
  <2>1. CASE e = d
    BY <1>2, <2>0, <2>1 DEF Grows
  <2>2. CASE e = With(d, d.tables, d.columns \cup {<<s.table, s.name>>}, d.index)
    <3>1. /\ e.tables = d.tables /\ e.columns = d.columns \cup {<<s.table, s.name>>}
          /\ e.index = d.index /\ e.version = d.version
          /\ e.rows = d.rows /\ e.unfilled = d.unfilled
      BY <2>2, WithFields
    <3> QED BY <1>2, <2>0, <3>1 DEF Grows
  <2> QED BY <1>2, <2>1, <2>2, ApplyColumn
<1>3. CASE s.op = "guarded column"
  <2>0. ~Versions(s)
    BY <1>3 DEF Versions
  <2>1. e = With(d, d.tables, d.columns \cup {<<s.table, s.name>>}, GuardedIndex(d, s))
    BY <1>3, ApplyGuarded
  <2>2. /\ e.tables = d.tables /\ e.columns = d.columns \cup {<<s.table, s.name>>}
        /\ e.index = GuardedIndex(d, s) /\ e.version = d.version
        /\ e.rows = d.rows /\ e.unfilled = d.unfilled
    BY <2>1, WithFields
  <2>3. s.name \in {"content", "facets_text"} => s.table \in Indexed
    BY <1>3 DEF Proper
  <2>4. \A u \in Indexed : (d.index[u].there => e.index[u].there)
                           /\ (d.index[u].wide => e.index[u].wide)
    BY <1>0, <2>2, <2>3, GuardedIndexType
  <2> QED BY <1>3, <2>0, <2>2, <2>4 DEF Grows
<1>4. CASE Versions(s)
  <2>1. e = Stamped(d) /\ s.op # "fill"
    BY <1>4, ApplyVersion DEF Stamped, Versions
  <2>2. SameBut(d, e, "version") /\ e.unfilled = d.unfilled /\ e.version = 19
    BY <2>1, StampedFields
  <2>3. e.tables = d.tables
    BY <2>2 DEF SameBut
  <2> QED BY <1>4, <2>1, <2>2, <2>3 DEF Grows, SameBut
<1>5. CASE ~(s.op = "create table" \/ s.op = "add column" \/ s.op = "guarded column"
             \/ Versions(s))
  <2>1. backend = "postgres" => s.op = "fill" \/ s.op = "commit"
    BY <1>5 DEF Proper, Versions
  <2> DEFINE Same == /\ e.version = d.version /\ e.tables = d.tables
                     /\ e.columns = d.columns /\ e.rows = d.rows
  <2>2. /\ s \in Statements /\ (s.op = "fill" => s.table \in Indexed)
        /\ (s.op = "fill" =>
               e = Filled(d, s.table, IF d.triggers[s.table]["au"] = "wide"
                                      THEN d.index[s.table].rows \cup d.unfilled
                                      ELSE d.index[s.table].rows))
    <3>1. s \in Statements
      BY DEF Proper
    <3>2. s.op = "fill" => s.table \in Indexed
      BY SqliteLiterals DEF Proper
    <3> QED BY <3>1, <3>2, ApplyFill DEF Filled
  <2>3. Same /\ e.unfilled = (IF s.op = "fill" THEN {} ELSE d.unfilled)
    <3>1. CASE s.op = "fill"
      BY <2>2, <3>1, FilledFields DEF SameBut
    <3>2. ASSUME Same /\ e.unfilled = d.unfilled, s.op # "fill"
          PROVE  Same /\ e.unfilled = (IF s.op = "fill" THEN {} ELSE d.unfilled)
      BY <3>2
    <3>3. ASSUME NEW t \in Indexed, NEW w, e = Made(d, t, w) PROVE Same /\ e.unfilled = d.unfilled
      BY <3>3, MadeSame DEF SameBut
    <3>4. ASSUME NEW t \in Indexed, e = NoneOf(d, t) PROVE Same /\ e.unfilled = d.unfilled
      BY <3>4, NoneFields DEF SameBut
    <3>5. ASSUME NEW t \in Indexed, NEW S, e = RowsOf(d, t, S)
          PROVE  Same /\ e.unfilled = d.unfilled
      BY <3>5, RowsOfFields DEF SameBut
    <3>6. ASSUME NEW t \in Indexed, NEW x \in Triggers, NEW k, e = Hung(d, t, x, k)
          PROVE  Same /\ e.unfilled = d.unfilled
      BY <3>6, HungFields DEF SameBut
    <3>7. CASE e = d
      BY <3>1, <3>2, <3>7
    <3> HIDE DEF Same
    <3>8. CASE s.op = "create fts" \/ s.op = "create narrow fts" \/ s.op = "ensure fts"
      <4>1. s.table \in Indexed
        BY <3>8 DEF Proper, Makes, Ensures
      <4>2. e = d \/ e = Made(d, s.table, TRUE) \/ e = Made(d, s.table, FALSE)
        BY <3>8, ApplyMake
      <4>3. s.op # "fill"
        BY <3>8
      <4> QED BY <3>2, <3>3, <3>7, <4>1, <4>2, <4>3
    <3>9. CASE s.op = "drop fts"
      <4>1. s.table \in Indexed
        BY <3>9 DEF Proper, Drops
      <4>2. e = NoneOf(d, s.table)
        BY <3>9, ApplyMake DEF NoneOf
      <4>3. s.op # "fill"
        BY <3>9
      <4> QED BY <3>2, <3>4, <4>1, <4>2, <4>3
    <3>10. CASE s.op = "rebuild"
      <4>1. s.table \in Indexed
        BY <3>10 DEF Proper
      <4> DEFINE S == IF s.table = "entries" THEN d.rows[s.table] \ d.unfilled ELSE d.rows[s.table]
      <4>2. e = RowsOf(d, s.table, S)
        BY <3>10, ApplyRebuild DEF RowsOf
      <4>3. s.op # "fill"
        BY <3>10
      <4> QED BY <3>2, <3>5, <4>1, <4>2, <4>3
    <3>11. CASE OnTriggers(s)
      <4>1. s.table \in Indexed /\ s.name \in Triggers
        BY <3>11 DEF Proper, OnTriggers, Makes, Ensures, Drops
      <4>2. \/ e = d \/ e = Hung(d, s.table, s.name, "none")
            \/ e = Hung(d, s.table, s.name, "wide") \/ e = Hung(d, s.table, s.name, "narrow")
        BY <3>11, ApplyTrigger DEF OnTriggers
      <4>3. s.op # "fill"
        BY <3>11 DEF OnTriggers
      <4> QED BY <3>2, <3>6, <3>7, <4>1, <4>2, <4>3
    <3>12. CASE s.op = "has column" \/ s.op = "read version" \/ s.op = "commit"
      BY <3>7, <3>12, ApplyNothing
    <3> QED BY <1>5, <2>2, <3>1, <3>8, <3>9, <3>10, <3>11, <3>12, OpCases
  <2>4. ASSUME backend = "postgres", NEW t \in Indexed
        PROVE  e.index[t].there = d.index[t].there /\ e.index[t].wide = d.index[t].wide
    <3>1. CASE s.op = "commit"
      BY <3>1, ApplyNothing
    <3>2. CASE s.op = "fill"
      <4> QED BY <2>2, <3>2, FilledFields
    <3> QED BY <2>1, <2>4, <3>1, <3>2
  <2> QED BY <1>5, <2>3, <2>4 DEF Grows
<1> QED BY <1>1, <1>2, <1>3, <1>4, <1>5

----------------------------------------------------------------------------
(* The database that is found.                                             *)

LEMMA FoundIs ==
    ASSUME NEW b, NEW v
    PROVE  Found(b, v) =
        [version |-> v,
         tables |-> {t \in TablesOf(b) : There(t, v)},
         columns |-> {x \in ColumnsBy(b) : There(x[1], v) /\ ColumnVersion(x) <= v},
         index |-> [t \in Indexed |-> FoundIndex(t, v)],
         triggers |-> [t \in Indexed |-> [x \in Triggers |-> FoundTrigger(t, v)]],
         rows |-> [t \in Indexed |-> Stored(t, v)],
         unfilled |-> IF v = 18 THEN Stored("entries", v) ELSE {}]
  BY DEF Found, There, Stored, FoundIndex, FoundTrigger

LEMMA FoundFields ==
    ASSUME NEW b, NEW v
    PROVE  /\ Found(b, v).version = v
           /\ Found(b, v).tables = {t \in TablesOf(b) : There(t, v)}
           /\ Found(b, v).columns = {x \in ColumnsBy(b) : There(x[1], v) /\ ColumnVersion(x) <= v}
           /\ \A t \in Indexed : Found(b, v).index[t] = FoundIndex(t, v)
           /\ \A t \in Indexed, x \in Triggers : Found(b, v).triggers[t][x] = FoundTrigger(t, v)
           /\ \A t \in Indexed : Found(b, v).rows[t] = Stored(t, v)
           /\ Found(b, v).unfilled = IF v = 18 THEN Stored("entries", v) ELSE {}
  BY FoundIs

LEMMA FoundIndexFields ==
    ASSUME NEW t \in Indexed, NEW v \in 0..19
    PROVE  /\ FoundIndex(t, v) \in Shapes
           /\ FoundIndex(t, v).there <=> There(t, v)
           /\ There(t, v) => /\ FoundIndex(t, v).wide = Wide(t, v)
                             /\ FoundIndex(t, v).stemmed = (v >= 6)
           /\ ~There(t, v) => FoundIndex(t, v) = NoIndex
           /\ FoundIndex(t, v).rows = Stored(t, v)
           /\ Stored(t, v) \in SUBSET Rows
           /\ FoundTrigger(t, v) \in Kinds
<1>1. Stored(t, v) \in SUBSET Rows
  BY RowAssumption DEF Stored
<1>2. Wide(t, v) \in BOOLEAN
  <2>1. t = "rules" \/ t = "entries" \/ (t # "rules" /\ t # "entries")
    OBVIOUS
  <2>2. (v >= 8) \in BOOLEAN /\ (v >= 19) \in BOOLEAN
    OBVIOUS
  <2>3. CASE t = "rules"
    BY <2>2, <2>3 DEF Wide
  <2>4. CASE t = "entries"
    BY <2>2, <2>4, SqliteLiterals DEF Wide
  <2>5. CASE t # "rules" /\ t # "entries"
    BY <2>5 DEF Wide
  <2> QED BY <2>1, <2>3, <2>4, <2>5
<1>3. FoundTrigger(t, v) \in Kinds
  BY DEF FoundTrigger, Kinds
<1>4. CASE There(t, v)
  <2> DEFINE w == Wide(t, v)
             m == v >= 6
             S == Stored(t, v)
  <2>1. FoundIndex(t, v) = [there |-> TRUE, wide |-> w, stemmed |-> m, rows |-> S]
    BY <1>4 DEF FoundIndex
  <2>2. w \in BOOLEAN /\ m \in BOOLEAN /\ S \in SUBSET Rows
    BY <1>1, <1>2
  <2> HIDE DEF w, m, S
  <2>3. /\ FoundIndex(t, v) \in Shapes /\ FoundIndex(t, v).there
        /\ FoundIndex(t, v).wide = w /\ FoundIndex(t, v).stemmed = m
        /\ FoundIndex(t, v).rows = S
    BY <2>1, <2>2 DEF Shapes
  <2> QED BY <1>1, <1>3, <1>4, <2>3 DEF w, m, S
<1>5. CASE ~There(t, v)
  <2>1. FoundIndex(t, v) = NoIndex /\ Stored(t, v) = {}
    BY <1>5 DEF FoundIndex, Stored
  <2>2. NoIndex \in Shapes /\ ~NoIndex.there /\ NoIndex.rows = {}
    BY DEF NoIndex, Shapes
  <2> QED BY <1>1, <1>3, <1>5, <2>1, <2>2
<1> QED BY <1>4, <1>5

LEMMA FoundSound ==
    ASSUME NEW b, NEW v \in 0..19
    PROVE  Sound(b, Found(b, v))
<1> DEFINE d == Found(b, v)
           I == [t \in Indexed |-> FoundIndex(t, v)]
           G0 == [t \in Indexed |-> [x \in Triggers |-> FoundTrigger(t, v)]]
           R == [t \in Indexed |-> Stored(t, v)]
           U == IF v = 18 THEN Stored("entries", v) ELSE {}
           Y == {t \in TablesOf(b) : There(t, v)}
           X == {x \in ColumnsBy(b) : There(x[1], v) /\ ColumnVersion(x) <= v}
<1>1. d = [version |-> v, tables |-> Y, columns |-> X, index |-> I, triggers |-> G0,
           rows |-> R, unfilled |-> U]
  BY FoundIs
<1>2. I \in [Indexed -> Shapes]
  BY FoundIndexFields
<1>3. G0 \in [Indexed -> [Triggers -> Kinds]]
  BY FoundIndexFields
<1>4. R \in [Indexed -> SUBSET Rows]
  BY FoundIndexFields
<1>5. U \in SUBSET Rows /\ U \subseteq R["entries"]
  BY FoundIndexFields, SqliteLiterals
<1>6. Y \in SUBSET TablesOf(b) /\ X \in SUBSET ColumnsBy(b)
  OBVIOUS
<1>7. \A t \in Indexed : I[t].rows = R[t] /\ (I[t].there \/ I[t].rows = {})
  BY FoundIndexFields DEF Stored
<1> HIDE DEF I, G0, R, U, Y, X, d
<1>8. d \in Databases(b)
  BY <1>1, <1>2, <1>3, <1>4, <1>5, <1>6 DEF Databases
<1>9. d.index = I /\ d.rows = R /\ d.unfilled = U
  BY <1>1
<1>10. Sound(b, d)
  BY <1>5, <1>7, <1>8, <1>9 DEF Sound
<1> QED BY <1>10 DEF d

LEMMA TypeInit ==
    ASSUME Init
    PROVE  \E v \in 0..19 : TypeInv(v) /\ db = Found(backend, v)
<1>1. PICK start \in Starts : backend = start[1] /\ db = Found(start[1], start[2])
  BY DEF Init
<1> DEFINE v == start[2]
<1>2. backend \in {"sqlite", "postgres"} /\ v \in 0..19
  BY <1>1, StartAssumption, CoreVersion
<1>3. db = Found(backend, v)
  BY <1>1
<1> HIDE DEF v
<1>4. Sound(backend, db) /\ db.version = v
  BY <1>2, <1>3, FoundSound, FoundFields
<1>5. work = db /\ owner = NoProc /\ proc = [p \in Procs |-> Down] /\ crashes = 0 /\ boots = 0
  BY DEF Init
<1>6. Down \in Places /\ Down.at = "down" /\ Down.from = Unread /\ Down.next = 1
  BY UnreadIs DEF Down, Places
<1>7. Placed(v)
  BY <1>5, <1>6 DEF Placed
<1>8. crashes \in 0..MaxCrashes /\ boots \in 0..MaxBoots
  BY <1>5, UpgradeBoundAssumption
<1>9. TypeInv(v)
  BY <1>2, <1>4, <1>5, <1>7, <1>8 DEF TypeInv
<1> QED BY <1>2, <1>3, <1>9

----------------------------------------------------------------------------
(* Type correctness.                                                       *)

LEMMA StillPlaced ==
    ASSUME NEW v, TypeInv(v), NEW p \in Procs, NEW r \in Places,
           proc' = [proc EXCEPT ![p] = r], backend' = backend,
           r.from \in {Unread, v, 19}, backend = "postgres" => r.from = Unread,
           r.at = "boot" => r.next \in 1..Len(BootFrom(r.from)),
           r.at # "boot" => r.from = Unread /\ r.next = 1
    PROVE  Placed(v)'
<1>1. \A q \in Procs : Boot(q)' = BootFrom(proc'[q].from)
  BY DEF Boot, BootFrom
<1>2. /\ proc \in [Procs -> Places]
      /\ \A q \in Procs :
            /\ proc[q].from \in {Unread, v, 19}
            /\ backend = "postgres" => proc[q].from = Unread
            /\ proc[q].at = "boot" => proc[q].next \in 1..Len(BootFrom(proc[q].from))
            /\ proc[q].at # "boot" => proc[q].from = Unread /\ proc[q].next = 1
  BY BootIsFrom DEF TypeInv, Placed
<1>3. proc' \in [Procs -> Places] /\ proc'[p] = r /\ \A q \in Procs \ {p} : proc'[q] = proc[q]
  BY <1>2
<1>4. ASSUME NEW q \in Procs
      PROVE  /\ proc'[q].from \in {Unread, v, 19}
             /\ backend' = "postgres" => proc'[q].from = Unread
             /\ proc'[q].at = "boot" => proc'[q].next \in 1..Len(BootFrom(proc'[q].from))
             /\ proc'[q].at # "boot" => proc'[q].from = Unread /\ proc'[q].next = 1
  <2>1. CASE q = p
    BY <1>3, <2>1
  <2>2. CASE q # p
    <3>1. proc'[q] = proc[q]
      BY <1>3, <2>2
    <3> QED BY <1>2, <3>1
  <2> QED BY <2>1, <2>2
<1> QED BY <1>1, <1>3, <1>4 DEF Placed

\* Only a commit, and on SQLite reading the version, end a list.
LEMMA NotLast ==
    ASSUME NEW v, TypeInv(v), NEW p \in Procs, proc[p].at = "boot", Current(p).op # "commit"
    PROVE  ~Ends(p)
<1>1. proc[p].from \in {Unread} \cup 0..19 /\ backend \in {"sqlite", "postgres"}
  BY BootList DEF TypeInv
<1>2. SUFFICES ASSUME Ends(p) PROVE FALSE
  OBVIOUS
<1>3. Current(p) = Boot(p)[Len(Boot(p))] /\ Current(p).op # "read version"
  BY <1>2 DEF Ends, Current
<1>4. CASE backend = "postgres"
  <2>1. Boot(p) = PgBoot
    BY <1>4 DEF Boot
  <2>2. Len(PgBoot) = Len(PgDdl) + 3 /\ PgBoot[Len(PgDdl) + 3] = End
    BY PgBootAt
  <2>3. Current(p) = End
    BY <1>3, <2>1, <2>2
  <2> QED BY <2>3, EndFields
<1>5. CASE backend = "sqlite" /\ proc[p].from = Unread
  <2>1. Boot(p) = SqliteBoot[Unread]
    BY <1>5 DEF Boot
  <2>2. /\ Len(SqliteBoot[Unread]) = Len(CoreScript) /\ Len(CoreScript) \in Nat \ {0}
        /\ \A k \in 1..Len(CoreScript) : SqliteBoot[Unread][k] = CoreScript[k]
    BY BootPrefix
  <2>3. Current(p) = CoreScript[Len(CoreScript)]
    <3>1. Len(CoreScript) \in 1..Len(CoreScript)
      BY <2>2
    <3> QED BY <1>3, <2>1, <2>2, <3>1
  <2> QED BY <1>3, <2>3, StepsCore
<1>6. CASE backend = "sqlite" /\ proc[p].from \in 0..19
  <2>1. Boot(p) = SqliteBoot[proc[p].from]
    BY <1>6 DEF Boot
  <2>2. Boot(p)[Len(Boot(p))] = End
    BY <1>6, <2>1, BootLast
  <2> QED BY <1>3, <2>2, EndFields
<1> QED BY <1>1, <1>4, <1>5, <1>6

\* Up to the version a boot runs the script.
LEMMA UnreadCore ==
    ASSUME NEW v, TypeInv(v), NEW p \in Procs, proc[p].at = "boot", backend = "sqlite",
           proc[p].from = Unread
    PROVE  Current(p) \in Elems(CoreScript) /\ Current(p).how # "dml" /\ Core(Current(p))
<1>1. Boot(p) = SqliteBoot[Unread] /\ proc[p].next \in 1..Len(Boot(p))
  BY BootList
<1>2. /\ Len(SqliteBoot[Unread]) = Len(CoreScript)
      /\ \A k \in 1..Len(CoreScript) : SqliteBoot[Unread][k] = CoreScript[k]
  BY BootPrefix
<1>3. Current(p) \in Elems(CoreScript)
  BY <1>1, <1>2 DEF Current, Elems
<1>4. Core(Current(p)) /\ Legal(Current(p), 19)
  BY <1>3, CoreElems
<1>5. Current(p).how = "dml" => Current(p).op = "rebuild"
  BY <1>4 DEF Legal
<1>6. Current(p).op # "rebuild"
  BY <1>4 DEF Core, Ensures
<1> QED BY <1>3, <1>4, <1>5, <1>6

LEMMA SeesSound ==
    ASSUME NEW v, TypeInv(v), NEW p
    PROVE  /\ Sound(backend, Sees(p)) /\ Sees(p).version \in {v, 19}
           /\ Sees(p) \in Databases(backend)
  BY DEF TypeInv, Sees, Sound

\* What a statement that does not raise leaves.
LEMMA NewSound ==
    ASSUME NEW v, TypeInv(v), NEW p \in Procs, proc[p].at = "boot",
           ~Raises(Current(p), Sees(p), proc[p].missing)
    PROVE  Sound(backend, New(p)) /\ New(p).version \in {v, 19}
<1>1. Proper(backend, Current(p)) /\ backend \in {"sqlite", "postgres"}
  BY BootList DEF TypeInv
<1>2. Sound(backend, Sees(p)) /\ Sees(p).version \in {v, 19} /\ Sees(p) \in Databases(backend)
  BY SeesSound
<1>3. Sound(backend, New(p))
  BY <1>1, <1>2, ApplySound DEF New
<1>4. New(p).version = IF Versions(Current(p)) THEN 19 ELSE Sees(p).version
  BY <1>1, <1>2, ApplyFields DEF New
<1> QED BY <1>2, <1>3, <1>4

LEMMA PlacedOn ==
    ASSUME NEW v, TypeInv(v), NEW p \in Procs, proc[p].at = "boot", Advance(p),
           backend' = backend
    PROVE  /\ Placed(v)'
           /\ proc'[p] = IF Ends(p) THEN Served ELSE NextPlace(p)
           /\ \A q \in Procs \ {p} : proc'[q] = proc[q]
<1> DEFINE r == IF Ends(p) THEN Served ELSE NextPlace(p)
<1>1. proc \in [Procs -> Places] /\ proc[p] \in Places
  BY BootList DEF TypeInv, Placed
<1>2. proc' = [proc EXCEPT ![p] = r] /\ proc'[p] = r /\ \A q \in Procs \ {p} : proc'[q] = proc[q]
  BY <1>1, AdvanceIs
<1>3. /\ r \in Places /\ r.from \in {Unread, v, 19} /\ (backend = "postgres" => r.from = Unread)
      /\ r.at = "boot" => r.next \in 1..Len(BootFrom(r.from))
      /\ r.at # "boot" => r.from = Unread /\ r.next = 1
  <2>1. CASE Ends(p)
    <3>1. r = Served
      BY <2>1
    <3>2. Served.at = "serving" /\ Served.from = Unread /\ Served.next = 1 /\ Served \in Places
      BY <1>1, PlaceFields
    <3> QED BY <3>1, <3>2
  <2>2. CASE ~Ends(p)
    <3>1. r = NextPlace(p)
      BY <2>2
    <3>2. /\ NextPlace(p).from \in {Unread, v, 19} /\ NextPlace(p).from \in {Unread} \cup 0..19
          /\ backend = "postgres" => NextPlace(p).from = Unread
          /\ proc[p].next + 1 \in 1..Len(BootFrom(NextPlace(p).from))
      BY <2>2, BootMoves
    <3>3. /\ NextPlace(p).at = "boot" /\ NextPlace(p).next = proc[p].next + 1
          /\ NextPlace(p) \in Places
      BY <1>1, <3>2, PlaceFields
    <3> QED BY <3>1, <3>2, <3>3
  <2> QED BY <2>1, <2>2
<1> HIDE DEF r
<1>4. Placed(v)'
  BY <1>2, <1>3, StillPlaced
<1> QED BY <1>2, <1>4 DEF r

LEMMA TypeExecute ==
    ASSUME NEW v, TypeInv(v), NEW p \in Procs, Execute(p)
    PROVE  TypeInv(v)'
<1>1. /\ proc[p].at = "boot" /\ Current(p).op # "commit" /\ Advance(p) /\ backend' = backend
      /\ ~Blocked(p) /\ ~Raises(Current(p), Sees(p), proc[p].missing)
      /\ crashes' = crashes /\ boots' = boots
  BY DEF Execute
<1>2. Placed(v)' /\ ~Ends(p) /\ proc'[p] = NextPlace(p) /\ \A q \in Procs \ {p} : proc'[q] = proc[q]
  BY <1>1, PlacedOn, NotLast
<1>3. Sound(backend, New(p)) /\ New(p).version \in {v, 19}
  BY <1>1, NewSound
<1>4. proc'[p].at = "boot" /\ (proc[p].from # Unread => proc'[p].from = proc[p].from)
  <2>1. proc[p] \in Places
    BY BootList
  <2> QED BY <1>1, <1>2, <2>1, PlaceFields
<1>5. /\ Sound(backend, db) /\ Sound(backend, work)
      /\ db.version \in {v, 19} /\ work.version \in {v, 19}
      /\ owner \in Procs \cup {NoProc} /\ (owner = NoProc => work = db)
      /\ owner # NoProc => proc[owner].at = "boot"
                           /\ (backend = "sqlite" => proc[owner].from # Unread)
      /\ v \in 0..19 /\ backend \in {"sqlite", "postgres"}
      /\ crashes \in 0..MaxCrashes /\ boots \in 0..MaxBoots
  BY DEF TypeInv
<1>6. CASE Writes(p) /\ (owner = p \/ backend = "postgres" \/ Current(p).how = "dml")
  <2>1. work' = New(p) /\ owner' = p /\ db' = db
    BY <1>6 DEF Execute
  <2>2. backend = "sqlite" => proc[p].from # Unread
    <3>1. CASE owner = p
      BY <1>5, <3>1, ProcAssumption
    <3>2. CASE Current(p).how = "dml"
      BY <1>1, <3>2, UnreadCore
    <3> QED BY <1>6, <3>1, <3>2
  <2>3. owner' \in Procs \cup {NoProc} /\ owner' # NoProc
    BY <2>1, ProcAssumption
  <2>4. Sound(backend', db') /\ Sound(backend', work')
    BY <1>1, <1>3, <1>5, <2>1
  <2> QED BY <1>1, <1>2, <1>3, <1>4, <1>5, <2>1, <2>2, <2>3, <2>4 DEF TypeInv
<1>7. CASE ~(Writes(p) /\ (owner = p \/ backend = "postgres" \/ Current(p).how = "dml"))
  <2>1. /\ db' = (IF Writes(p) THEN New(p) ELSE db)
        /\ work' = (IF Writes(p) THEN New(p) ELSE work) /\ owner' = owner
    BY <1>7 DEF Execute
  <2>2. owner = p => db' = db /\ work' = work
    BY <1>7, <2>1
  <2>3. Sound(backend', db') /\ Sound(backend', work')
        /\ db'.version \in {v, 19} /\ work'.version \in {v, 19}
    BY <1>1, <1>3, <1>5, <2>1
  <2>4. owner' = NoProc => work' = db'
    BY <1>5, <2>1
  <2>5. owner' # NoProc => proc'[owner'].at = "boot"
                           /\ (backend = "sqlite" => proc'[owner'].from # Unread)
    <3>1. CASE owner = p
      BY <1>4, <1>5, <2>1, <3>1, ProcAssumption
    <3>2. CASE owner # p
      BY <1>2, <1>5, <2>1, <3>2
    <3> QED BY <3>1, <3>2
  <2> QED BY <1>1, <1>2, <1>5, <2>1, <2>3, <2>4, <2>5 DEF TypeInv
<1> QED BY <1>6, <1>7

LEMMA TypeCommit ==
    ASSUME NEW v, TypeInv(v), NEW p \in Procs, CommitWork(p)
    PROVE  TypeInv(v)'
<1>1. /\ proc[p].at = "boot" /\ Advance(p) /\ backend' = backend
      /\ db' = (IF owner = p THEN work ELSE db) /\ work' = work
      /\ owner' = (IF owner = p THEN NoProc ELSE owner)
      /\ crashes' = crashes /\ boots' = boots
  BY DEF CommitWork
<1>2. Placed(v)' /\ \A q \in Procs \ {p} : proc'[q] = proc[q]
  BY <1>1, PlacedOn
<1>3. /\ Sound(backend, db) /\ Sound(backend, work)
      /\ db.version \in {v, 19} /\ work.version \in {v, 19}
      /\ owner \in Procs \cup {NoProc} /\ (owner = NoProc => work = db)
      /\ owner # NoProc => proc[owner].at = "boot"
                           /\ (backend = "sqlite" => proc[owner].from # Unread)
      /\ v \in 0..19 /\ backend \in {"sqlite", "postgres"}
      /\ crashes \in 0..MaxCrashes /\ boots \in 0..MaxBoots
  BY DEF TypeInv
<1>4. Sound(backend', db') /\ Sound(backend', work')
      /\ db'.version \in {v, 19} /\ work'.version \in {v, 19}
  BY <1>1, <1>3
<1>5. owner' = NoProc => work' = db'
  BY <1>1, <1>3
<1>6. owner' # NoProc => proc'[owner'].at = "boot"
                         /\ (backend = "sqlite" => proc'[owner'].from # Unread)
  BY <1>1, <1>2, <1>3
<1>7. owner' \in Procs \cup {NoProc}
  BY <1>1, <1>3
<1> QED BY <1>1, <1>2, <1>3, <1>4, <1>5, <1>6, <1>7 DEF TypeInv

\* A process that dies or gives up.
LEMMA TypeRollBack ==
    ASSUME NEW v, TypeInv(v), NEW p \in Procs, RollBack(p), db' = db, backend' = backend,
           NEW at \in {"down", "degraded"},
           proc' = [proc EXCEPT ![p] = [Down EXCEPT !.at = at]],
           crashes' \in 0..MaxCrashes, boots' = boots
    PROVE  TypeInv(v)'
<1> DEFINE r == [Down EXCEPT !.at = at]
<1>1. r \in Places /\ r.from = Unread /\ r.next = 1 /\ r.at # "boot"
  BY DEF Down, Places
<1> HIDE DEF r
<1>2. proc' = [proc EXCEPT ![p] = r]
  BY DEF r
<1>3. Placed(v)'
  BY <1>1, <1>2, StillPlaced
<1>4. /\ Sound(backend, db) /\ Sound(backend, work)
      /\ db.version \in {v, 19} /\ work.version \in {v, 19}
      /\ owner \in Procs \cup {NoProc} /\ (owner = NoProc => work = db)
      /\ owner # NoProc => proc[owner].at = "boot"
                           /\ (backend = "sqlite" => proc[owner].from # Unread)
      /\ v \in 0..19 /\ backend \in {"sqlite", "postgres"}
      /\ boots \in 0..MaxBoots /\ proc \in [Procs -> Places]
  BY DEF TypeInv, Placed
<1>5. /\ work' = (IF owner = p THEN db ELSE work)
      /\ owner' = (IF owner = p THEN NoProc ELSE owner)
  BY DEF RollBack
<1>6. Sound(backend', db') /\ Sound(backend', work')
      /\ db'.version \in {v, 19} /\ work'.version \in {v, 19}
  BY <1>4, <1>5
<1>7. owner' = NoProc => work' = db'
  BY <1>4, <1>5
<1>8. owner' # NoProc => proc'[owner'].at = "boot"
                         /\ (backend = "sqlite" => proc'[owner'].from # Unread)
  <2>1. SUFFICES ASSUME owner' # NoProc PROVE proc'[owner'] = proc[owner] /\ owner # NoProc
    BY <1>4
  <2>2. owner' = owner /\ owner # p /\ owner \in Procs
    BY <1>4, <1>5, <2>1
  <2> QED BY <1>2, <1>4, <2>1, <2>2
<1>9. owner' \in Procs \cup {NoProc}
  BY <1>4, <1>5
<1> QED BY <1>3, <1>4, <1>6, <1>7, <1>8, <1>9 DEF TypeInv

LEMMA TypeFail ==
    ASSUME NEW v, TypeInv(v), NEW p \in Procs, Fail(p)
    PROVE  TypeInv(v)'
<1> DEFINE at == IF Swallowed(p) THEN "degraded" ELSE "down"
<1>1. /\ RollBack(p) /\ backend' = backend /\ db' = db /\ crashes' = crashes /\ boots' = boots
      /\ proc' = [proc EXCEPT ![p] = [Down EXCEPT !.at = at]]
  BY DEF Fail
<1>2. at \in {"down", "degraded"}
  OBVIOUS
<1>3. crashes' \in 0..MaxCrashes
  BY <1>1 DEF TypeInv
<1> HIDE DEF at
<1> QED BY <1>1, <1>2, <1>3, TypeRollBack

LEMMA TypeCrash ==
    ASSUME NEW v, TypeInv(v), NEW p \in Procs, Crash(p)
    PROVE  TypeInv(v)'
<1>1. /\ RollBack(p) /\ backend' = backend /\ db' = db /\ boots' = boots
      /\ proc' = [proc EXCEPT ![p] = Down]
      /\ crashes < MaxCrashes /\ crashes' = crashes + 1
  BY DEF Crash
<1>2. Down = [Down EXCEPT !.at = "down"]
  <2>1. Down \in Places /\ Down.at = "down"
    BY UnreadIs DEF Down, Places
  <2> QED BY <2>1 DEF Places
<1>3. crashes' \in 0..MaxCrashes
  BY <1>1, UpgradeBoundAssumption DEF TypeInv
<1>4. proc' = [proc EXCEPT ![p] = [Down EXCEPT !.at = "down"]]
  BY <1>1, <1>2
<1> QED BY <1>1, <1>3, <1>4, TypeRollBack

LEMMA TypeStart ==
    ASSUME NEW v, TypeInv(v), NEW p \in Procs, Start(p)
    PROVE  /\ TypeInv(v)'
           /\ proc'[p].at = "boot" /\ proc'[p].from = Unread /\ proc'[p].next = 1
           /\ \A q \in Procs \ {p} : proc'[q] = proc[q]
<1>1. /\ proc[p].at = "down" /\ boots < MaxBoots /\ boots' = boots + 1
      /\ proc' = [proc EXCEPT ![p] = [proc[p] EXCEPT !.at = "boot"]]
      /\ backend' = backend /\ db' = db /\ work' = work /\ owner' = owner /\ crashes' = crashes
  BY DEF Start
<1>2. proc[p] \in Places /\ proc[p].from = Unread /\ proc[p].next = 1
      /\ proc \in [Procs -> Places]
  BY <1>1 DEF TypeInv, Placed
<1> DEFINE r == [proc[p] EXCEPT !.at = "boot"]
<1>3. r \in Places /\ r.at = "boot" /\ r.from = Unread /\ r.next = 1
  BY <1>2 DEF Places
<1>4. Len(BootFrom(Unread)) \in Nat /\ Len(BootFrom(Unread)) >= 1
  <2>0. Unread \in {Unread} \cup 0..19
    OBVIOUS
  <2>1. Len(SqliteBoot[Unread]) \in Nat /\ Len(SqliteBoot[Unread]) >= 1
    <3>1. Len(SqliteBoot[Unread]) = Len(CoreScript) /\ Len(CoreScript) \in Nat \ {0}
      BY <2>0, BootPrefix
    <3> QED BY <3>1
  <2>2. Len(PgBoot) \in Nat /\ Len(PgBoot) >= 1
    BY PgBootAt
  <2> QED BY <2>1, <2>2 DEF BootFrom
<1>5. proc' = [proc EXCEPT ![p] = r]
  BY <1>1
<1> HIDE DEF r
<1>6. r.next \in 1..Len(BootFrom(r.from))
  BY <1>3, <1>4
<1>7. Placed(v)'
  BY <1>1, <1>3, <1>5, <1>6, StillPlaced
<1>8. /\ Sound(backend, db) /\ Sound(backend, work)
      /\ db.version \in {v, 19} /\ work.version \in {v, 19}
      /\ owner \in Procs \cup {NoProc} /\ (owner = NoProc => work = db)
      /\ owner # NoProc => proc[owner].at = "boot"
                           /\ (backend = "sqlite" => proc[owner].from # Unread)
      /\ v \in 0..19 /\ backend \in {"sqlite", "postgres"}
      /\ boots \in 0..MaxBoots /\ crashes \in 0..MaxCrashes
  BY DEF TypeInv
<1>9. Sound(backend', db') /\ Sound(backend', work')
  BY <1>1, <1>8
<1>10. owner # NoProc => owner # p /\ owner \in Procs
  BY <1>1, <1>8
<1>11. proc'[p] = r /\ \A q \in Procs \ {p} : proc'[q] = proc[q]
  BY <1>2, <1>5
<1>12. boots' \in 0..MaxBoots
  BY <1>1, <1>8, UpgradeBoundAssumption
<1>13. owner' # NoProc => proc'[owner'].at = "boot"
                         /\ (backend = "sqlite" => proc'[owner'].from # Unread)
  BY <1>1, <1>8, <1>10, <1>11
<1>14. TypeInv(v)'
  BY <1>1, <1>7, <1>8, <1>9, <1>12, <1>13 DEF TypeInv
<1> QED BY <1>3, <1>11, <1>14

LEMMA StoredFields ==
    ASSUME NEW b, NEW d, Sound(b, d), NEW t \in Indexed, NEW r \in Rows, NEW S,
           S = d.index[t].rows \/ (d.index[t].there /\ S = d.index[t].rows \cup {r}),
           NEW e, e = StoredIn(d, t, r, S)
    PROVE  /\ Sound(b, e)
           /\ e.version = d.version /\ e.tables = d.tables /\ e.columns = d.columns
           /\ e.triggers = d.triggers /\ e.unfilled = d.unfilled
           /\ e.rows[t] = d.rows[t] \cup {r} /\ e.index[t].rows = S
           /\ e.index[t].there = d.index[t].there /\ e.index[t].wide = d.index[t].wide
           /\ e.index[t].stemmed = d.index[t].stemmed
           /\ \A u \in Indexed \ {t} : e.rows[u] = d.rows[u] /\ e.index[u] = d.index[u]
<1> DEFINE R == [d.rows EXCEPT ![t] = d.rows[t] \cup {r}]
           I == [d.index EXCEPT ![t] = [d.index[t] EXCEPT !.rows = S]]
<1>1. d \in Databases(b) /\ d.index \in [Indexed -> Shapes] /\ d.rows \in [Indexed -> SUBSET Rows]
      /\ d.index[t] \in Shapes /\ d.index[t].rows \subseteq d.rows[t]
  BY DEF Sound, Databases
<1>2. S \subseteq d.rows[t] \cup {r} /\ S \in SUBSET Rows
  BY <1>1
<1>3. R \in [Indexed -> SUBSET Rows] /\ R[t] = d.rows[t] \cup {r}
      /\ \A u \in Indexed \ {t} : R[u] = d.rows[u]
  BY <1>1
<1>4. [d.index[t] EXCEPT !.rows = S] \in Shapes
      /\ [d.index[t] EXCEPT !.rows = S].rows = S
      /\ [d.index[t] EXCEPT !.rows = S].there = d.index[t].there
      /\ [d.index[t] EXCEPT !.rows = S].wide = d.index[t].wide
      /\ [d.index[t] EXCEPT !.rows = S].stemmed = d.index[t].stemmed
  BY <1>1, <1>2 DEF Shapes
<1>5. I \in [Indexed -> Shapes] /\ I[t].rows = S /\ I[t].there = d.index[t].there
      /\ I[t].wide = d.index[t].wide /\ I[t].stemmed = d.index[t].stemmed
      /\ \A u \in Indexed \ {t} : I[u] = d.index[u]
  BY <1>1, <1>4
<1>6. e = [d EXCEPT !.rows = R, !.index = I]
  BY <1>1 DEF StoredIn, Databases
<1> HIDE DEF R, I
<1>7. /\ e \in Databases(b) /\ e.rows = R /\ e.index = I
      /\ e.version = d.version /\ e.tables = d.tables /\ e.columns = d.columns
      /\ e.triggers = d.triggers /\ e.unfilled = d.unfilled
  BY <1>1, <1>3, <1>5, <1>6 DEF Databases
<1>8. Sound(b, e)
  <2>1. \A u \in Indexed : e.index[u].rows \subseteq e.rows[u]
    BY <1>2, <1>3, <1>5, <1>7 DEF Sound
  <2>2. e.unfilled \subseteq e.rows["entries"]
    <3>1. d.rows["entries"] \subseteq R["entries"]
      BY <1>3, SqliteLiterals
    <3> QED BY <1>7, <3>1 DEF Sound
  <2>3. b = "sqlite" => \A u \in Indexed : e.index[u].there \/ e.index[u].rows = {}
    <3>1. ASSUME b = "sqlite", NEW u \in Indexed
          PROVE  e.index[u].there \/ e.index[u].rows = {}
      <4>1. CASE u = t
        BY <1>5, <1>7, <3>1, <4>1 DEF Sound
      <4>2. CASE u # t
        BY <1>5, <1>7, <3>1, <4>2 DEF Sound
      <4> QED BY <4>1, <4>2
    <3> QED BY <3>1
  <2> QED BY <1>7, <2>1, <2>2, <2>3 DEF Sound
<1> QED BY <1>3, <1>5, <1>7, <1>8

LEMMA StoreIs ==
    ASSUME NEW v, TypeInv(v), NEW p, NEW t \in Indexed, NEW r \in Rows, Store(p, t, r)
    PROVE  /\ db' = StoredIn(db, t, r, NewRows(db, t, r))
           /\ NewRows(db, t, r) = db.index[t].rows
              \/ (db.index[t].there /\ NewRows(db, t, r) = db.index[t].rows \cup {r})
<1>1. db' = [db EXCEPT !.rows[t] = @ \cup {r}, !.index[t].rows =
                IF db.index[t].there
                     /\ db.triggers[t]["ai"] = (IF db.index[t].wide THEN "wide" ELSE "narrow")
                THEN @ \cup {r} ELSE @]
  BY DEF Store
<1>2. db \in Databases(backend)
  BY DEF TypeInv, Sound
<1>3. db' = StoredIn(db, t, r, NewRows(db, t, r))
  BY <1>1, <1>2 DEF StoredIn, Databases, NewRows
<1> QED BY <1>3 DEF NewRows

LEMMA TypeStore ==
    ASSUME NEW v, TypeInv(v), NEW p \in Procs, NEW t \in Indexed, NEW r \in Rows,
           Store(p, t, r)
    PROVE  TypeInv(v)'
<1> DEFINE S == NewRows(db, t, r)
<1>1. /\ db' = StoredIn(db, t, r, S)
      /\ S = db.index[t].rows \/ (db.index[t].there /\ S = db.index[t].rows \cup {r})
  BY StoreIs
<1> HIDE DEF S
<1>2. /\ owner = NoProc /\ work' = db' /\ backend' = backend /\ owner' = owner
      /\ proc' = proc /\ crashes' = crashes /\ boots' = boots
  BY DEF Store
<1>3. Sound(backend, db)
  BY DEF TypeInv
<1>4. Sound(backend, db') /\ db'.version = db.version
  BY <1>1, <1>3, StoredFields
<1>5. Placed(v)'
  <2>1. \A q : Boot(q)' = Boot(q)
    BY <1>2 DEF Boot
  <2> QED BY <1>2, <2>1 DEF TypeInv, Placed
<1>6. Sound(backend', db') /\ Sound(backend', work')
  BY <1>2, <1>4
<1> QED BY <1>2, <1>4, <1>5, <1>6 DEF TypeInv

LEMMA TypeStutter ==
    ASSUME NEW v, TypeInv(v), UNCHANGED vars
    PROVE  TypeInv(v)'
<1>1. /\ backend' = backend /\ db' = db /\ work' = work /\ owner' = owner /\ proc' = proc
      /\ crashes' = crashes /\ boots' = boots /\ tangled' = tangled
  BY DEF vars
<1>2. Sound(backend', db') /\ Sound(backend', work')
  BY <1>1 DEF TypeInv
<1>3. Placed(v)'
  <2>1. \A q : Boot(q)' = Boot(q)
    BY <1>1 DEF Boot
  <2> QED BY <1>1, <2>1 DEF TypeInv, Placed
<1> QED BY <1>1, <1>2, <1>3 DEF TypeInv

LEMMA TypeStep ==
    ASSUME NEW v, TypeInv(v), [Next]_vars
    PROVE  TypeInv(v)'
<1>1. CASE UNCHANGED vars
  BY <1>1, TypeStutter
<1>2. ASSUME NEW p \in Procs,
             \/ Start(p) \/ Execute(p) \/ CommitWork(p) \/ Fail(p) \/ Crash(p)
             \/ \E t \in Indexed, r \in Rows : Store(p, t, r)
      PROVE  TypeInv(v)'
  BY <1>2, TypeStart, TypeExecute, TypeCommit, TypeFail, TypeCrash, TypeStore
<1> QED BY <1>1, <1>2 DEF Next

LEMMA TypedMeans ==
    ASSUME NEW v, TypeInv(v)
    PROVE  TypeOK
<1>1. \A d \in {db, work} : Sound(backend, d) /\ d.version \in {v, 19}
  BY DEF TypeInv
<1>2. \A d \in {db, work} :
          /\ d.version \in 0..CORE_VERSION
          /\ d.tables \subseteq TablesOf(backend)
          /\ d.columns \subseteq ColumnsBy(backend)
          /\ \A t \in Indexed : d.index[t].rows \subseteq d.rows[t]
          /\ d.rows \in [Indexed -> SUBSET Rows]
  BY <1>1, CoreVersion DEF Sound, Databases
<1>3. \A p \in Procs :
          /\ proc[p].at \in {"down", "boot", "serving", "degraded"}
          /\ proc[p].at = "boot" => proc[p].next \in 1..Len(Boot(p))
  BY DEF TypeInv, Placed, Places
<1> QED BY <1>2, <1>3 DEF TypeInv, TypeOK

\* Every process that boots is at a statement of its list, and what is
\* committed and what a transaction sees are databases of its backend, whose
\* indexes have no row that their tables have not.
THEOREM SchemaTypes == Spec => []TypeOK
<1>1. Init => Typed
  BY TypeInit DEF Typed
<1>2. Typed /\ [Next]_vars => Typed'
  BY TypeStep DEF Typed
<1>3. Typed => TypeOK
  BY TypedMeans DEF Typed
<1> QED BY <1>1, <1>2, <1>3, PTL DEF Spec

----------------------------------------------------------------------------
(* Boots that upgrade nothing take no row out of an index.                 *)

LEMMA MadeOthers ==
    ASSUME NEW b, NEW d \in Databases(b), NEW t \in Indexed, NEW w
    PROVE  /\ \A u \in Indexed \ {t} : Made(d, t, w).index[u] = d.index[u]
           /\ Made(d, t, w).index[t].there /\ Made(d, t, w).index[t].stemmed
           /\ Made(d, t, w).index[t].wide = w /\ Made(d, t, w).index[t].rows = {}
  BY DEF Made, Databases

LEMMA GentleApply ==
    ASSUME NEW s, Proper(backend, s), Gentle(s), NEW d, Sound(backend, d), NEW m,
           backend \in {"sqlite", "postgres"}
    PROVE  RowsGrow(d, Apply(s, d, m))
<1> DEFINE e == Apply(s, d, m)
<1>1. d \in Databases(backend) /\ d.index \in [Indexed -> Shapes]
  BY DEF Sound, Databases
<1>2. SUFFICES ASSUME NEW t \in Indexed PROVE d.index[t].rows \subseteq e.index[t].rows
  BY DEF RowsGrow
<1>3. CASE e.index = d.index
  BY <1>3
<1>4. CASE s.op = "create table"
  <2>1. CASE s.table \in d.tables
    BY <1>4, <2>1, ApplyTable
  <2>2. CASE s.table \notin d.tables
    <3>1. e = With(d, d.tables \cup {s.table}, d.columns \cup ColumnsIn(s.table),
                   TableIndex(d, s.table))
      BY <1>4, <2>2, ApplyTable
    <3>2. e.index = TableIndex(d, s.table)
      BY <1>1, <3>1, WithFields
    <3> QED BY <1>1, <3>2, TableIndexType
  <2> QED BY <2>1, <2>2
<1>5. CASE s.op = "guarded column"
  <2> DEFINE X == d.columns \cup {<<s.table, s.name>>}
             I == GuardedIndex(d, s)
  <2>0. e = With(d, d.tables, X, I)
    BY <1>1, <1>5, ApplyGuarded
  <2>1. e.index = GuardedIndex(d, s)
    <3> HIDE DEF X, I, e
    <3>1. e.index = I
      BY <1>1, <2>0, WithFields
    <3> QED BY <3>1 DEF I
  <2>2. s.name \in {"content", "facets_text"} => s.table \in Indexed
    BY <1>5 DEF Proper
  <2> QED BY <1>1, <2>1, <2>2, GuardedIndexType
<1>6. CASE s.op = "ensure fts"
  <2>1. backend = "sqlite" /\ s.table \in Indexed
    BY <1>6 DEF Proper, Ensures
  <2>2. CASE d.index[s.table].there
    BY <1>6, <2>2, ApplyMake
  <2>3. CASE ~d.index[s.table].there
    <3> DEFINE w == TRUE
               t0 == s.table
    <3>1. e = Made(d, t0, w) /\ t0 \in Indexed
      BY <1>6, <2>1, <2>3, ApplyMake
    <3> HIDE DEF w, t0, e
    <3>2. \A u \in Indexed \ {t0} : e.index[u] = d.index[u]
      BY <1>1, <3>1, MadeOthers
    <3> USE DEF t0
    <3>3. d.index[s.table].rows = {}
      BY <2>1, <2>3 DEF Sound
    <3> QED BY <3>2, <3>3
  <2> QED BY <2>2, <2>3
<1>7. CASE s.op = "ensure trigger"
  <2>1. s.table \in Indexed /\ s.name \in Triggers
    BY <1>7 DEF Proper, Ensures, OnTriggers
  <2>2. e = d \/ e = Hung(d, s.table, s.name, "wide")
    BY <1>7, ApplyTrigger
  <2>3. SameBut(d, Hung(d, s.table, s.name, "wide"), "triggers")
    BY <1>1, <2>1, HungFields
  <2> QED BY <2>2, <2>3 DEF SameBut
<1>8. CASE Versions(s)
  <2>1. e = Stamped(d)
    BY <1>8, ApplyVersion DEF Stamped
  <2>2. SameBut(d, Stamped(d), "version")
    BY <1>1, StampedFields
  <2> QED BY <2>1, <2>2 DEF SameBut
<1>9. CASE s.op = "fill"
  <2>1. s.table = "entries" /\ s.table \in Indexed
    BY <1>9, SqliteLiterals DEF Proper
  <2> DEFINE S == IF d.triggers[s.table]["au"] = "wide"
                  THEN d.index[s.table].rows \cup d.unfilled ELSE d.index[s.table].rows
  <2>2. e = Filled(d, s.table, S)
    BY <1>1, <1>9, <2>1, ApplyCases DEF Versions, OnTriggers
  <2>3. d.index[s.table].rows \subseteq S
    OBVIOUS
  <2> HIDE DEF S
  <2>4. e.index[s.table].rows = S /\ \A u \in Indexed \ {s.table} : e.index[u] = d.index[u]
    BY <1>1, <2>1, <2>2, FilledFields
  <2> QED BY <2>3, <2>4
<1>10. CASE s.op = "read version" \/ s.op = "commit"
  BY <1>10, ApplyNothing
<1> QED BY <1>4, <1>5, <1>6, <1>7, <1>8, <1>9, <1>10 DEF Gentle, Ensures

\* What a boot that upgrades nothing runs.
LEMMA GentleBoot ==
    ASSUME NEW v, TypeInv(v), NEW p \in Procs, proc[p].at = "boot", ~Upgrading(p)
    PROVE  Gentle(Current(p))
<1>1. /\ proc[p].from \in {Unread} \cup 0..19 /\ backend \in {"sqlite", "postgres"}
      /\ proc[p].next \in 1..Len(Boot(p))
  BY BootList DEF TypeInv
<1>2. proc[p].from \notin 1..18
  BY CoreVersion DEF Upgrading
<1>3. CASE backend = "postgres"
  <2>1. Boot(p) = PgBoot
    BY <1>3 DEF Boot
  <2>2. Current(p) \in Elems(PgDdl) \/ Current(p) \in {Stamp, Fill, End}
    <3>1. proc[p].next \in 1..Len(PgDdl) \/ proc[p].next = Len(PgDdl) + 1
          \/ proc[p].next = Len(PgDdl) + 2 \/ proc[p].next = Len(PgDdl) + 3
      BY <1>1, <2>1, PgBootAt
    <3> QED BY <2>1, <3>1, PgBootAt DEF Current
  <2>3. Stamp.op = "stamp"
    BY DEF Stamp, Statement
  <2>4. ASSUME Current(p) \in Elems(PgDdl) PROVE Gentle(Current(p))
    <3>1. PgLegal(Current(p))
      BY <2>4, PgElems
    <3> QED BY <3>1 DEF Gentle, PgLegal
  <2>5. Gentle(Stamp) /\ Gentle(Fill) /\ Gentle(End)
    BY <2>3, FillFields, EndFields DEF Gentle, Versions
  <2> QED BY <2>2, <2>4, <2>5
<1>4. CASE backend = "sqlite"
  <2>1. Boot(p) = SqliteBoot[proc[p].from]
    BY <1>4 DEF Boot
  <2> DEFINE f == proc[p].from
             k == proc[p].next
  <2>2. /\ f \in {Unread} \cup 0..19 /\ k \in 1..Len(SqliteBoot[f]) /\ f \notin 1..18
        /\ Current(p) = SqliteBoot[f][k]
    BY <1>1, <1>2, <2>1 DEF Current
  <2> HIDE DEF f, k
  <2>3. Current(p) \in Elems(CoreScript) \cup {End} \/ Current(p) = StampOf(f)
        \/ Current(p) = Fill
    BY <2>2, BootAt
  <2>4. Current(p) \in Elems(CoreScript) => Gentle(Current(p))
    BY CoreElems DEF Core, Gentle
  <2>5. Current(p) = StampOf(f) => Gentle(Current(p))
    BY StampFields DEF Gentle, Versions
  <2> QED BY <2>3, <2>4, <2>5, FillFields, EndFields DEF Gentle
<1> QED BY <1>1, <1>3, <1>4

LEMMA GentleNew ==
    ASSUME NEW v, TypeInv(v), NEW p \in Procs, proc[p].at = "boot", ~Upgrading(p)
    PROVE  RowsGrow(Sees(p), New(p))
<1>1. Gentle(Current(p)) /\ Proper(backend, Current(p)) /\ backend \in {"sqlite", "postgres"}
  BY GentleBoot, BootList DEF TypeInv
<1>2. Sound(backend, Sees(p))
  BY SeesSound
<1> QED BY <1>1, <1>2, GentleApply DEF New

LEMMA RowsGrowOn ==
    /\ \A d : RowsGrow(d, d)
    /\ \A d, e, f : RowsGrow(d, e) /\ RowsGrow(e, f) => RowsGrow(d, f)
  BY DEF RowsGrow

LEMMA GrownInit == Init => Grown
  BY DEF Init, Grown

LEMMA UpgradingOn ==
    ASSUME NEW v, TypeInv(v), NEW p \in Procs, Execute(p)
    PROVE  /\ proc'[p].at = "boot"
           /\ \A q \in Procs \ {p} : proc'[q] = proc[q]
           /\ backend = "postgres" \/ proc[p].from # Unread =>
                (Upgrading(p)' <=> Upgrading(p))
<1>1. proc[p].at = "boot" /\ Current(p).op # "commit" /\ Advance(p) /\ backend' = backend
  BY DEF Execute
<1>2. ~Ends(p) /\ proc'[p] = NextPlace(p) /\ \A q \in Procs \ {p} : proc'[q] = proc[q]
  BY <1>1, PlacedOn, NotLast
<1>3. proc[p] \in Places
  BY BootList
<1>4. proc'[p].at = "boot" /\ (proc[p].from # Unread => proc'[p].from = proc[p].from)
  BY <1>1, <1>2, <1>3, PlaceFields
<1>5. backend = "postgres" => proc'[p].from = Unread /\ proc[p].from = Unread
  BY <1>1, <1>2, BootMoves DEF TypeInv, Placed
<1>6. backend = "postgres" \/ proc[p].from # Unread => proc'[p].from = proc[p].from
  BY <1>4, <1>5
<1> QED BY <1>1, <1>2, <1>4, <1>6 DEF Upgrading

LEMMA GrownExecute ==
    ASSUME NEW v, TypeInv(v), Grown, NEW p \in Procs, Execute(p)
    PROVE  /\ Grown'
           /\ (\A q \in Procs : ~Upgrading(q)) => RowsGrow(db, db')
<1>1. /\ proc[p].at = "boot" /\ ~Blocked(p) /\ Advance(p)
      /\ owner \in Procs \cup {NoProc} /\ (owner = NoProc => work = db)
      /\ owner # NoProc /\ backend = "sqlite" => proc[owner].from # Unread
      /\ backend \in {"sqlite", "postgres"}
  BY DEF Execute, TypeInv
<1>2. /\ proc'[p].at = "boot"
      /\ \A q \in Procs \ {p} : proc'[q] = proc[q]
      /\ backend = "postgres" \/ proc[p].from # Unread =>
                (Upgrading(p)' <=> Upgrading(p))
  BY UpgradingOn
<1>3. \A q \in Procs \ {p} : Upgrading(q)' <=> Upgrading(q)
  BY <1>2 DEF Upgrading
<1>4. ~Upgrading(p) => RowsGrow(Sees(p), New(p))
  BY <1>1, GentleNew
<1>5. CASE Writes(p) /\ (owner = p \/ backend = "postgres" \/ Current(p).how = "dml")
  <2>1. work' = New(p) /\ owner' = p /\ db' = db
    BY <1>5 DEF Execute
  <2>2. owner = p \/ owner = NoProc
    BY <1>1, <1>5 DEF Blocked
  <2>3. backend = "postgres" \/ proc[p].from # Unread
    <3>1. CASE owner = p
      BY <1>1, <3>1, ProcAssumption
    <3>2. CASE Current(p).how = "dml"
      BY <1>1, <3>2, UnreadCore
    <3> QED BY <1>5, <3>1, <3>2
  <2>4. ASSUME ~Upgrading(p)' PROVE RowsGrow(db', work')
    <3>1. ~Upgrading(p)
      BY <1>2, <2>3, <2>4
    <3>2. RowsGrow(db, Sees(p))
      <4>1. CASE owner = p
        BY <3>1, <4>1, ProcAssumption DEF Grown, Sees
      <4>2. CASE owner = NoProc
        BY <1>1, <4>2, ProcAssumption, RowsGrowOn DEF Sees
      <4> QED BY <2>2, <4>1, <4>2
    <3> QED BY <1>4, <2>1, <3>1, <3>2, RowsGrowOn
  <2>5. Upgrading(owner)' <=> Upgrading(p)'
    BY <2>1 DEF Upgrading
  <2>6. Grown'
    BY <2>4, <2>5 DEF Grown
  <2> QED BY <2>1, <2>6, RowsGrowOn
<1>6. CASE ~(Writes(p) /\ (owner = p \/ backend = "postgres" \/ Current(p).how = "dml"))
  <2>1. /\ db' = (IF Writes(p) THEN New(p) ELSE db)
        /\ work' = (IF Writes(p) THEN New(p) ELSE work) /\ owner' = owner
    BY <1>6 DEF Execute
  <2>2. ASSUME owner # NoProc PROVE db' = db /\ work' = work
    <3>1. ~Writes(p)
      BY <1>1, <1>6, <2>2 DEF Blocked
    <3> QED BY <2>1, <3>1
  <2>3. ASSUME owner' # NoProc, ~Upgrading(owner)' PROVE RowsGrow(db', work')
    <3>1. db' = db /\ work' = work /\ owner \in Procs
      BY <1>1, <2>1, <2>2, <2>3
    <3>2. ~Upgrading(owner)
      <4>1. Upgrading(owner)' <=> (proc'[owner].at = "boot" /\ proc'[owner].from \in 1..(CORE_VERSION - 1))
        BY <2>1 DEF Upgrading
      <4>2. CASE owner = p
        <5>1. Upgrading(p)' <=> (proc'[p].at = "boot" /\ proc'[p].from \in 1..(CORE_VERSION - 1))
          BY DEF Upgrading
        <5> QED BY <1>1, <1>2, <2>3, <3>1, <4>1, <4>2, <5>1, ProcAssumption
      <4>3. CASE owner # p
        <5>1. proc'[owner] = proc[owner]
          BY <1>2, <3>1, <4>3
        <5> QED BY <2>3, <4>1, <5>1 DEF Upgrading
      <4> QED BY <4>2, <4>3
    <3> QED BY <2>3, <3>1, <3>2, <2>1 DEF Grown
  <2>4. Grown'
    BY <2>3 DEF Grown
  <2>5. ASSUME \A q \in Procs : ~Upgrading(q) PROVE RowsGrow(db, db')
    <3>1. CASE Writes(p)
      <4>1. owner # p
        BY <1>6, <3>1
      <4>2. Sees(p) = db
        BY <4>1 DEF Sees
      <4> QED BY <1>4, <2>1, <2>5, <3>1, <4>2
    <3>2. CASE ~Writes(p)
      BY <2>1, <3>2, RowsGrowOn
    <3> QED BY <3>1, <3>2
  <2> QED BY <2>4, <2>5
<1> QED BY <1>5, <1>6

LEMMA GrownOther ==
    ASSUME NEW v, TypeInv(v), Grown, NEW p \in Procs,
           \/ Start(p) \/ CommitWork(p) \/ Fail(p) \/ Crash(p)
           \/ \E t \in Indexed, r \in Rows : Store(p, t, r)
    PROVE  /\ Grown'
           /\ (\A q \in Procs : ~Upgrading(q)) => RowsGrow(db, db')
<1>1. owner \in Procs \cup {NoProc} /\ (owner = NoProc => work = db)
      /\ (owner # NoProc => proc[owner].at = "boot") /\ proc \in [Procs -> Places]
  BY DEF TypeInv, Placed
<1> DEFINE Others == \A q \in Procs \ {p} : proc'[q] = proc[q]
<1>2. ASSUME Others, owner' = owner, owner # p, db' = db, work' = work
      PROVE  Grown'
  <2>1. ASSUME owner' # NoProc PROVE Upgrading(owner)' <=> Upgrading(owner)
    <3>1. owner \in Procs \ {p} /\ proc'[owner] = proc[owner]
      BY <1>1, <1>2, <2>1
    <3>2. Upgrading(owner)' <=> (proc'[owner].at = "boot" /\ proc'[owner].from \in 1..(CORE_VERSION - 1))
      BY <1>2 DEF Upgrading
    <3> QED BY <3>1, <3>2 DEF Upgrading
  <2>2. RowsGrow(db', work') <=> RowsGrow(db, work)
    BY <1>2
  <2> QED BY <1>2, <2>1, <2>2 DEF Grown
<1>3. CASE Start(p)
  <2>1. Others /\ owner # p
    <3>1. Others
      BY <1>3, TypeStart
    <3>2. proc[p].at # "boot"
      BY <1>3 DEF Start
    <3> QED BY <1>1, <3>1, <3>2, ProcAssumption
  <2>2. owner' = owner /\ db' = db /\ work' = work
    BY <1>3 DEF Start
  <2> QED BY <1>2, <2>1, <2>2, RowsGrowOn
<1>4. CASE CommitWork(p)
  <2>1. /\ Others /\ proc[p].at = "boot"
        /\ db' = (IF owner = p THEN work ELSE db) /\ work' = work
        /\ owner' = (IF owner = p THEN NoProc ELSE owner)
    BY <1>4, PlacedOn DEF CommitWork
  <2>2. CASE owner = p
    <3>1. owner' = NoProc /\ db' = work /\ owner # NoProc
      BY <2>1, <2>2, ProcAssumption
    <3>2. Grown'
      BY <3>1 DEF Grown
    <3>3. (\A q \in Procs : ~Upgrading(q)) => RowsGrow(db, work)
      BY <2>2, <3>1 DEF Grown
    <3> QED BY <3>1, <3>2, <3>3
  <2>3. CASE owner # p
    BY <1>2, <2>1, <2>3, RowsGrowOn
  <2> QED BY <2>2, <2>3
<1>5. ASSUME RollBack(p), Others, db' = db
      PROVE  Grown'
  <2>1. /\ work' = (IF owner = p THEN db ELSE work)
        /\ owner' = (IF owner = p THEN NoProc ELSE owner)
    BY <1>5 DEF RollBack
  <2>2. CASE owner = p
    <3>1. owner' = NoProc
      BY <2>1, <2>2
    <3> QED BY <3>1 DEF Grown
  <2>3. CASE owner # p
    BY <1>2, <1>5, <2>1, <2>3
  <2> QED BY <2>2, <2>3
<1>6. CASE Fail(p)
  <2>1. RollBack(p) /\ db' = db /\ Others
    BY <1>1, <1>6 DEF Fail
  <2> QED BY <1>5, <2>1, RowsGrowOn
<1>7. CASE Crash(p)
  <2>1. RollBack(p) /\ db' = db /\ Others
    BY <1>1, <1>7 DEF Crash
  <2> QED BY <1>5, <2>1, RowsGrowOn
<1>8. ASSUME NEW t \in Indexed, NEW r \in Rows, Store(p, t, r)
      PROVE  Grown' /\ RowsGrow(db, db')
  <2> DEFINE S == NewRows(db, t, r)
  <2>1. /\ db' = StoredIn(db, t, r, S)
        /\ S = db.index[t].rows \/ (db.index[t].there /\ S = db.index[t].rows \cup {r})
    BY <1>8, StoreIs
  <2> HIDE DEF S
  <2>2. Sound(backend, db) /\ owner = NoProc /\ owner' = owner
    BY <1>8 DEF TypeInv, Store
  <2>3. db'.index[t].rows = S /\ \A u \in Indexed \ {t} : db'.index[u] = db.index[u]
    BY <2>1, <2>2, StoredFields
  <2>4. db.index[t].rows \subseteq S
    BY <2>1
  <2>5. RowsGrow(db, db')
    BY <2>3, <2>4 DEF RowsGrow
  <2>6. Grown'
    BY <2>2 DEF Grown
  <2> QED BY <2>5, <2>6
<1> QED BY <1>3, <1>4, <1>6, <1>7, <1>8

LEMMA GrownStep ==
    ASSUME NEW v, TypeInv(v), Grown, [Next]_vars
    PROVE  /\ Grown'
           /\ (\A q \in Procs : ~Upgrading(q)) => RowsGrow(db, db')
<1>1. CASE UNCHANGED vars
  BY <1>1, RowsGrowOn DEF vars, Grown, Upgrading
<1>2. CASE Next
  BY <1>2, GrownExecute, GrownOther DEF Next
<1> QED BY <1>1, <1>2

\* A boot of a server of the same version, or one that only repeats what a
\* killed one has done, never takes a stored row out of an index.
THEOREM RestartsAlwaysDisturbNothing == Spec => RestartsDisturbNothing
<1>1. Init => Typed /\ Grown
  BY TypeInit, GrownInit DEF Typed
<1>2. Typed /\ Grown /\ [Next]_vars => (Typed /\ Grown)'
  BY TypeStep, GrownStep DEF Typed
<1>3. Typed /\ Grown /\ [Next]_vars =>
        [(\A p \in Procs : ~Upgrading(p)) =>
            \A t \in Indexed : db.index[t].rows \subseteq db'.index[t].rows]_vars
  BY GrownStep DEF Typed, RowsGrow
<1> QED BY <1>1, <1>2, <1>3, PTL DEF Spec, RestartsDisturbNothing

----------------------------------------------------------------------------
(* What a step is.                                                         *)

LEMMA ExecuteMoves ==
    ASSUME NEW v, TypeInv(v), NEW p \in Procs, Execute(p)
    PROVE  Executes(p)
<1>1. /\ proc[p].at = "boot" /\ ~Blocked(p) /\ Advance(p) /\ Current(p).op # "commit"
      /\ ~Raises(Current(p), Sees(p), proc[p].missing)
      /\ backend' = backend /\ tangled' = tangled
  BY DEF Execute
<1>2. /\ owner \in Procs \cup {NoProc} /\ (owner = NoProc => work = db)
      /\ backend \in {"sqlite", "postgres"}
      /\ owner # NoProc => (backend = "sqlite" => proc[owner].from # Unread)
  BY DEF TypeInv
<1>3. proc'[p] = NextPlace(p) /\ ~Ends(p) /\ (\A q \in Procs \ {p} : proc'[q] = proc[q])
  BY <1>1, NotLast, PlacedOn
<1>4. p # NoProc
  BY ProcAssumption
<1>5. Writes(p) => (owner = p \/ owner = NoProc) /\ Sees(p) = work
  BY <1>1, <1>2, <1>4 DEF Blocked, Sees
<1>6. CASE Writes(p) /\ (owner = p \/ backend = "postgres" \/ Current(p).how = "dml")
  <2>1. work' = New(p) /\ owner' = p /\ db' = db
    BY <1>6 DEF Execute
  <2>2. backend = "postgres" \/ proc[p].from # Unread
    <3>1. CASE owner = p
      BY <1>2, <1>4, <3>1
    <3>2. CASE Current(p).how = "dml"
      BY <1>1, <1>2, <3>2, UnreadCore
    <3> QED BY <1>6, <3>1, <3>2
  <2>3. ExecutesInside(p)
    BY <1>5, <1>6, <2>1, <2>2 DEF ExecutesInside
  <2> QED BY <1>1, <1>3, <2>3 DEF Executes
<1>7. CASE ~(Writes(p) /\ (owner = p \/ backend = "postgres" \/ Current(p).how = "dml"))
  <2>1. /\ db' = (IF Writes(p) THEN New(p) ELSE db)
        /\ work' = (IF Writes(p) THEN New(p) ELSE work) /\ owner' = owner
    BY <1>7 DEF Execute
  <2>2. CASE Writes(p)
    <3>1. owner = NoProc /\ backend = "sqlite" /\ Current(p).how # "dml"
      BY <1>2, <1>5, <1>7, <2>2
    <3>2. ExecutesAlone(p)
      BY <1>2, <1>5, <2>1, <2>2, <3>1 DEF ExecutesAlone
    <3> QED BY <1>1, <1>3, <3>2 DEF Executes
  <2>3. CASE ~Writes(p)
    <3>1. New(p) = Sees(p)
          /\ (backend = "sqlite" => Current(p).how # "dml" /\ Current(p).op # "rebuild")
      BY <2>3 DEF Writes
    <3>2. Reads(p)
      BY <2>1, <2>3, <3>1 DEF Reads
    <3> QED BY <1>1, <1>3, <3>2 DEF Executes
  <2> QED BY <2>2, <2>3
<1> QED BY <1>6, <1>7

LEMMA StepMoves ==
    ASSUME NEW v, TypeInv(v), [Next]_vars
    PROVE  Stutters \/ \E p \in Procs : Moves(p)
<1>0. proc \in [Procs -> Places] /\ backend \in {"sqlite", "postgres"}
  BY DEF TypeInv, Placed
<1>1. CASE UNCHANGED vars
  BY <1>1 DEF vars, Stutters
<1>2. ASSUME NEW p \in Procs, CommitWork(p) PROVE Commits(p)
  <2>1. /\ proc[p].at = "boot" /\ Current(p).op = "commit" /\ backend' = backend /\ Advance(p)
        /\ tangled' = tangled /\ work' = work
        /\ db' = (IF owner = p THEN work ELSE db)
        /\ owner' = (IF owner = p THEN NoProc ELSE owner)
    BY <1>2 DEF CommitWork
  <2>2. /\ proc'[p] = (IF Ends(p) THEN Served ELSE NextPlace(p))
        /\ (\A q \in Procs \ {p} : proc'[q] = proc[q])
    BY <2>1, PlacedOn
  <2> QED BY <2>1, <2>2 DEF Commits
<1>3. ASSUME NEW p, RollBack(p)
      PROVE  \/ owner = p /\ work' = db /\ owner' = NoProc
             \/ owner # p /\ work' = work /\ owner' = owner
  BY <1>3 DEF RollBack
<1>4. ASSUME NEW p \in Procs, Fail(p) PROVE Leaves(p)
  <2>1. /\ RollBack(p) /\ backend' = backend /\ db' = db /\ Tangles(p) /\ proc[p].at = "boot"
        /\ proc' = [proc EXCEPT ![p] =
              [Down EXCEPT !.at = IF Swallowed(p) THEN "degraded" ELSE "down"]]
    BY <1>4 DEF Fail
  <2> DEFINE at == IF Swallowed(p) THEN "degraded" ELSE "down"
  <2>2. proc'[p] = [Down EXCEPT !.at = at] /\ (\A q \in Procs \ {p} : proc'[q] = proc[q])
    BY <1>0, <2>1
  <2>3. proc'[p].at = at /\ proc'[p].from = Unread
    <3> HIDE DEF at
    <3> QED BY <2>2 DEF Down
  <2>4. CASE Swallowed(p)
    <3>1. proc'[p].at = "degraded"
      BY <2>3, <2>4
    <3>2. backend = "sqlite" => proc[p].from # Unread /\ proc[p].next > Past(proc[p].from)
      BY <2>4 DEF Swallowed, Past
    <3> QED BY <1>3, <2>1, <2>2, <2>3, <3>1, <3>2 DEF Leaves
  <2>5. CASE ~Swallowed(p)
    <3>1. proc'[p].at = "down"
      BY <2>3, <2>5
    <3> QED BY <1>3, <2>1, <2>2, <2>3, <3>1 DEF Leaves
  <2> QED BY <2>4, <2>5
<1>5. ASSUME NEW p \in Procs, Crash(p) PROVE Leaves(p)
  <2>1. /\ RollBack(p) /\ backend' = backend /\ db' = db /\ Tangles(p)
        /\ proc' = [proc EXCEPT ![p] = Down]
    BY <1>5 DEF Crash
  <2>2. proc'[p] = Down /\ (\A q \in Procs \ {p} : proc'[q] = proc[q]) /\ Down.at = "down"
      /\ Down.from = Unread
    BY <1>0, <2>1 DEF Down
  <2> QED BY <1>3, <2>1, <2>2 DEF Leaves
<1>6. ASSUME NEW p \in Procs, Start(p) PROVE Begins(p)
  BY <1>6, TypeStart DEF Start, Begins
<1>7. ASSUME NEW p \in Procs, NEW t \in Indexed, NEW r \in Rows, Store(p, t, r)
      PROVE  Stores(p)
  <2>1. /\ db' = StoredIn(db, t, r, NewRows(db, t, r))
        /\ NewRows(db, t, r) = db.index[t].rows
           \/ (db.index[t].there /\ NewRows(db, t, r) = db.index[t].rows \cup {r})
    BY <1>7, StoreIs
  <2>2. /\ backend = "sqlite" /\ backend' = backend /\ owner = NoProc /\ owner' = owner
        /\ (proc[p].at = "serving" \/ proc[p].at = "degraded")
        /\ proc' = proc /\ work' = db' /\ tangled' = tangled /\ r \notin db.rows[t]
    BY <1>7 DEF Store
  <2>3. work = db
    BY <2>2 DEF TypeInv
  <2> QED BY <2>1, <2>2, <2>3 DEF Stores
<1>8. ASSUME NEW p \in Procs,
             \/ Start(p) \/ Execute(p) \/ CommitWork(p) \/ Fail(p) \/ Crash(p)
             \/ \E t \in Indexed, r \in Rows : Store(p, t, r)
      PROVE  Moves(p)
  BY <1>2, <1>4, <1>5, <1>6, <1>7, <1>8, ExecuteMoves DEF Moves
<1> QED BY <1>1, <1>8 DEF Next

----------------------------------------------------------------------------
(* What a boot has run.                                                    *)

LEMMA AdvanceMoves ==
    ASSUME NEW v, TypeInv(v), NEW p \in Procs, Advances(p)
    PROVE  /\ proc'[p].at = "boot" /\ proc'[p].next = proc[p].next + 1
           /\ proc[p].next \in Nat /\ proc[p].next >= 1
           /\ proc'[p].from = IF Current(p).op = "read version" /\ proc[p].from = Unread
                              THEN db.version ELSE proc[p].from
           /\ proc'[p].from \in {Unread} \cup 0..19 /\ proc'[p].from \in {Unread, v, 19}
           /\ proc'[p].missing = (Current(p).op = "has column"
                 /\ <<Current(p).table, Current(p).name>> \notin Sees(p).columns)
           /\ Boot(p)' = BootFrom(proc'[p].from)
           /\ \A k \in 1..proc[p].next : Boot(p)'[k] = Boot(p)[k]
           /\ proc'[p].next \in 1..Len(Boot(p)')
           /\ Ran(p)' = Ran(p) \cup {Current(p)}
<1>1. /\ proc[p] \in Places /\ proc[p].next \in 1..Len(Boot(p)) /\ Len(Boot(p)) \in Nat
      /\ proc[p].at = "boot" /\ proc'[p] = NextPlace(p) /\ ~Ends(p) /\ backend' = backend
  BY BootList DEF Advances
<1>2. /\ NextPlace(p).at = proc[p].at /\ NextPlace(p).next = proc[p].next + 1
      /\ NextPlace(p).from = IF Current(p).op = "read version" /\ proc[p].from = Unread
                             THEN db.version ELSE proc[p].from
      /\ NextPlace(p).missing = (Current(p).op = "has column"
            /\ <<Current(p).table, Current(p).name>> \notin Sees(p).columns)
  BY <1>1, PlaceFields
<1>3. /\ NextPlace(p).from \in {Unread, v, 19} /\ NextPlace(p).from \in {Unread} \cup 0..19
      /\ proc[p].next + 1 \in 1..Len(BootFrom(NextPlace(p).from))
      /\ \A k \in 1..proc[p].next : BootFrom(NextPlace(p).from)[k] = Boot(p)[k]
  BY <1>1, BootMoves
<1>4. Boot(p)' = BootFrom(proc'[p].from)
  BY <1>1 DEF Boot, BootFrom
<1>5. /\ \A k \in 1..proc[p].next : Boot(p)'[k] = Boot(p)[k]
      /\ proc'[p].next \in 1..Len(Boot(p)')
  BY <1>1, <1>2, <1>3, <1>4
<1> DEFINE n == proc[p].next
           L == Boot(p)'
           M == Boot(p)
<1>6. n \in Nat /\ n >= 1 /\ proc'[p].next - 1 = n /\ proc'[p].at = "boot"
  <2>1. n \in Nat /\ n >= 1
    BY <1>1
  <2>2. proc'[p].next = n + 1 /\ proc'[p].at = "boot"
    BY <1>1, <1>2
  <2> HIDE DEF n
  <2> QED BY <2>1, <2>2
<1>7. Ran(p)' = {L[i] : i \in 1..n}
  BY <1>6 DEF Ran
<1>8. Ran(p) = {M[i] : i \in 1..(n - 1)}
  BY <1>1 DEF Ran
<1>9. \A k \in 1..n : L[k] = M[k]
  BY <1>5
<1>10. M[n] = Current(p)
  BY DEF Current
<1>11. Ran(p)' = Ran(p) \cup {Current(p)}
  <2> HIDE DEF n, L, M
  <2>1. 1..n = 1..(n - 1) \cup {n}
    BY <1>6
  <2>2. {L[i] : i \in 1..n} = {M[i] : i \in 1..n}
    BY <1>9
  <2>3. {M[i] : i \in 1..n} = {M[i] : i \in 1..(n - 1)} \cup {M[n]}
    BY <2>1
  <2> QED BY <1>7, <1>8, <1>10, <2>2, <2>3
<1> QED BY <1>1, <1>2, <1>3, <1>4, <1>5, <1>6, <1>11

LEMMA RanSame ==
    ASSUME NEW q, backend' = backend, proc'[q] = proc[q]
    PROVE  /\ Boot(q)' = Boot(q) /\ Ran(q)' = Ran(q) /\ Current(q)' = Current(q)
           /\ Upgrading(q)' <=> Upgrading(q)
<1>1. Boot(q)' = Boot(q)
  BY DEF Boot
<1> QED BY <1>1 DEF Ran, Current, Upgrading

LEMMA RanNothing ==
    /\ \A p : proc'[p].at # "boot" => Ran(p)' = {}
    /\ \A p : proc[p].at # "boot" => Ran(p) = {}
    /\ \A p : proc'[p].at = "boot" /\ proc'[p].next = 1 => Ran(p)' = {}
  BY DEF Ran

LEMMA RanProper ==
    ASSUME NEW v, TypeInv(v), NEW p \in Procs
    PROVE  \A s \in Ran(p) : Proper(backend, s)
<1>1. proc[p].at = "boot" =>
         /\ \A k \in 1..Len(Boot(p)) : Proper(backend, Boot(p)[k])
         /\ proc[p].next \in 1..Len(Boot(p)) /\ Len(Boot(p)) \in Nat
  BY BootList
<1>2. proc[p].at = "boot" => 1..(proc[p].next - 1) \subseteq 1..Len(Boot(p))
  BY <1>1
<1> QED BY <1>1, <1>2 DEF Ran

\* A step of p is an advance, or p is not booting after it.
LEMMA MovesOrNot ==
    ASSUME NEW v, TypeInv(v), NEW p \in Procs, Moves(p)
    PROVE  /\ backend' = backend
           /\ \A q \in Procs \ {p} : proc'[q] = proc[q]
           /\ \/ Advances(p)
              \/ proc'[p].at # "boot"
              \/ proc'[p].at = "boot" /\ proc'[p].next = 1 /\ proc'[p].from = Unread
                 /\ proc[p].at # "boot"
<1>1. Served.at = "serving"
  BY DEF Served, Down
<1>2. CASE Executes(p)
  BY <1>2 DEF Executes, Advances
<1>3. CASE Commits(p)
  BY <1>1, <1>3 DEF Commits, Advances
<1>4. CASE Leaves(p)
  BY <1>4 DEF Leaves
<1>5. CASE Begins(p)
  BY <1>5 DEF Begins
<1>6. CASE Stores(p)
  BY <1>6 DEF Stores
<1> QED BY <1>2, <1>3, <1>4, <1>5, <1>6 DEF Moves

----------------------------------------------------------------------------
(* Every statement that has run has left what it makes.                    *)

LEMMA GrowsMoves ==
    ASSUME NEW v, TypeInv(v), NEW p \in Procs, Moves(p), Grows(db, work)
    PROVE  /\ Grows(db', work') /\ Grows(db, db')
           /\ \A q \in Procs : proc[q].at = "boot" /\ proc'[q].at = "boot"
                 => Grows(Sees(q), Sees(q)')
<1>1. /\ owner \in Procs \cup {NoProc} /\ (owner = NoProc => work = db)
      /\ p # NoProc /\ backend \in {"sqlite", "postgres"}
      /\ owner # NoProc => proc[owner].at = "boot"
  BY ProcAssumption DEF TypeInv
<1>2. \A q : Sees(q)' = IF owner' = q THEN work' ELSE db'
  BY DEF Sees
<1>3. \A q \in Procs : q # NoProc
  BY ProcAssumption
<1>4. CASE Executes(p)
  <2>1. proc[p].at = "boot"
    BY <1>4 DEF Executes
  <2>2. Proper(backend, Current(p)) /\ Sees(p) \in Databases(backend)
    BY <2>1, BootList, SeesSound
  <2>3. Grows(Sees(p), New(p))
    BY <2>2, ApplyFields DEF New
  <2>4. CASE ExecutesInside(p)
    <3>1. /\ (owner = p \/ owner = NoProc) /\ Sees(p) = work
          /\ work' = New(p) /\ db' = db /\ owner' = p
      BY <2>4 DEF ExecutesInside
    <3>2. Grows(db, New(p)) /\ Grows(work, New(p))
      BY <2>3, <3>1, GrowsOn
    <3>3. ASSUME NEW q \in Procs PROVE Grows(Sees(q), Sees(q)')
      <4>1. CASE q = p
        BY <1>2, <2>3, <3>1, <4>1
      <4>2. CASE q # p
        <5>1. Sees(q) = db /\ Sees(q)' = db
          BY <1>2, <1>3, <3>1, <4>2 DEF Sees
        <5> QED BY <5>1, GrowsSelf
      <4> QED BY <4>1, <4>2
    <3> QED BY <3>1, <3>2, <3>3, GrowsSelf
  <2>5. CASE ExecutesAlone(p)
    <3>1. /\ owner = NoProc /\ Sees(p) = work /\ work = db
          /\ work' = New(p) /\ db' = New(p) /\ owner' = NoProc
      BY <2>5 DEF ExecutesAlone
    <3>2. \A q \in Procs : Sees(q) = db /\ Sees(q)' = db'
      BY <1>2, <1>3, <3>1 DEF Sees
    <3> QED BY <2>3, <3>1, <3>2, GrowsSelf
  <2>6. CASE Reads(p)
    <3>1. work' = work /\ db' = db /\ owner' = owner
      BY <2>6 DEF Reads
    <3>2. \A q : Sees(q)' = Sees(q)
      BY <1>2, <3>1 DEF Sees
    <3> QED BY <3>1, <3>2, GrowsSelf
  <2> QED BY <1>4, <2>4, <2>5, <2>6 DEF Executes
<1>5. CASE Commits(p)
  <2>1. CASE owner = p /\ db' = work /\ owner' = NoProc /\ work' = work
    <3>1. \A q \in Procs : Sees(q)' = work /\ (Sees(q) = work \/ Sees(q) = db)
      BY <1>2, <1>3, <2>1 DEF Sees
    <3> QED BY <2>1, <3>1, GrowsSelf
  <2>2. CASE owner # p /\ db' = db /\ owner' = owner /\ work' = work
    <3>1. \A q : Sees(q)' = Sees(q)
      BY <1>2, <2>2 DEF Sees
    <3> QED BY <2>2, <3>1, GrowsSelf
  <2> QED BY <1>5, <2>1, <2>2 DEF Commits
<1>6. CASE Leaves(p)
  <2>0. db' = db /\ proc'[p].at # "boot"
    BY <1>6 DEF Leaves
  <2>1. CASE owner = p /\ work' = db /\ owner' = NoProc
    <3>1. \A q \in Procs \ {p} : Sees(q)' = db /\ Sees(q) = db
      BY <1>2, <1>3, <2>0, <2>1 DEF Sees
    <3> QED BY <2>0, <2>1, <3>1, GrowsSelf
  <2>2. CASE owner # p /\ work' = work /\ owner' = owner
    <3>1. \A q : Sees(q)' = Sees(q)
      BY <1>2, <2>0, <2>2 DEF Sees
    <3> QED BY <2>0, <2>2, <3>1, GrowsSelf
  <2> QED BY <1>6, <2>1, <2>2 DEF Leaves
<1>7. CASE Begins(p)
  <2>1. db' = db /\ work' = work /\ owner' = owner
    BY <1>7 DEF Begins
  <2>2. \A q : Sees(q)' = Sees(q)
    BY <1>2, <2>1 DEF Sees
  <2> QED BY <2>1, <2>2, GrowsSelf
<1>8. CASE Stores(p)
  <2>1. PICK t \in Indexed, r \in Rows :
           /\ db' = StoredIn(db, t, r, NewRows(db, t, r))
           /\ NewRows(db, t, r) = db.index[t].rows
              \/ (db.index[t].there /\ NewRows(db, t, r) = db.index[t].rows \cup {r})
    BY <1>8 DEF Stores
  <2>2. /\ backend = "sqlite" /\ owner = NoProc /\ owner' = NoProc /\ work = db /\ work' = db'
    BY <1>8 DEF Stores
  <2>3. Sound(backend, db)
    BY DEF TypeInv
  <2>4. db'.version = db.version /\ db'.tables = db.tables /\ db'.columns = db.columns
    BY <2>1, <2>3, StoredFields
  <2>5. Grows(db, db')
    BY <2>2, <2>4 DEF Grows
  <2>6. \A q \in Procs : Sees(q) = db /\ Sees(q)' = db'
    BY <1>2, <1>3, <2>2 DEF Sees
  <2> QED BY <2>2, <2>5, <2>6, GrowsSelf
<1> QED BY <1>4, <1>5, <1>6, <1>7, <1>8 DEF Moves

LEMMA LeftGrows ==
    ASSUME NEW s, Proper(backend, s), NEW d, NEW e, Left(d, s), Grows(d, e),
           backend \in {"sqlite", "postgres"}
    PROVE  Left(e, s)
  BY DEF Left, Grows, Proper

LEMMA WithIs ==
    ASSUME NEW b, NEW d \in Databases(b), NEW Y, NEW X, NEW I, NEW e, e = With(d, Y, X, I)
    PROVE  /\ e.tables = Y /\ e.columns = X /\ e.index = I /\ e.version = d.version
           /\ e.triggers = d.triggers /\ e.rows = d.rows /\ e.unfilled = d.unfilled
  BY WithFields

LEMMA LeftApply ==
    ASSUME NEW s, Proper(backend, s), NEW d \in Databases(backend), NEW m, Known(s, d, m)
    PROVE  Left(Apply(s, d, m), s)
<1> DEFINE e == Apply(s, d, m)
           x == <<s.table, s.name>>
<1>0. d.index \in [Indexed -> Shapes] /\ d \in Databases(backend)
  BY DEF Databases
<1>1. CASE s.op = "create table"
  <2>1. s.table \in e.tables
    <3>1. CASE s.table \in d.tables
      BY <1>1, <3>1, ApplyTable
    <3>2. CASE s.table \notin d.tables
      <4> DEFINE Y == d.tables \cup {s.table}
                 X == d.columns \cup ColumnsIn(s.table)
                 I == TableIndex(d, s.table)
      <4>1. e = With(d, Y, X, I)
        BY <1>1, <3>2, ApplyTable
      <4>2. s.table \in Y
        OBVIOUS
      <4> HIDE DEF Y, X, I, e
      <4>3. e.tables = Y
        BY <1>0, <4>1, WithIs
      <4> QED BY <4>2, <4>3 DEF e
    <3> QED BY <3>1, <3>2
  <2> QED BY <1>1, <2>1 DEF Left
<1>2. CASE s.op = "add column"
  <2>1. x \in e.columns
    <3>1. CASE m
      <4> DEFINE X == d.columns \cup {x}
                 Y == d.tables
                 I == d.index
      <4>1. e = With(d, Y, X, I)
        BY <1>2, <3>1, ApplyColumn
      <4>2. x \in X
        OBVIOUS
      <4> HIDE DEF X, Y, I, e, x
      <4>3. e.columns = X
        BY <1>0, <4>1, WithIs
      <4> QED BY <4>2, <4>3 DEF e
    <3>2. CASE ~m
      BY <1>2, <3>2, ApplyColumn DEF Known
    <3> QED BY <3>1, <3>2
  <2> QED BY <1>2, <2>1 DEF Left
<1>3. CASE s.op = "guarded column"
  <2> DEFINE X == d.columns \cup {x}
             Y == d.tables
             I == GuardedIndex(d, s)
  <2>1. e = With(d, Y, X, I)
    BY <1>3, ApplyGuarded
  <2>2. x \in X /\ (s.name \in {"content", "facets_text"} => I[s.table].wide)
    <3>1. s.name \in {"content", "facets_text"} => s.table \in Indexed
      BY <1>3 DEF Proper
    <3> QED BY <1>0, <3>1, GuardedIndexType
  <2> HIDE DEF X, Y, I, e, x
  <2>3. e.columns = X /\ e.index = I
    BY <1>0, <2>1, WithIs
  <2> QED BY <1>3, <2>2, <2>3 DEF Left, e, x
<1> QED BY <1>1, <1>2, <1>3 DEF Left

LEMMA DoneInit == Init => Done
<1> SUFFICES ASSUME Init PROVE Done
  OBVIOUS
<1>1. work = db /\ \A p \in Procs : proc[p].at = "down"
  BY DEF Init, Down
<1>2. \A p \in Procs : Ran(p) = {} /\ Looked(p)
  BY <1>1, RanNothing DEF Looked
<1>3. Grows(db, work)
  BY <1>1, GrowsSelf
<1> QED BY <1>2, <1>3 DEF Done

LEMMA SeesNew ==
    ASSUME NEW v, TypeInv(v), NEW p \in Procs, Executes(p)
    PROVE  Sees(p)' = New(p)
<1>1. Sees(p)' = IF owner' = p THEN work' ELSE db'
  BY DEF Sees
<1>2. CASE ExecutesInside(p)
  BY <1>1, <1>2 DEF ExecutesInside
<1>3. CASE ExecutesAlone(p)
  BY <1>1, <1>3 DEF ExecutesAlone
<1>4. CASE Reads(p)
  BY <1>1, <1>4 DEF Reads, Sees
<1> QED BY <1>2, <1>3, <1>4 DEF Executes

LEMMA KnownCurrent ==
    ASSUME NEW v, TypeInv(v), NEW p \in Procs, proc[p].at = "boot", Looked(p)
    PROVE  Known(Current(p), Sees(p), proc[p].missing)
<1> DEFINE k == proc[p].next
           L == Boot(p)
<1>1. SUFFICES ASSUME Current(p).op = "add column", ~proc[p].missing
               PROVE <<Current(p).table, Current(p).name>> \in Sees(p).columns
  BY DEF Known
<1>2. /\ proc[p].from \in {Unread} \cup 0..19 /\ backend \in {"sqlite", "postgres"}
      /\ k \in 1..Len(L) /\ Len(L) \in Nat /\ Proper(backend, Current(p))
      /\ (backend = "sqlite" => L = SqliteBoot[proc[p].from])
  BY BootList DEF TypeInv
<1>3. backend = "sqlite"
  BY <1>1, <1>2 DEF Proper
<1>4. Paired(L)
  BY <1>2, <1>3, BootPaired
<1>5. L[k] = Current(p)
  BY DEF Current
<1> HIDE DEF L, k
<1>6. /\ k > 1 /\ L[k - 1].op = "has column"
      /\ L[k - 1].table = Current(p).table /\ L[k - 1].name = Current(p).name
  BY <1>1, <1>2, <1>4, <1>5 DEF Paired
<1> QED BY <1>1, <1>6 DEF Looked, L, k

LEMMA DoneStep ==
    ASSUME NEW v, TypeInv(v), Done, NEW p \in Procs, Moves(p)
    PROVE  Done'
<1>1. /\ Grows(db', work') /\ Grows(db, db')
      /\ \A q \in Procs : proc[q].at = "boot" /\ proc'[q].at = "boot"
            => Grows(Sees(q), Sees(q)')
  BY GrowsMoves DEF Done
<1>2. /\ backend' = backend /\ \A q \in Procs \ {p} : proc'[q] = proc[q]
      /\ \/ Advances(p)
         \/ proc'[p].at # "boot"
         \/ proc'[p].at = "boot" /\ proc'[p].next = 1
  BY MovesOrNot
<1>3. Grows(db, work)'
  BY <1>1, <1>2 DEF Grows
<1>4. backend \in {"sqlite", "postgres"} /\ \A q \in Procs : \A s \in Ran(q) : Proper(backend, s)
  BY RanProper DEF TypeInv
<1>5. ASSUME NEW q \in Procs, q # p
      PROVE  (\A s \in Ran(q) : Left(Sees(q), s))' /\ Looked(q)'
  <2>1. proc'[q] = proc[q] /\ Boot(q)' = Boot(q) /\ Ran(q)' = Ran(q)
    BY <1>2, <1>5, RanSame
  <2>2. CASE proc[q].at = "boot"
    <3>1. Grows(Sees(q), Sees(q)')
      BY <1>1, <2>1, <2>2
    <3>2. \A s \in Ran(q) : Left(Sees(q)', s)
      BY <1>4, <3>1, LeftGrows DEF Done
    <3>3. Looked(q)'
      BY <2>1, <3>1 DEF Done, Looked, Grows
    <3>4. (\A s \in Ran(q) : Left(Sees(q), s))' <=> \A s \in Ran(q)' : Left(Sees(q)', s)
      BY DEF Left
    <3> QED BY <2>1, <3>2, <3>3, <3>4
  <2>3. CASE proc[q].at # "boot"
    BY <2>1, <2>3, RanNothing DEF Looked
  <2> QED BY <2>2, <2>3
<1>6. (\A s \in Ran(p) : Left(Sees(p), s))' /\ Looked(p)'
  <2>0. (\A s \in Ran(p) : Left(Sees(p), s))' <=> \A s \in Ran(p)' : Left(Sees(p)', s)
    BY DEF Left
  <2>1. CASE proc'[p].at # "boot"
    BY <2>0, <2>1, RanNothing DEF Looked
  <2>2. CASE proc'[p].at = "boot" /\ proc'[p].next = 1
    BY <2>0, <2>2, RanNothing DEF Looked
  <2>3. CASE Advances(p)
    <3>1. /\ proc'[p].at = "boot" /\ proc'[p].next = proc[p].next + 1
          /\ proc[p].next \in Nat /\ proc[p].next >= 1
          /\ proc'[p].missing = (Current(p).op = "has column"
                /\ <<Current(p).table, Current(p).name>> \notin Sees(p).columns)
          /\ \A k \in 1..proc[p].next : Boot(p)'[k] = Boot(p)[k]
          /\ Ran(p)' = Ran(p) \cup {Current(p)}
      BY <2>3, AdvanceMoves
    <3>2. proc[p].at = "boot" /\ Grows(Sees(p), Sees(p)')
      BY <1>1, <2>3, <3>1 DEF Advances
    <3>3. \A s \in Ran(p) : Left(Sees(p)', s)
      BY <1>4, <3>2, LeftGrows DEF Done
    <3>4. Left(Sees(p)', Current(p))
      <4>1. Proper(backend, Current(p)) /\ Sees(p) \in Databases(backend)
        BY <3>2, BootList, SeesSound
      <4>2. CASE Executes(p)
        <5>1. Sees(p)' = New(p)
          BY <4>2, SeesNew
        <5>2. Known(Current(p), Sees(p), proc[p].missing)
          BY <3>2, KnownCurrent DEF Done
        <5>3. Left(New(p), Current(p))
          BY <4>1, <5>2, LeftApply DEF New
        <5> QED BY <5>1, <5>3
      <4>3. CASE Current(p).op = "commit"
        BY <4>3 DEF Left
      <4>4. Executes(p) \/ Current(p).op = "commit"
        <5>1. Begins(p) => proc[p].at # "boot"
          BY DEF Begins
        <5>2. Stores(p) => proc[p].at # "boot"
          BY DEF Stores
        <5>3. Leaves(p) => proc'[p].at # "boot"
          BY DEF Leaves
        <5> QED BY <3>1, <3>2, <5>1, <5>2, <5>3 DEF Moves, Commits
      <4> QED BY <4>2, <4>3, <4>4
    <3>5. Looked(p)'
      <4> DEFINE n == proc[p].next
      <4>1. proc'[p].next - 1 = n /\ n \in 1..n
        <5>1. n \in Nat /\ n >= 1 /\ proc'[p].next = n + 1
          BY <3>1
        <5> HIDE DEF n
        <5> QED BY <5>1
      <4>2. Boot(p)'[proc'[p].next - 1] = Current(p)
        BY <3>1, <4>1 DEF Current
      <4>3. Current(p).op = "has column" /\ ~proc'[p].missing =>
               <<Current(p).table, Current(p).name>> \in Sees(p).columns
        BY <3>1
      <4>4. Sees(p).columns \subseteq Sees(p)'.columns
        BY <3>2 DEF Grows
      <4> QED BY <4>2, <4>3, <4>4 DEF Looked
    <3> QED BY <2>0, <3>1, <3>3, <3>4, <3>5
  <2> QED BY <1>2, <2>1, <2>2, <2>3
<1>7. \A q \in Procs : (\A s \in Ran(q) : Left(Sees(q), s))' /\ Looked(q)'
  BY <1>5, <1>6
<1> QED BY <1>3, <1>7 DEF Done

----------------------------------------------------------------------------
(* Tables and columns.                                                     *)

LEMMA SpecialNames ==
    ASSUME NEW x \in SqliteColumns
    PROVE  x[2] # "subject_keys" /\ x[2] # "provenance" /\ x[2] # "entity_type"
<1>1. x[2] \in SqliteNames
  BY AddedColumns
<1> QED BY <1>1 DEF SqliteNames

LEMMA ColumnVersionIs ==
    ASSUME NEW x \in SqliteColumns
    PROVE  \E n \in 1..18 : x \in ColumnsOf(Migrations[n]) /\ ColumnVersion(x) = 1 + n
<1>1. DOMAIN Migrations = 1..18
  BY DEF Migrations
<1>2. \E n \in 1..18 : x \in ColumnsOf(Migrations[n])
  BY AddedColumns
<1> DEFINE n == CHOOSE n \in DOMAIN Migrations : x \in ColumnsOf(Migrations[n])
<1>3. n \in 1..18 /\ x \in ColumnsOf(Migrations[n])
  BY <1>1, <1>2
<1>4. ColumnVersion(x) = 1 + n
  BY SpecialNames DEF ColumnVersion
<1> QED BY <1>3, <1>4

LEMMA TableVersionIs ==
    /\ \A t \in PgTables : TableVersion(t) \in 1..18
    /\ TablesOf("sqlite") = SqliteTables /\ TablesOf("postgres") = PgTables
<1>1. ASSUME NEW t \in PgTables PROVE TableVersion(t) \in 1..18
  BY DEF TableVersion, PgTables, SqliteTables
<1> QED BY <1>1 DEF TablesOf, PgTables

LEMMA SchemaFound ==
    ASSUME NEW v \in 0..19, backend \in {"sqlite", "postgres"}
    PROVE  Schema(v, Found(backend, v)) /\ Whole(Found(backend, v))
<1> DEFINE d == Found(backend, v)
<1>1. /\ d.version = v
      /\ d.tables = {t \in TablesOf(backend) : There(t, v)}
      /\ d.columns = {x \in ColumnsBy(backend) : There(x[1], v) /\ ColumnVersion(x) <= v}
      /\ \A t \in Indexed : d.index[t] = FoundIndex(t, v)
  BY FoundFields
<1>2. \A t \in Indexed : There(t, v) =>
         d.index[t].there /\ d.index[t].wide = Wide(t, v)
  BY <1>1, FoundIndexFields
<1> HIDE DEF d
<1>3. ASSUME backend = "sqlite", NEW x \in SqliteColumns, x \notin d.columns,
             x[1] \in d.tables
      PROVE  v > 0 /\ \E n \in 1..18 : n >= v /\ x \in ColumnsOf(Migrations[n])
  <2>1. There(x[1], v) /\ v > 0
    BY <1>1, <1>3 DEF There
  <2>2. x \in ColumnsBy(backend)
    BY <1>3 DEF ColumnsBy
  <2>3. ~(ColumnVersion(x) <= v)
    BY <1>1, <1>3, <2>1, <2>2
  <2>4. PICK n \in 1..18 : x \in ColumnsOf(Migrations[n]) /\ ColumnVersion(x) = 1 + n
    BY ColumnVersionIs
  <2>5. n >= v
    BY <2>3, <2>4
  <2> QED BY <2>1, <2>4, <2>5
<1>4. ASSUME NEW t \in Indexed, t \in d.tables
      PROVE  d.index[t].there /\ (t = "knowledge" => d.index[t].wide)
  <2>1. There(t, v)
    BY <1>1, <1>4
  <2>2. t = "knowledge" => Wide(t, v)
    BY DEF Wide
  <2> QED BY <1>2, <2>1, <2>2
<1>5. Schema(v, d)
  BY <1>3, <1>4 DEF Schema
<1>6. ASSUME v = 19 PROVE Whole(d)
  <2>1. \A t \in PgTables : There(t, v)
    BY <1>6, TableVersionIs DEF There
  <2>2. SqliteTables \subseteq PgTables /\ Indexed \subseteq PgTables
    BY DEF PgTables, SqliteTables, Indexed
  <2>3. d.tables = TablesOf(backend)
    BY <1>1, <2>1, <2>2, TableVersionIs
  <2>4. \A x \in ColumnsBy(backend) : There(x[1], v) /\ ColumnVersion(x) <= v
    <3>1. SUFFICES ASSUME NEW x \in ColumnsBy(backend)
                   PROVE There(x[1], v) /\ ColumnVersion(x) <= v
      OBVIOUS
    <3>2. CASE x \in SqliteColumns
      <4>1. x[1] \in PgTables
        BY <2>2, <3>2, AddedColumns
      <4>2. PICK n \in 1..18 : ColumnVersion(x) = 1 + n
        BY <3>2, ColumnVersionIs
      <4> QED BY <1>6, <2>1, <4>1, <4>2
    <3>3. CASE x \notin SqliteColumns
      <4>1. x \in PgColumns
        BY <3>3 DEF ColumnsBy
      <4>2. x[1] \in PgTables
        BY <4>1, PgColumnsAre
      <4>3. x[2] \in {"subject_keys", "provenance", "entity_type"}
        BY <3>3, <4>1, PgColumnsAre
      <4>4. ColumnVersion(x) \in {7, 13}
        BY <4>3 DEF ColumnVersion
      <4> QED BY <1>6, <2>1, <4>2, <4>4
    <3> QED BY <3>2, <3>3
  <2>5. d.columns = ColumnsBy(backend)
    BY <1>1, <2>4
  <2>6. ASSUME NEW t \in Indexed PROVE d.index[t].there /\ d.index[t].wide
    <3>1. There(t, v)
      BY <2>1, <2>2
    <3>2. Wide(t, v)
      BY <1>6 DEF Wide
    <3> QED BY <1>2, <3>1, <3>2
  <2> QED BY <2>3, <2>5, <2>6 DEF Whole, Full
<1>7. v # 19 => Whole(d)
  BY <1>1 DEF Whole, Full
<1> QED BY <1>5, <1>6, <1>7 DEF d

LEMMA SchemaApply ==
    ASSUME NEW v, NEW s, Proper(backend, s), NEW d, d \in Databases(backend), Schema(v, d),
           NEW m, NEW e, e = Apply(s, d, m), backend \in {"sqlite", "postgres"}
    PROVE  Schema(v, e)
<1>0. Grows(d, e) /\ Keeps(s, d, e)
  BY ApplyFields
<1>1. Grows(d, e) /\ (s.op # "create table" => e.tables = d.tables)
  BY <1>0 DEF Keeps
<1>2. d.index \in [Indexed -> Shapes]
  BY DEF Databases
<1>3. CASE e.tables = d.tables
  <2>1. d.columns \subseteq e.columns
    BY <1>1 DEF Grows
  <2>2. backend = "postgres" => \A t \in Indexed :
          (d.index[t].there => e.index[t].there) /\ (d.index[t].wide => e.index[t].wide)
    BY <1>1 DEF Grows
  <2> QED BY <1>3, <2>1, <2>2 DEF Schema
<1>4. CASE s.op = "create table" /\ s.table \notin d.tables
  <2> DEFINE Y == d.tables \cup {s.table}
             X == d.columns \cup ColumnsIn(s.table)
             I == TableIndex(d, s.table)
  <2>1. e = With(d, Y, X, I)
    BY <1>4, ApplyTable
  <2> HIDE DEF Y, X, I
  <2>2. e.tables = Y /\ e.columns = X /\ e.index = I
    BY <2>1, WithIs
  <2>3. ASSUME backend = "sqlite", NEW x \in SqliteColumns
        PROVE  x \in e.columns \/ x[1] \notin e.tables
                  \/ (v > 0 /\ \E n \in 1..18 : n >= v /\ x \in ColumnsOf(Migrations[n]))
    <3>1. CASE x[1] = s.table
      <4>1. x \in ColumnsIn(s.table)
        BY <2>3, <3>1 DEF ColumnsIn, ColumnsBy
      <4> QED BY <2>2, <4>1 DEF X
    <3>2. CASE x[1] # s.table
      <4>1. x[1] \in e.tables => x[1] \in d.tables
        BY <2>2, <3>2 DEF Y
      <4>2. x \in d.columns => x \in e.columns
        BY <2>2 DEF X
      <4> QED BY <2>3, <4>1, <4>2 DEF Schema
    <3> QED BY <3>1, <3>2
  <2>4. ASSUME backend = "postgres", NEW t \in Indexed, t \in e.tables
        PROVE  e.index[t].there /\ (t = "knowledge" => e.index[t].wide)
    <3>1. CASE t = s.table
      <4>1. I[t].there /\ I[t].wide
        BY <1>2, <2>4, <3>1, TableIndexType DEF I
      <4> QED BY <2>2, <4>1
    <3>2. CASE t # s.table
      <4>1. t \in d.tables
        BY <2>2, <2>4, <3>2 DEF Y
      <4>2. d.index[t].there /\ (t = "knowledge" => d.index[t].wide)
        BY <2>4, <4>1 DEF Schema
      <4> QED BY <1>1, <2>4, <4>2 DEF Grows
    <3> QED BY <3>1, <3>2
  <2> QED BY <2>3, <2>4 DEF Schema
<1>5. CASE s.op = "create table" /\ s.table \in d.tables
  BY <1>3, <1>5, ApplyTable
<1> QED BY <1>1, <1>3, <1>4, <1>5

LEMMA FullGrows ==
    ASSUME NEW d, Full(d), NEW e \in Databases(backend), Grows(d, e)
    PROVE  Full(e)
<1>1. e.tables \subseteq TablesOf(backend) /\ e.columns \subseteq ColumnsBy(backend)
  BY DEF Databases
<1> QED BY <1>1 DEF Full, Grows

\* A boot stamps a database when it has run all that comes before.
LEMMA StampRan ==
    ASSUME NEW v, TypeInv(v), NEW p \in Procs, proc[p].at = "boot", Versions(Current(p))
    PROVE  /\ backend = "sqlite" =>
                 /\ proc[p].from \in 0..18 /\ proc[p].from = v
                 /\ proc[p].next = Past(proc[p].from) - 1
                 /\ Current(p) = StampOf(proc[p].from)
                 /\ Elems(CoreScript) \subseteq Ran(p)
                 /\ Elems(Migrated(proc[p].from)) \subseteq Ran(p)
           /\ backend = "postgres" => Elems(PgDdl) \subseteq Ran(p)
<1>1. /\ proc[p].from \in {Unread} \cup 0..19 /\ proc[p].from \in {Unread, v, 19}
      /\ proc[p].next \in 1..Len(Boot(p)) /\ Len(Boot(p)) \in Nat
      /\ backend = "sqlite" => Boot(p) = SqliteBoot[proc[p].from]
      /\ backend = "postgres" => Boot(p) = PgBoot
  BY BootList DEF TypeInv, Placed
<1> DEFINE f == proc[p].from
           k == proc[p].next
           s == Current(p)
<1>2. ASSUME backend = "sqlite"
      PROVE  /\ f \in 0..18 /\ f = v /\ k = Past(f) - 1 /\ s = StampOf(f)
             /\ Elems(CoreScript) \subseteq Ran(p) /\ Elems(Migrated(f)) \subseteq Ran(p)
  <2>1. s = SqliteBoot[f][k] /\ k \in 1..Len(SqliteBoot[f])
    BY <1>1, <1>2 DEF Current
  <2>2. Versions(s)
    OBVIOUS
  <2>3. f \in {Unread} \cup 0..19 /\ f \in {Unread, v, 19} /\ Ran(p) = {Boot(p)[i] : i \in 1..(k - 1)}
    BY <1>1 DEF Ran
  <2>4. Boot(p) = SqliteBoot[f]
    BY <1>1, <1>2
  <2> HIDE DEF f, k, s
  <2>5. s \notin Elems(CoreScript)
    <3>1. s \in Elems(CoreScript) => Core(s)
      BY CoreElems
    <3>2. ~Core(s)
      BY <2>2 DEF Core, Versions, Ensures
    <3> QED BY <3>1, <3>2
  <2>6. s # End /\ s # Fill
    BY <2>2, EndFields, FillFields DEF Versions
  <2>7. ASSUME f \in 1..18 PROVE s \notin Elems(Migrated(f))
    <3>1. s \in Elems(Migrated(f)) => Legal(s, f)
      BY <2>7, MigratedLegal
    <3>2. ~Legal(s, f)
      BY <2>2 DEF Legal, Versions, Columns, Ensures, Drops, Makes
    <3> QED BY <3>1, <3>2
  <2>8. f \in 0..18 /\ k = Past(f) - 1 /\ s = StampOf(f)
    BY <2>1, <2>3, <2>5, <2>6, <2>7, BootAt
  <2>9. f = v
    BY <2>3, <2>8, UnreadIs
  <2>10. ASSUME NEW x \in Elems(CoreScript) \cup Elems(Migrated(f)) PROVE x \in Ran(p)
    <3>1. PICK i \in 1..(Past(f) - 2) : SqliteBoot[f][i] = x
      BY <2>8, BootBefore
    <3> DEFINE b == f
    <3>2. b \in 0..19 /\ b = f
      BY <2>8
    <3> HIDE DEF b
    <3>4. Past(b) \in Nat
      BY <3>2, BootLast
    <3>3. i \in 1..(k - 1)
      BY <2>8, <3>1, <3>2, <3>4
    <3> QED BY <2>3, <2>4, <3>1, <3>3
  <2> QED BY <2>8, <2>9, <2>10
<1>3. ASSUME backend = "postgres" PROVE Elems(PgDdl) \subseteq Ran(p)
  <2>1. s = PgBoot[k] /\ k \in 1..Len(PgBoot) /\ Versions(s)
        /\ Ran(p) = {PgBoot[i] : i \in 1..(k - 1)}
    BY <1>1, <1>3 DEF Current, Ran
  <2> HIDE DEF k, s
  <2>2. k \in 1..Len(PgDdl) => s.op # "stamp" /\ ~Versions(s)
    <3>1. k \in 1..Len(PgDdl) => PgLegal(s)
      BY <2>1, PgBootAt, PgElems
    <3> QED BY <3>1 DEF PgLegal, Versions
  <2>3. k > Len(PgDdl) /\ Len(PgDdl) \in Nat
    BY <2>1, <2>2, PgBootAt
  <2>4. ASSUME NEW x \in Elems(PgDdl) PROVE x \in Ran(p)
    <3>1. PICK i \in 1..Len(PgDdl) : PgBoot[i] = x
      BY PgBootAt
    <3>2. i \in 1..(k - 1)
      BY <2>1, <2>3, <3>1
    <3> QED BY <2>1, <3>1, <3>2
  <2> QED BY <2>4
<1> QED BY <1>2, <1>3

LEMMA FullBefore ==
    ASSUME NEW v, TypeInv(v), Done, NEW p \in Procs, proc[p].at = "boot",
           Versions(Current(p)), Schema(v, Sees(p))
    PROVE  Full(Sees(p))
<1> DEFINE d == Sees(p)
           f == proc[p].from
<1>1. d \in Databases(backend) /\ backend \in {"sqlite", "postgres"} /\ v \in 0..19
  BY SeesSound DEF TypeInv
<1>2. \A s \in Ran(p) : Left(d, s)
  BY DEF Done
<1>3. d.tables \subseteq TablesOf(backend) /\ d.columns \subseteq ColumnsBy(backend)
  BY <1>1 DEF Databases
<1>4. CASE backend = "sqlite"
  <2>1. /\ f \in 0..18 /\ f = v
        /\ Elems(CoreScript) \subseteq Ran(p) /\ Elems(Migrated(f)) \subseteq Ran(p)
    BY <1>4, StampRan
  <2> HIDE DEF d, f
  <2>2. ASSUME NEW t \in SqliteTables PROVE t \in d.tables
    <3>1. PICK s \in Elems(CoreScript) : s.op = "create table" /\ s.table = t
      BY CoreElems
    <3> QED BY <1>2, <2>1, <3>1 DEF Left
  <2>3. ASSUME NEW x \in SqliteColumns PROVE x \in d.columns
    <3>1. x[1] \in d.tables
      BY <2>2, AddedColumns
    <3>2. ASSUME v > 0, NEW n \in 1..18, n >= v, x \in ColumnsOf(Migrations[n])
          PROVE  x \in d.columns
      <4>1. PICK s \in Elems(Migrations[n]) : s.op = "add column" /\ x = <<s.table, s.name>>
        BY <3>2, AddedColumns
      <4>2. s \in Elems(Migrated(f))
        <5>1. f \in 1..18
          BY <2>1, <3>2
        <5> QED BY <2>1, <3>2, <4>1, <5>1, MigratedIs
      <4> QED BY <1>2, <2>1, <4>1, <4>2 DEF Left
    <3> QED BY <1>4, <3>1, <3>2 DEF Schema, d
  <2>4. d.tables = TablesOf(backend) /\ d.columns = ColumnsBy(backend)
    BY <1>3, <1>4, <2>2, <2>3, TableVersionIs DEF ColumnsBy, d
  <2> QED BY <1>4, <2>4 DEF Full, d
<1>5. CASE backend = "postgres"
  <2>1. Elems(PgDdl) \subseteq Ran(p)
    BY <1>5, StampRan
  <2> HIDE DEF d, f
  <2>2. ASSUME NEW t \in PgTables PROVE t \in d.tables
    <3>1. PICK s \in Elems(PgDdl) : s.op = "create table" /\ s.table = t
      BY PgElems
    <3> QED BY <1>2, <2>1, <3>1 DEF Left
  <2>3. ASSUME NEW x \in PgColumns PROVE x \in d.columns
    <3>1. PICK s \in Elems(PgDdl) : s.op = "guarded column" /\ x = <<s.table, s.name>>
      BY PgColumnsAre
    <3> QED BY <1>2, <2>1, <3>1 DEF Left
  <2>4. d.index["rules"].wide
    <3>1. PICK s \in Elems(PgDdl) : s.op = "guarded column" /\ s.table = "rules" /\ s.name = "content"
      BY PgElems
    <3> QED BY <1>2, <2>1, <3>1 DEF Left
  <2>5. d.index["entries"].wide
    <3>1. PICK s \in Elems(PgDdl) : s.op = "guarded column" /\ s.table = "entries" /\ s.name = "facets_text"
      BY PgElems
    <3> QED BY <1>2, <2>1, <3>1 DEF Left
  <2>6. Indexed \subseteq PgTables
    BY DEF Indexed, PgTables, SqliteTables
  <2>7. \A t \in Indexed : d.index[t].there /\ (t = "knowledge" => d.index[t].wide)
    BY <1>5, <2>2, <2>6 DEF Schema, d
  <2>8. \A t \in Indexed : d.index[t].wide
    BY <2>4, <2>5, <2>7 DEF Indexed
  <2>9. d.tables = TablesOf(backend) /\ d.columns = ColumnsBy(backend)
    BY <1>3, <1>5, <2>2, <2>3, TableVersionIs DEF ColumnsBy, d
  <2> QED BY <2>7, <2>8, <2>9 DEF Full, d
<1> QED BY <1>1, <1>4, <1>5

LEMMA TabledNew ==
    ASSUME NEW v, TypeInv(v), Done, Tabled(v), NEW p \in Procs, Executes(p)
    PROVE  Schema(v, New(p)) /\ Whole(New(p))
<1>1. /\ proc[p].at = "boot" /\ ~Raises(Current(p), Sees(p), proc[p].missing)
      /\ backend \in {"sqlite", "postgres"}
  BY DEF Executes, TypeInv
<1>2. /\ Proper(backend, Current(p)) /\ Sees(p) \in Databases(backend)
      /\ New(p) \in Databases(backend)
  BY <1>1, BootList, SeesSound, NewSound DEF Sound
<1>3. Schema(v, Sees(p)) /\ Whole(Sees(p))
  BY DEF Tabled, Sees
<1>4. Schema(v, New(p))
  BY <1>1, <1>2, <1>3, SchemaApply DEF New
<1>5. Grows(Sees(p), New(p)) /\ Keeps(Current(p), Sees(p), New(p))
  BY <1>2, ApplyFields DEF New
<1>6. ASSUME New(p).version = 19 PROVE Full(New(p))
  <2>1. Versions(Current(p)) \/ Sees(p).version = 19
    BY <1>5, <1>6 DEF Keeps
  <2>2. Full(Sees(p))
    BY <1>1, <1>3, <2>1, FullBefore DEF Whole
  <2> QED BY <1>2, <1>5, <2>2, FullGrows
<1> QED BY <1>4, <1>6 DEF Whole

LEMMA TabledStep ==
    ASSUME NEW v, TypeInv(v), Done, Tabled(v), NEW p \in Procs, Moves(p)
    PROVE  Tabled(v)'
<1>0. backend' = backend
  BY MovesOrNot
<1>1. ASSUME NEW d, Schema(v, d), Whole(d) PROVE Schema(v, d) /\ Whole(d)
  BY <1>1
<1>2. SUFFICES /\ Schema(v, db') /\ Whole(db') /\ Schema(v, work') /\ Whole(work')
  BY <1>0 DEF Tabled, Schema, Whole, Full
<1>3. Schema(v, db) /\ Whole(db) /\ Schema(v, work) /\ Whole(work)
  BY DEF Tabled
<1>4. CASE Executes(p)
  <2>1. Schema(v, New(p)) /\ Whole(New(p))
    BY <1>4, TabledNew
  <2>2. (db' = db \/ db' = New(p)) /\ (work' = work \/ work' = New(p))
    BY <1>4 DEF Executes, ExecutesInside, ExecutesAlone, Reads
  <2> QED BY <1>3, <2>1, <2>2
<1>5. CASE Commits(p) \/ Leaves(p) \/ Begins(p)
  <2>1. (db' = db \/ db' = work) /\ (work' = work \/ work' = db)
    BY <1>5 DEF Commits, Leaves, Begins
  <2> QED BY <1>3, <2>1
<1>6. CASE Stores(p)
  <2>1. PICK t \in Indexed, r \in Rows :
           /\ db' = StoredIn(db, t, r, NewRows(db, t, r))
           /\ NewRows(db, t, r) = db.index[t].rows
              \/ (db.index[t].there /\ NewRows(db, t, r) = db.index[t].rows \cup {r})
    BY <1>6 DEF Stores
  <2>2. backend = "sqlite" /\ work' = db'
    BY <1>6 DEF Stores
  <2>3. Sound(backend, db)
    BY DEF TypeInv
  <2>4. db'.version = db.version /\ db'.tables = db.tables /\ db'.columns = db.columns
    BY <2>1, <2>3, StoredFields
  <2>5. Schema(v, db') /\ Whole(db')
    BY <1>3, <2>2, <2>4 DEF Schema, Whole, Full
  <2> QED BY <2>2, <2>5
<1> QED BY <1>4, <1>5, <1>6 DEF Moves

LEMMA TabledInit ==
    ASSUME NEW v \in 0..19, TypeInv(v), Init, db = Found(backend, v)
    PROVE  Tabled(v)
<1>1. work = db /\ backend \in {"sqlite", "postgres"}
  BY DEF Init, TypeInv
<1>2. Schema(v, db) /\ Whole(db)
  BY <1>1, SchemaFound
<1> QED BY <1>1, <1>2 DEF Tabled

----------------------------------------------------------------------------
(* When a boot is past the stamp.                                          *)

LEMMA OthersHold ==
    ASSUME NEW v, TypeInv(v), NEW p \in Procs, Moves(p), NEW q \in Procs, q # p
    PROVE  /\ owner' = q <=> owner = q
           /\ owner = q => work' = work
<1>1. q # NoProc
  BY ProcAssumption
<1>2. CASE Executes(p)
  BY <1>1, <1>2 DEF Executes, ExecutesInside, ExecutesAlone, Reads
<1>3. CASE Commits(p)
  BY <1>1, <1>3 DEF Commits
<1>4. CASE Leaves(p)
  BY <1>1, <1>4 DEF Leaves
<1>5. CASE Begins(p)
  BY <1>5 DEF Begins
<1>6. CASE Stores(p)
  BY <1>1, <1>6 DEF Stores
<1> QED BY <1>2, <1>3, <1>4, <1>5, <1>6 DEF Moves

LEMMA VersionedInit == Init => Versioned
<1> SUFFICES ASSUME Init PROVE Versioned
  OBVIOUS
<1>1. \A p \in Procs : proc[p].at = "down" /\ proc[p].from = Unread
  BY DEF Init, Down
<1>2. Unread # 19
  BY DEF Unread
<1> QED BY <1>1, <1>2 DEF Versioned, VersionedAt

\* The place before which a version was read, or that of the stamp.
LEMMA PastPlaces ==
    ASSUME NEW v, TypeInv(v), backend = "sqlite", NEW p \in Procs, proc[p].at = "boot"
    PROVE  /\ proc[p].from = Unread => proc[p].next <= Len(CoreScript)
           /\ Len(CoreScript) \in Nat /\ proc[p].next \in Nat
           /\ proc[p].from \in 0..19 => Past(proc[p].from) \in Nat
           /\ \A f \in 0..18 : Past(f) >= Len(CoreScript) + 2
           /\ proc[p].from \in 0..18 /\ proc[p].next = Past(proc[p].from) =>
                 Current(p) = End
           /\ proc[p].from \in 0..18 /\ proc[p].next = Past(proc[p].from) - 1 =>
                 Current(p) = StampOf(proc[p].from)
<1>1. /\ Boot(p) = SqliteBoot[proc[p].from] /\ proc[p].next \in 1..Len(Boot(p))
      /\ Len(Boot(p)) \in Nat
  BY BootList
<1> DEFINE f == proc[p].from
           k == proc[p].next
<1>2. Len(CoreScript) \in Nat /\ Len(SqliteBoot[Unread]) = Len(CoreScript)
  BY UnreadIs, BootPrefix
<1>3. f = Unread => k <= Len(CoreScript)
  <2> HIDE DEF k
  <2> QED BY <1>1, <1>2 DEF k
<1>4. ASSUME NEW g \in 0..18
      PROVE  /\ Past(g) \in Nat /\ Past(g) >= Len(CoreScript) + 2
             /\ SqliteBoot[g][Past(g) - 1] = StampOf(g)
             /\ SqliteBoot[g][Past(g)] = End
  <2> DEFINE n == Len(Before(g))
             m == Past(g)
             l == Len(CoreScript)
  <2>1. m = n + 2 /\ n \in Nat /\ n >= l
    BY BootParts
  <2>2. SqliteBoot[g][n + 1] = StampOf(g) /\ SqliteBoot[g][n + 2] = End
    BY BootParts
  <2>3. l \in Nat
    BY <1>2
  <2> HIDE DEF n, m, l
  <2>4. m \in Nat /\ m >= l + 2 /\ m - 1 = n + 1 /\ m = n + 2
    BY <2>1, <2>3
  <2>5. SqliteBoot[g][m - 1] = StampOf(g) /\ SqliteBoot[g][m] = End
    BY <2>2, <2>4
  <2> QED BY <2>4, <2>5 DEF m, l
<1>5. ASSUME f \in 0..19 PROVE Past(f) \in Nat
  BY <1>5, BootLast
<1>6. ASSUME f \in 0..18, k = Past(f) PROVE Current(p) = End
  BY <1>1, <1>4, <1>6 DEF Current
<1>7. ASSUME f \in 0..18, k = Past(f) - 1 PROVE Current(p) = StampOf(f)
  BY <1>1, <1>4, <1>7 DEF Current
<1> HIDE DEF f, k
<1>8. k \in Nat
  BY <1>1 DEF k
<1> QED BY <1>2, <1>3, <1>4, <1>5, <1>6, <1>7, <1>8 DEF f, k

LEMMA VersionedOthers ==
    ASSUME NEW v, TypeInv(v), Done, NEW p \in Procs, Moves(p), NEW q \in Procs, q # p,
           VersionedAt(q)
    PROVE  VersionedAt(q)'
<1>1. Grows(db, db')
  BY GrowsMoves DEF Done
<1>2. proc'[q] = proc[q]
  BY MovesOrNot
<1>3. (owner' = q <=> owner = q) /\ (owner = q => work' = work)
  BY OthersHold
<1> QED BY <1>1, <1>2, <1>3 DEF VersionedAt, Grows

LEMMA VersionedOwn ==
    ASSUME NEW v, TypeInv(v), Done, backend = "sqlite", NEW p \in Procs, Moves(p),
           VersionedAt(p)
    PROVE  VersionedAt(p)'
<1>1. Grows(db, db')
  BY GrowsMoves DEF Done
<1>2. db.version = 19 => db'.version = 19
  BY <1>1 DEF Grows
<1>3. proc[p].from \in {Unread} \cup 0..19 /\ Unread = -1 /\ db.version \in 0..19
  BY BootList, UnreadIs DEF TypeInv, Sound, Databases
<1>4. CASE Advances(p)
  <2> DEFINE f == proc[p].from
             k == proc[p].next
             g == proc'[p].from
             n == proc'[p].next
             l == Len(CoreScript)
             m == Past(f)
             c == Past(g)
  <2>1. /\ proc[p].at = "boot" /\ proc'[p].at = "boot" /\ n = k + 1 /\ k \in Nat
        /\ (g = IF Current(p).op = "read version" /\ f = Unread THEN db.version ELSE f)
    BY <1>4, AdvanceMoves DEF Advances
  <2>2. /\ f = Unread => k <= l
        /\ l \in Nat
        /\ f \in 0..19 => m \in Nat
        /\ \A x \in 0..18 : Past(x) >= l + 2
        /\ f \in 0..18 /\ k = m => Current(p) = End
        /\ f \in 0..18 /\ k = m - 1 => Current(p) = StampOf(f)
    BY <2>1, PastPlaces
  <2>3. Executes(p) \/ Commits(p)
    <3>1. Begins(p) => proc[p].at # "boot"
      BY DEF Begins
    <3>2. Stores(p) => proc[p].at # "boot"
      BY DEF Stores
    <3>3. Leaves(p) => proc'[p].at # "boot"
      BY DEF Leaves
    <3> QED BY <2>1, <3>1, <3>2, <3>3 DEF Moves
  <2>4. /\ f # Unread /\ k > m => db.version = 19
        /\ f \in 0..18 /\ k = m => owner = p /\ work.version = 19
        /\ f = 19 => db.version = 19
    BY <2>1 DEF VersionedAt
  <2>5. /\ f \in {Unread} \cup 0..19 /\ Unread = -1
        /\ g \in 0..18 => c \in Nat /\ c >= l + 2
        /\ f = g => c = m
    <3>1. \A x \in 0..19 : Past(x) \in Nat
      BY BootLast
    <3>2. \A x \in 0..18 : Past(x) \in Nat
      BY <3>1
    <3> QED BY <1>3, <2>2, <3>2
  <2>6. SUFFICES /\ g # Unread /\ n > c => db'.version = 19
                 /\ g \in 0..18 /\ n = c => owner' = p /\ work'.version = 19
                 /\ g = 19 => db'.version = 19
    BY <2>1 DEF VersionedAt
  <2>7. Versions(Current(p)) /\ Current(p).how = "dml" /\ Current(p).op # "commit" =>
           owner' = p /\ work'.version = 19
    <3> SUFFICES ASSUME Versions(Current(p)), Current(p).how = "dml", Current(p).op # "commit"
                 PROVE  owner' = p /\ work'.version = 19
      OBVIOUS
    <3>4. ExecutesInside(p)
      BY <2>3 DEF Commits, Executes, ExecutesAlone, Reads
    <3>5. Proper(backend, Current(p)) /\ Sees(p) \in Databases(backend)
      BY <2>1, BootList, SeesSound
    <3>6. Keeps(Current(p), Sees(p), New(p))
      BY <3>5, ApplyFields DEF New
    <3> QED BY <3>4, <3>6 DEF ExecutesInside, Keeps
  <2>8. owner = p /\ work.version = 19 /\ Current(p) = End => db'.version = 19
    BY <2>3, EndFields DEF Executes, Commits
  <2>9. Versions(StampOf(f)) /\ StampOf(f).how = "dml" /\ StampOf(f).op # "commit"
    BY StampFields DEF Versions
  <2> HIDE DEF f, k, g, n, l, m, c
  <2>10. f # Unread => g = f
    BY <2>1
  <2>11. CASE f = Unread
    <3>1. g = Unread \/ g = db.version
      BY <2>1, <2>11
    <3>5. k <= l /\ l \in Nat
      BY <2>2, <2>11
    <3>6. n = k + 1 /\ k \in Nat
      BY <2>1
    <3>2. n <= l + 1 /\ n \in Nat
      BY <3>5, <3>6
    <3>3. ASSUME g \in 0..18 PROVE ~(n > c) /\ n # c
      <4>1. c \in Nat /\ c >= l + 2
        BY <2>5, <3>3
      <4> QED BY <3>2, <3>5, <4>1
    <3>4. g # Unread => g \in 0..18 \/ (g = 19 /\ db'.version = 19)
      BY <1>2, <1>3, <2>5, <3>1
    <3> QED BY <2>5, <3>3, <3>4
  <2>12. CASE f = 19
    BY <1>2, <2>4, <2>5, <2>10, <2>12
  <2>13. CASE f \in 0..18
    <3>1. f # Unread /\ g = f /\ m \in Nat /\ c = m /\ f # 19
      BY <2>2, <2>5, <2>10, <2>13
    <3>2. n > m => k > m \/ k = m
      BY <2>1, <3>1
    <3>3. n = m => k = m - 1
      BY <2>1, <3>1
    <3>4. n > m => db'.version = 19
      BY <1>2, <2>2, <2>4, <2>8, <2>13, <3>1, <3>2
    <3>5. n = m => owner' = p /\ work'.version = 19
      BY <2>2, <2>7, <2>9, <2>13, <3>3
    <3> QED BY <3>1, <3>4, <3>5
  <2> QED BY <2>5, <2>11, <2>12, <2>13
<1>5. CASE proc'[p].at = "boot" /\ proc'[p].next = 1 /\ proc'[p].from = Unread
  <2>1. Unread \notin 0..18 /\ Unread # 19
    BY <1>3
  <2> QED BY <1>5, <2>1 DEF VersionedAt
<1>6. CASE proc'[p].at # "boot"
  <2>1. CASE Commits(p)
    <3>1. proc'[p] = Served /\ Ends(p) /\ proc[p].at = "boot" /\ Current(p).op = "commit"
      <4>1. proc[p] \in Places /\ proc[p].at = "boot"
        BY <2>1, BootList DEF Commits
      <4>2. NextPlace(p).at = proc[p].at
        BY <4>1, PlaceFields
      <4> QED BY <1>6, <2>1, <4>1, <4>2 DEF Commits
    <3>2. Served.at = "serving" /\ Served.from = Unread
      BY DEF Served, Down
    <3>3. proc[p].from # Unread
      <4>1. proc[p].from = Unread => Core(Current(p))
        BY <3>1, UnreadCore
      <4> QED BY <3>1, <4>1 DEF Core, Ensures
    <3>4. proc[p].from \in 0..19
      BY <1>3, <3>3
    <3>5. Len(SqliteBoot[proc[p].from]) > Past(proc[p].from)
      BY <3>4, BootLast
    <3>6. proc[p].next > Past(proc[p].from)
      BY <3>1, <3>5, BootList DEF Ends
    <3>7. db'.version = 19
      BY <1>2, <3>1, <3>3, <3>6 DEF VersionedAt
    <3> QED BY <3>1, <3>2, <3>7 DEF VersionedAt
  <2>2. CASE Leaves(p)
    <3>1. CASE proc'[p].at = "down"
      <4>1. proc'[p].from = Unread
        BY <2>2 DEF Leaves
      <4>2. Unread # 19
        BY <1>3
      <4> QED BY <3>1, <4>1, <4>2 DEF VersionedAt
    <3>2. CASE proc'[p].at = "degraded" /\ proc[p].at = "boot" /\ proc[p].from # Unread
               /\ proc[p].next > Past(proc[p].from)
      <4>1. db'.version = 19
        BY <1>2, <3>2 DEF VersionedAt
      <4> QED BY <3>2, <4>1 DEF VersionedAt
    <3> QED BY <2>2, <3>1, <3>2 DEF Leaves
  <2>3. CASE Stores(p)
    <3>1. proc' = proc /\ (proc[p].at = "serving" \/ proc[p].at = "degraded")
      BY <2>3 DEF Stores
    <3>2. db'.version = 19
      BY <1>2, <3>1 DEF VersionedAt
    <3> QED BY <1>6, <3>1, <3>2 DEF VersionedAt
  <2>4. ~Executes(p) /\ ~Begins(p)
    <3>1. Executes(p) => proc'[p].at = "boot"
      <4>1. ASSUME Executes(p) PROVE Advances(p)
        BY <4>1 DEF Executes, Advances
      <4> QED BY <4>1, AdvanceMoves
    <3> QED BY <1>6, <3>1 DEF Begins
  <2> QED BY <2>1, <2>2, <2>3, <2>4 DEF Moves
<1> QED BY <1>4, <1>5, <1>6, MovesOrNot

LEMMA VersionedStep ==
    ASSUME NEW v, TypeInv(v), Done, Versioned, NEW p \in Procs, Moves(p)
    PROVE  Versioned'
<1>1. backend' = backend
  BY MovesOrNot
<1>2. ASSUME backend = "sqlite", NEW q \in Procs PROVE VersionedAt(q)'
  BY <1>2, VersionedOthers, VersionedOwn DEF Versioned
<1> QED BY <1>1, <1>2 DEF Versioned

----------------------------------------------------------------------------
(* What is open: spoiled by a boot and not repaired.                       *)

LEMMA OpensSame ==
    ASSUME NEW L, NEW M, NEW k \in Nat, \A i \in 1..k : L[i] = M[i], NEW O
    PROVE  Opens(L, k, O) = Opens(M, k, O)
<1>1. \A i \in 1..k : \A j \in (i + 1)..k : j \in 1..k
  OBVIOUS
<1>2. ASSUME NEW a PROVE Spoilt(L, k, a) <=> Spoilt(M, k, a)
  BY <1>1 DEF Spoilt
<1>3. ASSUME NEW a PROVE Unrepaired(L, k, a) <=> Unrepaired(M, k, a)
  BY DEF Unrepaired
<1> QED BY <1>2, <1>3 DEF Opens

LEMMA OpenedNow ==
    ASSUME NEW v, TypeInv(v), backend = "sqlite", NEW p \in Procs, proc[p].at = "boot"
    PROVE  /\ Careful(Opened(p)) /\ Fits(Current(p), Opened(p))
           /\ Ends(p) => After(Current(p), Opened(p)) = {}
<1> DEFINE L == Boot(p)
           k == proc[p].next
           f == proc[p].from
<1>1. L = SqliteBoot[f] /\ f \in {Unread} \cup 0..19 /\ k \in 1..Len(L) /\ Len(L) \in Nat
  BY BootList
<1>2. Runs(L, {}, {})
  BY <1>1, BootRuns
<1>3. Opened(p) = Opens(L, k - 1, {}) /\ Current(p) = L[k]
  BY DEF Opened, Current
<1>4. Ends(p) => k = Len(L)
  BY DEF Ends
<1> HIDE DEF L, k, f
<1>5. k - 1 \in 0..Len(L) /\ k - 1 \in Nat /\ (k - 1) + 1 = k
  BY <1>1
<1>6. Careful(Opens(L, k - 1, {})) /\ Fits(L[k], Opens(L, k - 1, {}))
      /\ Opens(L, Len(L), {}) = {}
  BY <1>1, <1>2, <1>5 DEF Runs
<1>7. Opens(L, k, {}) = After(L[k], Opens(L, k - 1, {}))
  <2>1. Opens(L, (k - 1) + 1, {}) = After(L[(k - 1) + 1], Opens(L, k - 1, {}))
    BY <1>5, OpensNext DEF After
  <2> QED BY <1>5, <2>1
<1> QED BY <1>3, <1>4, <1>6, <1>7

LEMMA OpenedAdvance ==
    ASSUME NEW v, TypeInv(v), backend = "sqlite", NEW p \in Procs, Advances(p)
    PROVE  Opened(p)' = After(Current(p), Opened(p))
<1> DEFINE L == Boot(p)
           M == Boot(p)'
           k == proc[p].next
           n == proc'[p].next
<1>1. /\ proc'[p].at = "boot" /\ n = k + 1 /\ k \in Nat /\ k >= 1
      /\ \A i \in 1..k : M[i] = L[i]
  BY AdvanceMoves
<1>2. proc[p].at = "boot" /\ backend' = backend
  BY DEF Advances
<1>3. Opened(p) = Opens(L, k - 1, {}) /\ Current(p) = L[k]
  BY <1>2 DEF Opened, Current
<1>4. Opened(p)' = Opens(M, n - 1, {})
  <2>1. (Opens(Boot(p), proc[p].next - 1, {}))' = Opens(M, n - 1, {})
    BY DEF Opens, Spoilt, Unrepaired, Spoils, Repairs, Aspects, Trig, Shape, RowsIn, Tx
  <2> QED BY <1>1, <1>2, <2>1 DEF Opened
<1> HIDE DEF L, M, k, n
<1>5. n - 1 = k /\ k - 1 \in Nat /\ (k - 1) + 1 = k
  BY <1>1
<1>6. Opens(M, k, {}) = Opens(L, k, {})
  BY <1>1, OpensSame
<1>7. Opens(L, k, {}) = After(L[k], Opens(L, k - 1, {}))
  <2>1. Opens(L, (k - 1) + 1, {}) = After(L[(k - 1) + 1], Opens(L, k - 1, {}))
    BY <1>5, OpensNext DEF After
  <2> QED BY <1>5, <2>1
<1> QED BY <1>3, <1>4, <1>5, <1>6, <1>7

LEMMA OpenedNot ==
    /\ \A p : proc[p].at # "boot" => Opened(p) = {}
    /\ \A p : proc'[p].at # "boot" => Opened(p)' = {}
    /\ \A p : proc'[p].at = "boot" /\ proc'[p].next = 1 => Opened(p)' = {}
    /\ \A p : backend' = backend /\ proc'[p] = proc[p] => Opened(p)' = Opened(p)
<1>1. ASSUME NEW p, proc'[p].at = "boot", proc'[p].next = 1 PROVE Opened(p)' = {}
  <2> DEFINE M == Boot(p)'
  <2>1. Opened(p)' = IF backend' = "sqlite" THEN Opens(M, 0, {}) ELSE {}
    <3>1. (Opens(Boot(p), proc[p].next - 1, {}))' = Opens(M, proc'[p].next - 1, {})
      BY DEF Opens, Spoilt, Unrepaired, Spoils, Repairs, Aspects, Trig, Shape, RowsIn, Tx
    <3>2. proc'[p].next - 1 = 0
      BY <1>1
    <3> QED BY <1>1, <3>1, <3>2 DEF Opened
  <2> HIDE DEF M
  <2>2. {} \in SUBSET Aspects
    OBVIOUS
  <2>3. Opens(M, 0, {}) = {}
    BY <2>2, OpensFirst
  <2> QED BY <2>1, <2>3
<1>2. ASSUME NEW p, backend' = backend, proc'[p] = proc[p] PROVE Opened(p)' = Opened(p)
  <2>1. Boot(p)' = Boot(p)
    BY <1>2 DEF Boot
  <2>2. (Opens(Boot(p), proc[p].next - 1, {}))' = Opens(Boot(p)', proc'[p].next - 1, {})
    BY DEF Opens, Spoilt, Unrepaired, Spoils, Repairs, Aspects, Trig, Shape, RowsIn, Tx
  <2> QED BY <1>2, <2>1, <2>2 DEF Opened
<1> QED BY <1>1, <1>2 DEF Opened

LEMMA OpenedSpoils ==
    ASSUME NEW p, NEW a \in Opened(p)
    PROVE  \E s \in Ran(p) : a \in Spoils(s)
<1> DEFINE L == Boot(p)
           k == proc[p].next - 1
<1>1. proc[p].at = "boot" /\ a \in Opens(L, k, {})
  BY DEF Opened
<1>2. Ran(p) = {L[i] : i \in 1..k}
  BY <1>1 DEF Ran
<1> HIDE DEF L, k
<1>3. PICK i \in 1..k : a \in Spoils(L[i])
  BY <1>1 DEF Opens, Spoilt
<1> QED BY <1>2, <1>3

\* An aspect is one of a single table.
LEMMA IdxTable ==
    ASSUME NEW t, NEW a \in Idx(t), NEW u, NEW x,
           a = Trig(u, x) \/ a = Shape(u) \/ a = RowsIn(u)
    PROVE  t = u
<1>1. (\E y \in Triggers : a = Trig(t, y)) \/ a = Shape(t) \/ a = RowsIn(t)
  BY DEF Idx
<1> QED BY <1>1, TrigTrig, ShapeShape, RowsRows, TrigShape, TrigRows, ShapeRows

\* Statements that spoil an index are those of migrations that make it anew.
LEMMA SpoilsIdx ==
    ASSUME NEW s, NEW t, NEW a \in Idx(t), a \in Spoils(s)
    PROVE  (Drops(s) \/ Makes(s)) /\ s.table = t
<1>1. a # Tx
  BY TxDiffers DEF Idx
<1>2. CASE s.op = "drop trigger" \/ s.op = "create narrow trigger"
  <2>1. Spoils(s) = {Trig(s.table, s.name), RowsIn(s.table)}
    BY <1>2, DropTriggerEffect
  <2>2. a = Trig(s.table, s.name) \/ a = Shape(s.table) \/ a = RowsIn(s.table)
    BY <2>1
  <2>3. t = s.table
    BY <2>2, IdxTable
  <2> QED BY <1>2, <2>3 DEF Drops, Makes
<1>3. CASE s.op = "drop fts" \/ s.op = "create narrow fts"
  <2>1. Spoils(s) = {Shape(s.table), RowsIn(s.table)}
    BY <1>3, DropFtsEffect
  <2>2. a = Trig(s.table, s.name) \/ a = Shape(s.table) \/ a = RowsIn(s.table)
    BY <2>1
  <2>3. t = s.table
    BY <2>2, IdxTable
  <2> QED BY <1>3, <2>3 DEF Drops, Makes
<1>4. CASE s.op = "create fts"
  <2>1. Spoils(s) = {RowsIn(s.table)}
    BY <1>4, CreateFtsEffect
  <2>2. a = Trig(s.table, s.name) \/ a = Shape(s.table) \/ a = RowsIn(s.table)
    BY <2>1
  <2>3. t = s.table
    BY <2>2, IdxTable
  <2> QED BY <1>4, <2>3 DEF Drops, Makes
<1>5. CASE /\ s.op # "drop trigger" /\ s.op # "create narrow trigger" /\ s.op # "drop fts"
           /\ s.op # "create narrow fts" /\ s.op # "create fts"
  <2>1. Spoils(s) = IF s.how = "dml" THEN {Tx} ELSE {}
    BY <1>5 DEF Spoils
  <2> QED BY <1>1, <2>1
<1> QED BY <1>2, <1>3, <1>4, <1>5

LEMMA NoTxSpoiled ==
    ASSUME NEW s, Tx \in Spoils(s)
    PROVE  s.how = "dml"
<1>1. \A t, x : Tx # Trig(t, x) /\ Tx # Shape(t) /\ Tx # RowsIn(t)
  BY TxDiffers
<1>2. ASSUME s.op = "drop trigger" \/ s.op = "create narrow trigger" PROVE Tx \notin Spoils(s)
  <2>1. Spoils(s) = {Trig(s.table, s.name), RowsIn(s.table)}
    BY <1>2, DropTriggerEffect
  <2> QED BY <1>1, <2>1
<1>3. ASSUME s.op = "drop fts" \/ s.op = "create narrow fts" PROVE Tx \notin Spoils(s)
  <2>1. Spoils(s) = {Shape(s.table), RowsIn(s.table)}
    BY <1>3, DropFtsEffect
  <2> QED BY <1>1, <2>1
<1>4. ASSUME s.op = "create fts" PROVE Tx \notin Spoils(s)
  <2>1. Spoils(s) = {RowsIn(s.table)}
    BY <1>4, CreateFtsEffect
  <2> QED BY <1>1, <2>1
<1>5. (/\ s.op # "drop trigger" /\ s.op # "create narrow trigger" /\ s.op # "drop fts"
       /\ s.op # "create narrow fts" /\ s.op # "create fts") =>
         Spoils(s) = IF s.how = "dml" THEN {Tx} ELSE {}
  BY DEF Spoils
<1> QED BY <1>2, <1>3, <1>4, <1>5

LEMMA LegalKindly ==
    ASSUME NEW s, NEW f, Legal(s, f), f \in 1..18 \/ \A t : ~Touched(t, f), NEW g,
           f \in 1..18 => g = f
    PROVE  Kindly(s, g)
<1>1. s.how = "dml" => s.op = "rebuild"
  BY DEF Legal
<1>2. s.how = "dml" => Spoils(s) = {Tx} /\ ~Ensures(s) /\ ~Drops(s) /\ ~Makes(s)
  <2>1. s.how = "dml" => Spoils(s) = {Tx}
    BY <1>1, RebuildEffect
  <2>2. s.how = "dml" => ~Ensures(s) /\ ~Drops(s) /\ ~Makes(s)
    BY <1>1 DEF Ensures, Drops, Makes
  <2> QED BY <2>1, <2>2
<1>3. s.op = "commit" => s.how # "dml"
  BY <1>1
<1>4. Drops(s) \/ Makes(s) \/ s.op = "rebuild" => Touched(s.table, f)
  BY DEF Legal
<1>5. (Makes(s) => s.table # "entries") /\ (OnTriggers(s) => s.name \in Triggers)
  BY DEF Legal
<1> QED BY <1>2, <1>3, <1>4, <1>5 DEF Kindly

LEMMA BootKindly ==
    ASSUME NEW f \in {Unread} \cup 0..19, NEW k \in 1..Len(SqliteBoot[f])
    PROVE  Kindly(SqliteBoot[f][k], f)
<1> DEFINE s == SqliteBoot[f][k]
<1>0. \A t : ~Touched(t, 19)
  BY UntouchedLast
<1>1. \/ s \in Elems(CoreScript) \cup {End}
      \/ f \in 1..18 /\ s \in Elems(Migrated(f))
      \/ s = StampOf(f)
      \/ s = Fill
  BY BootAt
<1>a. 19 \notin 1..18
  OBVIOUS
<1> HIDE DEF s
<1>2. CASE s \in Elems(CoreScript) \cup {End}
  <2>1. Legal(s, 19)
    BY <1>2, CoreElems, LegalEnd
  <2> QED BY <1>0, <1>a, <2>1, LegalKindly DEF s
<1>3. CASE f \in 1..18 /\ s \in Elems(Migrated(f))
  <2>1. Legal(s, f)
    BY <1>3, MigratedLegal
  <2> QED BY <1>3, <2>1, LegalKindly DEF s
<1>4. CASE s = StampOf(f) \/ s = Fill
  <2>1. Stamps(s) /\ s.how = "dml"
    BY <1>4, StampFields, FillFields DEF Stamps
  <2>2. Spoils(s) = {Tx}
    BY <2>1, CalmEffect
  <2>3. /\ ~Drops(s) /\ ~Makes(s) /\ ~OnTriggers(s) /\ ~Ensures(s)
        /\ s.op # "rebuild" /\ s.op # "commit"
    BY <2>1 DEF Stamps, Drops, Makes, OnTriggers, Ensures
  <2> QED BY <2>2, <2>3 DEF Kindly, s
<1> QED BY <1>1, <1>2, <1>3, <1>4

LEMMA CurrentKindly ==
    ASSUME NEW v, TypeInv(v), backend = "sqlite", NEW p \in Procs, proc[p].at = "boot"
    PROVE  /\ Kindly(Current(p), proc[p].from)
           /\ \A s \in Ran(p) : Kindly(s, proc[p].from)
           /\ proc[p].from \in 1..18 => proc[p].from = v
           /\ Upgrading(p) <=> proc[p].from \in 1..18
<1> DEFINE f == proc[p].from
           L == Boot(p)
           k == proc[p].next
<1>1. L = SqliteBoot[f] /\ f \in {Unread} \cup 0..19 /\ k \in 1..Len(L) /\ Len(L) \in Nat
  BY BootList
<1>2. f \in {Unread, v, 19} /\ Unread = -1
  BY UnreadIs DEF TypeInv, Placed
<1>3. Upgrading(p) <=> f \in 1..18
  BY DEF Upgrading, CORE_VERSION
<1>4. Current(p) = L[k] /\ Ran(p) = {L[i] : i \in 1..(k - 1)}
  BY DEF Current, Ran
<1> HIDE DEF f, L, k
<1>5. \A i \in 1..Len(L) : Kindly(L[i], f)
  BY <1>1, BootKindly
<1>6. \A i \in 1..(k - 1) : i \in 1..Len(L)
  BY <1>1
<1>7. Kindly(Current(p), f) /\ \A s \in Ran(p) : Kindly(s, f)
  BY <1>1, <1>4, <1>5, <1>6
<1>8. f \in 1..18 => f = v
  BY <1>2
<1> QED BY <1>3, <1>7, <1>8 DEF f

\* Only a boot that upgrades has an index open, one that it makes anew.
LEMMA OpenedTouched ==
    ASSUME NEW v, TypeInv(v), backend = "sqlite", NEW p \in Procs,
           NEW t \in Indexed, NEW a \in Idx(t),
           \/ a \in Opened(p)
           \/ proc[p].at = "boot" /\ a \in Spoils(Current(p))
    PROVE  Upgrading(p) /\ Touched(t, v)
<1>1. proc[p].at = "boot"
  BY DEF Opened
<1>2. PICK s \in Ran(p) \cup {Current(p)} : a \in Spoils(s)
  BY OpenedSpoils
<1>3. Kindly(s, proc[p].from)
  BY <1>1, CurrentKindly
<1>4. (Drops(s) \/ Makes(s)) /\ s.table = t
  BY <1>2, SpoilsIdx
<1>5. proc[p].from \in 1..18 /\ Touched(t, proc[p].from)
  BY <1>3, <1>4 DEF Kindly
<1> QED BY <1>1, <1>5, CurrentKindly

LEMMA OpenedMoves ==
    ASSUME NEW v, TypeInv(v), backend = "sqlite", NEW p \in Procs, Moves(p)
    PROVE  /\ \A q \in Procs \ {p} : Opened(q)' = Opened(q)
           /\ Executes(p) \/ Commits(p) => Opened(p)' = After(Current(p), Opened(p))
           /\ Leaves(p) => Opened(p)' = {}
           /\ Begins(p) => Opened(p)' = {} /\ Opened(p) = {}
           /\ Stores(p) => Opened(p)' = Opened(p)
<1>1. \A q \in Procs \ {p} : Opened(q)' = Opened(q)
  BY MovesOrNot, OpenedNot
<1>2. ASSUME Executes(p) PROVE Opened(p)' = After(Current(p), Opened(p))
  <2>1. Advances(p)
    BY <1>2 DEF Executes, Advances
  <2> QED BY <2>1, OpenedAdvance
<1>3. ASSUME Commits(p) PROVE Opened(p)' = After(Current(p), Opened(p))
  <2>1. CASE Ends(p)
    <3>1. proc'[p].at # "boot"
      BY <1>3, <2>1 DEF Commits, Served, Down
    <3>2. Opened(p)' = {}
      BY <3>1, OpenedNot
    <3>3. After(Current(p), Opened(p)) = {}
      BY <1>3, <2>1, OpenedNow DEF Commits
    <3> QED BY <3>2, <3>3
  <2>2. CASE ~Ends(p)
    <3>1. Advances(p)
      BY <1>3, <2>2 DEF Commits, Advances
    <3> QED BY <3>1, OpenedAdvance
  <2> QED BY <2>1, <2>2
<1>4. ASSUME Leaves(p) PROVE Opened(p)' = {}
  <2>1. proc'[p].at # "boot"
    BY <1>4 DEF Leaves
  <2> QED BY <2>1, OpenedNot
<1>5. ASSUME Begins(p) PROVE Opened(p)' = {} /\ Opened(p) = {}
  <2>1. proc'[p].at = "boot" /\ proc'[p].next = 1 /\ proc[p].at # "boot"
    BY <1>5 DEF Begins
  <2> QED BY <2>1, OpenedNot
<1>6. ASSUME Stores(p) PROVE Opened(p)' = Opened(p)
  <2>1. backend' = backend /\ proc'[p] = proc[p]
    BY <1>6 DEF Stores
  <2> QED BY <2>1, OpenedNot
<1> QED BY <1>1, <1>2, <1>3, <1>4, <1>5, <1>6

LEMMA HeldInit == Init => Held
<1> SUFFICES ASSUME Init PROVE Held
  OBVIOUS
<1>1. ASSUME NEW p \in Procs PROVE Opened(p) = {} /\ owner # p
  <2>1. proc[p].at # "boot" /\ owner = NoProc
    BY DEF Init, Down
  <2> QED BY <2>1, OpenedNot, ProcAssumption
<1> QED BY <1>1 DEF Held

LEMMA HeldStep ==
    ASSUME NEW v, TypeInv(v), Held, NEW p \in Procs, Moves(p)
    PROVE  Held'
<1>1. backend' = backend /\ p # NoProc
  BY MovesOrNot, ProcAssumption
<1>2. SUFFICES ASSUME backend = "sqlite" PROVE \A q \in Procs : (Tx \in Opened(q))' <=> owner' = q
  BY <1>1 DEF Held
<1>t. (\A q : Tx' \in Opened(q)' <=> Tx \in Opened(q)') /\ Tx \in Aspects
  BY AspectsOf DEF Tx
<1>3. \A q \in Procs \ {p} : Opened(q)' = Opened(q) /\ (owner' = q <=> owner = q)
  BY <1>2, OpenedMoves, OthersHold
<1>4. Tx \in Opened(p) <=> owner = p
  BY <1>2 DEF Held
<1> DEFINE s == Current(p)
           O == Opened(p)
<1>5. SUFFICES Tx \in Opened(p)' <=> owner' = p
  <2>1. ASSUME NEW q \in Procs \ {p} PROVE Tx \in Opened(q)' <=> owner' = q
    BY <1>2, <1>3 DEF Held
  <2> QED BY <1>t, <2>1
<1>6. CASE Executes(p)
  <2>1. proc[p].at = "boot" /\ s.op # "commit" /\ Opened(p)' = After(s, O)
    BY <1>2, <1>6, OpenedMoves DEF Executes
  <2>2. Kindly(s, proc[p].from)
    BY <1>2, <2>1, CurrentKindly
  <2>3. Tx \notin Repairs(s)
    <3>1. \A t, x : Tx # Trig(t, x) /\ Tx # Shape(t) /\ Tx # RowsIn(t)
      BY TxDiffers
    <3>2. \/ Repairs(s) = {Trig(s.table, s.name)} \/ Repairs(s) = {Shape(s.table)}
          \/ Repairs(s) = {RowsIn(s.table)} \/ Repairs(s) = {}
      <4> HIDE DEF s
      <4> QED BY <2>1 DEF Repairs
    <3> QED BY <3>1, <3>2
  <2>4. Tx \in Spoils(s) <=> s.how = "dml"
    BY <2>2, NoTxSpoiled DEF Kindly
  <2>5. Tx \in After(s, O) <=> Tx \in O \/ s.how = "dml"
    <3> HIDE DEF s, O
    <3> QED BY <1>t, <2>3, <2>4 DEF After
  <2>6. CASE ExecutesInside(p)
    BY <1>2, <1>4, <2>1, <2>5, <2>6 DEF ExecutesInside
  <2>7. CASE ExecutesAlone(p)
    BY <1>1, <1>4, <2>1, <2>5, <2>7 DEF ExecutesAlone
  <2>8. CASE Reads(p)
    BY <1>2, <1>4, <2>1, <2>5, <2>8 DEF Reads
  <2> QED BY <1>6, <2>6, <2>7, <2>8 DEF Executes
<1>7. CASE Commits(p)
  <2>1. proc[p].at = "boot" /\ s.op = "commit" /\ Opened(p)' = After(s, O)
    BY <1>2, <1>7, OpenedMoves DEF Commits
  <2>2. s.how # "dml"
    BY <1>2, <2>1, CurrentKindly DEF Kindly
  <2>3. Repairs(s) = {Tx}
    BY <2>1, <2>2, CommitEffect
  <2>4. Tx \notin After(s, O)
    BY <2>3 DEF After
  <2> QED BY <1>1, <1>7, <2>1, <2>4 DEF Commits
<1>8. CASE Leaves(p)
  BY <1>1, <1>2, <1>8, OpenedMoves DEF Leaves
<1>9. CASE Begins(p)
  <2>1. owner # p
    BY <1>1, <1>9 DEF Begins, TypeInv
  <2> QED BY <1>2, <1>9, <2>1, OpenedMoves DEF Begins
<1>10. CASE Stores(p)
  BY <1>2, <1>4, <1>10, OpenedMoves DEF Stores
<1> QED BY <1>6, <1>7, <1>8, <1>9, <1>10 DEF Moves

----------------------------------------------------------------------------
(* What is right about an index, and what statements do to it.             *)

LEMMA RightIs ==
    ASSUME NEW d, NEW t \in Indexed
    PROVE  /\ \A x \in Triggers : /\ Right(d, Trig(t, x)) <=> d.triggers[t][x] = "wide"
                                  /\ Missing(d, Trig(t, x)) <=> d.triggers[t][x] = "none"
           /\ Right(d, Shape(t)) <=> Finished(d.index[t])
           /\ Missing(d, Shape(t)) <=> ~Has(d, t)
           /\ Right(d, RowsIn(t)) <=> d.index[t].rows = Filed(d, t)
<1>1. ASSUME NEW x \in Triggers
      PROVE  /\ Right(d, Trig(t, x)) <=> d.triggers[t][x] = "wide"
             /\ Missing(d, Trig(t, x)) <=> d.triggers[t][x] = "none"
  <2>1. \A u, y : Trig(t, x) = Trig(u, y) => u = t /\ y = x
    BY TrigTrig
  <2>2. \A u : Trig(t, x) # Shape(u) /\ Trig(t, x) # RowsIn(u)
    BY TrigShape, TrigRows
  <2> DEFINE a == Trig(t, x)
  <2>3. /\ \A u, y : a = Trig(u, y) => u = t /\ y = x
        /\ \A u : a # Shape(u) /\ a # RowsIn(u)
        /\ a = Trig(t, x)
    BY <2>1, <2>2
  <2> HIDE DEF a
  <2>4. (Right(d, a) <=> d.triggers[t][x] = "wide") /\ (Missing(d, a) <=> d.triggers[t][x] = "none")
    BY <2>3 DEF Right, Missing
  <2> QED BY <2>4 DEF a
<1>2. (Right(d, Shape(t)) <=> Finished(d.index[t])) /\ (Missing(d, Shape(t)) <=> ~Has(d, t))
  <2> DEFINE a == Shape(t)
  <2>1. /\ \A u : a = Shape(u) => u = t
        /\ \A u, y : a # Trig(u, y) /\ a # RowsIn(u)
        /\ a = Shape(t)
    BY ShapeShape, TrigShape, ShapeRows
  <2> HIDE DEF a
  <2>2. (Right(d, a) <=> Finished(d.index[t])) /\ (Missing(d, a) <=> ~Has(d, t))
    BY <2>1 DEF Right, Missing
  <2> QED BY <2>2 DEF a
<1>3. Right(d, RowsIn(t)) <=> d.index[t].rows = Filed(d, t)
  <2> DEFINE a == RowsIn(t)
  <2>1. /\ \A u : a = RowsIn(u) => u = t
        /\ \A u, y : a # Trig(u, y) /\ a # Shape(u)
        /\ a = RowsIn(t)
    BY RowsRows, TrigRows, ShapeRows
  <2> HIDE DEF a
  <2>2. Right(d, a) <=> d.index[t].rows = Filed(d, t)
    BY <2>1 DEF Right
  <2> QED BY <2>2 DEF a
<1> QED BY <1>1, <1>2, <1>3

LEMMA SameAfter ==
    ASSUME NEW s, NEW d, NEW e, e.index = d.index, e.triggers = d.triggers, e.rows = d.rows,
           e.unfilled = d.unfilled, ~OnIndex(s), ~OnTriggers(s)
    PROVE  IndexAfter(s, d, e) /\ TriggersAfter(s, d, e)
  BY DEF IndexAfter, TriggersAfter, OnIndex, OnTriggers

LEMMA ApplyAfter ==
    ASSUME NEW s, Proper(backend, s), NEW d \in Databases(backend), NEW m,
           NEW e, e = Apply(s, d, m), backend = "sqlite"
    PROVE  IndexAfter(s, d, e) /\ TriggersAfter(s, d, e)
<1>1. Keeps(s, d, e)
  BY ApplyFields
<1>2. s \in Statements /\ s.op # "guarded column"
  BY DEF Proper
<1>u. s.op # "fill" => e.unfilled = d.unfilled
  BY <1>1 DEF Keeps
<1>r. e.rows = d.rows
  BY <1>1 DEF Keeps
<1>3. CASE s.op = "create table" \/ s.op = "add column"
  <2>1. e = d \/ \E Y, X : e = With(d, Y, X, d.index)
    <3>1. CASE s.op = "create table"
      <4>1. TableIndex(d, s.table) = d.index
        BY DEF TableIndex
      <4> QED BY <3>1, <4>1, ApplyTable
    <3>2. CASE s.op = "add column"
      <4>1. CASE ~m
        <5>1. Apply(s, d, m) = d
          BY <3>2, <4>1, ApplyColumn, Zenon
        <5> QED BY <5>1
      <4>2. CASE m
        <5>1. e = With(d, d.tables, d.columns \cup {<<s.table, s.name>>}, d.index)
          BY <3>2, <4>2, ApplyColumn, Zenon
        <5> QED BY <5>1
      <4> QED BY <4>1, <4>2
    <3> QED BY <1>3, <3>1, <3>2
  <2>2. e.index = d.index /\ e.triggers = d.triggers /\ e.unfilled = d.unfilled
    <3>1. CASE e = d
      BY <3>1
    <3>2. ASSUME NEW Y, NEW X, e = With(d, Y, X, d.index)
          PROVE  e.index = d.index /\ e.triggers = d.triggers /\ e.unfilled = d.unfilled
      <4> DEFINE I == d.index
      <4>1. e = With(d, Y, X, I)
        BY <3>2
      <4> HIDE DEF I
      <4>2. e.index = I /\ e.triggers = d.triggers /\ e.unfilled = d.unfilled
        BY <4>1, WithIs
      <4> QED BY <4>2 DEF I
    <3> QED BY <2>1, <3>1, <3>2
  <2>3. ~OnIndex(s) /\ ~OnTriggers(s)
    BY <1>3 DEF OnIndex, OnTriggers
  <2> QED BY <1>r, <2>2, <2>3, SameAfter
<1>4. CASE Versions(s)
  <2>1. e = Stamped(d)
    BY <1>4, ApplyVersion DEF Stamped
  <2>2. SameBut(d, Stamped(d), "version") /\ Stamped(d).unfilled = d.unfilled
    BY StampedFields
  <2>3. e.index = d.index /\ e.triggers = d.triggers /\ e.unfilled = d.unfilled
    BY <2>1, <2>2 DEF SameBut
  <2>4. ~OnIndex(s) /\ ~OnTriggers(s)
    BY <1>4 DEF OnIndex, OnTriggers, Versions
  <2> QED BY <1>r, <2>3, <2>4, SameAfter
<1>5. CASE s.op = "has column" \/ s.op = "read version" \/ s.op = "commit"
  <2>1. e = d
    BY <1>5, ApplyNothing
  <2>2. ~OnIndex(s) /\ ~OnTriggers(s)
    BY <1>5 DEF OnIndex, OnTriggers
  <2> QED BY <2>1, <2>2, SameAfter
<1>6. CASE OnTriggers(s)
  <2>0. s.table \in Indexed /\ s.name \in Triggers
    BY <1>6 DEF Proper, OnTriggers, Ensures, Drops, Makes
  <2> DEFINE k == IF s.op = "drop trigger" THEN "none"
                  ELSE IF s.op = "create narrow trigger" THEN "narrow" ELSE "wide"
             c == s.op = "ensure trigger" /\ d.triggers[s.table][s.name] # "none"
  <2>1. (c => e = d) /\ (~c => e = Hung(d, s.table, s.name, k))
    <3>1. CASE s.op = "drop trigger"
      <4>1. e = Hung(d, s.table, s.name, "none")
        BY <3>1, ApplyTrigger
      <4> QED BY <3>1, <4>1
    <3>2. CASE s.op = "create trigger"
      <4>1. e = Hung(d, s.table, s.name, "wide")
        BY <3>2, ApplyTrigger
      <4> QED BY <3>2, <4>1
    <3>3. CASE s.op = "create narrow trigger"
      <4>1. e = Hung(d, s.table, s.name, "narrow")
        BY <3>3, ApplyTrigger
      <4> QED BY <3>3, <4>1
    <3>4. CASE s.op = "ensure trigger"
      <4>1. CASE d.triggers[s.table][s.name] = "none"
        <5>1. e = Hung(d, s.table, s.name, "wide")
          BY <3>4, <4>1, ApplyTrigger, Zenon
        <5> QED BY <3>4, <4>1, <5>1
      <4>2. CASE d.triggers[s.table][s.name] # "none"
        <5>1. Apply(s, d, m) = d
          BY <3>4, <4>2 DEF Apply
        <5> QED BY <3>4, <4>2, <5>1
      <4> QED BY <4>1, <4>2
    <3> QED BY <1>6, <3>1, <3>2, <3>3, <3>4 DEF OnTriggers
  <2>c. /\ s.op = "drop trigger" => k = "none" /\ ~c
        /\ s.op = "create trigger" => k = "wide" /\ ~c
        /\ s.op = "ensure trigger" => k = "wide"
        /\ s.op = "ensure trigger" => (c <=> d.triggers[s.table][s.name] # "none")
    OBVIOUS
  <2> HIDE DEF k, c
  <2>2. ASSUME ~c
        PROVE  /\ SameBut(d, e, "triggers") /\ e.triggers[s.table][s.name] = k
               /\ \A u \in Indexed, y \in Triggers : u # s.table \/ y # s.name =>
                     e.triggers[u][y] = d.triggers[u][y]
    BY <2>0, <2>1, <2>2, HungFields
  <2>3. e.index = d.index
    BY <2>1, <2>2 DEF SameBut
  <2>4. ~OnIndex(s) /\ ~(s.op = "fill")
    BY <1>6 DEF OnIndex, OnTriggers
  <2>5. IndexAfter(s, d, e)
    BY <1>u, <1>r, <2>3, <2>4 DEF IndexAfter, OnIndex
  <2>6. \A t \in Indexed, x \in Triggers :
           t # s.table \/ x # s.name => e.triggers[t][x] = d.triggers[t][x]
    BY <2>1, <2>2
  <2>a. s.op = "drop trigger" => e.triggers[s.table][s.name] = "none"
    BY <2>c, <2>2
  <2>b. s.op = "create trigger" => e.triggers[s.table][s.name] = "wide"
    BY <2>c, <2>2
  <2>7. s.op = "ensure trigger" =>
              \/ d.triggers[s.table][s.name] = "none" /\ e.triggers[s.table][s.name] = "wide"
              \/ d.triggers[s.table][s.name] # "none"
                 /\ e.triggers[s.table][s.name] = d.triggers[s.table][s.name]
    BY <2>c, <2>1, <2>2
  <2>8. TriggersAfter(s, d, e)
    BY <1>6, <2>6, <2>7, <2>a, <2>b DEF TriggersAfter
  <2> QED BY <2>5, <2>8
<1>7. CASE OnIndex(s)
  <2>0. s.table \in Indexed /\ ~OnTriggers(s)
    BY <1>7, SqliteLiterals DEF Proper, OnTriggers, OnIndex, Ensures, Drops, Makes
  <2> DEFINE t == s.table
  <2>1. ASSUME NEW w, e = Made(d, t, w)
        PROVE  /\ e.triggers = d.triggers /\ \A u \in Indexed \ {t} : e.index[u] = d.index[u]
               /\ e.index[t].there /\ e.index[t].stemmed /\ e.index[t].wide = w
               /\ e.index[t].rows = {}
    <3>1. SameBut(d, e, "index")
      BY <2>0, <2>1, MadeSame
    <3>2. e.triggers = d.triggers
      BY <3>1 DEF SameBut
    <3> QED BY <2>0, <2>1, <3>2, MadeOthers
  <2>2. CASE s.op = "create fts"
    <3> DEFINE w == TRUE
    <3>1. e = Made(d, t, w)
      BY <2>2, ApplyMake
    <3>2. /\ e.triggers = d.triggers /\ \A u \in Indexed \ {t} : e.index[u] = d.index[u]
          /\ e.index[t].there /\ e.index[t].stemmed /\ e.index[t].wide = w
          /\ e.index[t].rows = {}
      <4> HIDE DEF w
      <4> QED BY <2>1, <3>1
    <3>3. Finished(e.index[t])
      BY <3>2 DEF Finished
    <3> QED BY <1>7, <1>u, <1>r, <2>0, <2>2, <3>2, <3>3 DEF IndexAfter, TriggersAfter, OnTriggers
  <2>3. CASE s.op = "create narrow fts"
    <3> DEFINE w == FALSE
    <3>1. e = Made(d, t, w)
      BY <2>3, ApplyMake
    <3>2. e.triggers = d.triggers /\ \A u \in Indexed \ {t} : e.index[u] = d.index[u]
      <4> HIDE DEF w
      <4> QED BY <2>1, <3>1
    <3> QED BY <1>7, <1>u, <1>r, <2>0, <2>3, <3>2 DEF IndexAfter, TriggersAfter, OnTriggers
  <2>4. CASE s.op = "ensure fts" /\ Has(d, t)
    <3>1. e = d
      BY <2>4, ApplyMake DEF Has
    <3> QED BY <1>7, <2>0, <2>4, <3>1 DEF IndexAfter, TriggersAfter, OnTriggers
  <2>5. CASE s.op = "ensure fts" /\ ~Has(d, t)
    <3> DEFINE w == TRUE
    <3>1. e = Made(d, t, w)
      BY <2>5, ApplyMake DEF Has
    <3>2. /\ e.triggers = d.triggers /\ \A u \in Indexed \ {t} : e.index[u] = d.index[u]
          /\ e.index[t].there /\ e.index[t].stemmed /\ e.index[t].wide = w
          /\ e.index[t].rows = {}
      <4> HIDE DEF w
      <4> QED BY <2>1, <3>1
    <3>3. Finished(e.index[t])
      BY <3>2 DEF Finished
    <3> QED BY <1>7, <1>u, <1>r, <2>0, <2>5, <3>2, <3>3 DEF IndexAfter, TriggersAfter, OnTriggers
  <2>6. CASE s.op = "drop fts"
    <3>1. e = NoneOf(d, t)
      BY <2>6, ApplyMake DEF NoneOf
    <3>2. SameBut(d, e, "index") /\ e.index[t] = NoIndex
          /\ \A u \in Indexed \ {t} : e.index[u] = d.index[u]
      BY <2>0, <3>1, NoneFields
    <3>3. ~Has(e, t) /\ e.triggers = d.triggers
      BY <3>2 DEF NoIndex, SameBut, Has
    <3> QED BY <1>7, <1>u, <1>r, <2>0, <2>6, <3>2, <3>3 DEF IndexAfter, TriggersAfter, OnTriggers
  <2>7. CASE s.op = "rebuild"
    <3> DEFINE S == Filed(d, t)
    <3>1. e = RowsOf(d, t, S)
      BY <2>7, ApplyRebuild DEF RowsOf, Filed
    <3> HIDE DEF S
    <3>2. /\ SameBut(d, e, "index") /\ e.index[t].rows = S
          /\ e.index[t].there = d.index[t].there /\ e.index[t].wide = d.index[t].wide
          /\ e.index[t].stemmed = d.index[t].stemmed
          /\ \A u \in Indexed \ {t} : e.index[u] = d.index[u]
      BY <2>0, <3>1, RowsOfFields
    <3>3. Alike(e.index[t], d.index[t]) /\ e.triggers = d.triggers /\ e.index[t].rows = Filed(d, t)
      BY <3>2 DEF Alike, SameBut, S
    <3> QED BY <1>7, <1>u, <1>r, <2>0, <2>7, <3>2, <3>3 DEF IndexAfter, TriggersAfter, OnTriggers
  <2>8. CASE s.op = "fill"
    <3>0. t = "entries"
      BY <2>8 DEF Proper
    <3> DEFINE S == IF d.triggers[t]["au"] = "wide"
                    THEN d.index[t].rows \cup d.unfilled ELSE d.index[t].rows
    <3>1. e = Filled(d, t, S)
      BY <2>0, <2>8, <3>0, ApplyCases DEF Versions, OnTriggers
    <3>4. d.triggers[t]["au"] = "wide" => S = d.index[t].rows \cup d.unfilled
      OBVIOUS
    <3> HIDE DEF S
    <3>2. /\ SameBut(d, e, "index") /\ e.index[t].rows = S /\ e.unfilled = {}
          /\ e.index[t].there = d.index[t].there /\ e.index[t].wide = d.index[t].wide
          /\ e.index[t].stemmed = d.index[t].stemmed
          /\ \A u \in Indexed \ {t} : e.index[u] = d.index[u]
      BY <2>0, <3>1, FilledFields
    <3>3. Alike(e.index[t], d.index[t]) /\ e.triggers = d.triggers
      BY <3>2 DEF Alike, SameBut
    <3>5. d.triggers["entries"]["au"] = "wide" =>
             e.index["entries"].rows = d.index["entries"].rows \cup d.unfilled
      BY <3>0, <3>2, <3>4
    <3>6. IndexAfter(s, d, e)
      BY <1>7, <1>u, <1>r, <2>0, <2>8, <3>0, <3>2, <3>3, <3>5 DEF IndexAfter
    <3>7. TriggersAfter(s, d, e)
      BY <2>0, <2>8, <3>3 DEF TriggersAfter, OnTriggers
    <3> QED BY <3>6, <3>7
  <2> QED BY <1>7, <2>2, <2>3, <2>4, <2>5, <2>6, <2>7, <2>8 DEF OnIndex
<1> QED BY <1>2, <1>3, <1>4, <1>5, <1>6, <1>7, OpCases DEF OnIndex

LEMMA FinishedAlike ==
    ASSUME NEW i, NEW j, Alike(i, j), Finished(j)
    PROVE  Finished(i)
  BY DEF Alike, Finished

\* What is right stays right, if it is not spoiled.
LEMMA RightKept ==
    ASSUME NEW s, NEW d, NEW e, IndexAfter(s, d, e), TriggersAfter(s, d, e),
           Sound("sqlite", d), NEW t \in Indexed, NEW a \in Idx(t), Right(d, a),
           a \notin Spoils(s),
           s.op = "fill" /\ a = RowsIn("entries") => Right(d, Trig("entries", "au"))
    PROVE  Right(e, a)
<1>1. (\E x \in Triggers : a = Trig(t, x)) \/ a = Shape(t) \/ a = RowsIn(t)
  BY DEF Idx
<1>2. ASSUME NEW x \in Triggers, a = Trig(t, x) PROVE Right(e, a)
  <2>1. d.triggers[t][x] = "wide"
    BY <1>2, RightIs
  <2>2. CASE t # s.table \/ x # s.name \/ ~OnTriggers(s)
    <3>1. e.triggers[t][x] = "wide"
      BY <2>1, <2>2 DEF TriggersAfter
    <3> QED BY <1>2, <3>1, RightIs
  <2>3. CASE t = s.table /\ x = s.name /\ OnTriggers(s)
    <3>1. s.op # "drop trigger" /\ s.op # "create narrow trigger"
      <4>1. (s.op = "drop trigger" \/ s.op = "create narrow trigger") =>
               Spoils(s) = {Trig(s.table, s.name), RowsIn(s.table)}
        BY DropTriggerEffect
      <4> QED BY <1>2, <2>3, <4>1
    <3>2. e.triggers[t][x] = "wide"
      BY <2>1, <2>3, <3>1 DEF TriggersAfter, OnTriggers
    <3> QED BY <1>2, <3>2, RightIs
  <2> QED BY <2>2, <2>3
<1>3. CASE a = Shape(t)
  <2>1. Finished(d.index[t])
    BY <1>3, RightIs
  <2>2. CASE t # s.table \/ ~OnIndex(s)
    <3>1. e.index[t] = d.index[t]
      BY <2>2 DEF IndexAfter
    <3> QED BY <1>3, <2>1, <3>1, RightIs
  <2>3. CASE t = s.table /\ OnIndex(s)
    <3>1. s.op # "drop fts" /\ s.op # "create narrow fts"
      <4>1. (s.op = "drop fts" \/ s.op = "create narrow fts") =>
               Spoils(s) = {Shape(s.table), RowsIn(s.table)}
        BY DropFtsEffect
      <4> QED BY <1>3, <2>3, <4>1
    <3>2. Has(d, t)
      BY <2>1 DEF Finished, Has
    <3>3. CASE s.op = "create fts"
      BY <1>3, <2>3, <3>3, RightIs DEF IndexAfter
    <3>4. CASE s.op = "ensure fts"
      <4>1. e.index[t] = d.index[t]
        BY <2>3, <3>2, <3>4 DEF IndexAfter
      <4> QED BY <1>3, <2>1, <4>1, RightIs
    <3>5. CASE s.op = "rebuild" \/ s.op = "fill"
      <4>1. Alike(e.index[t], d.index[t])
        BY <2>3, <3>5 DEF IndexAfter
      <4> QED BY <1>3, <2>1, <4>1, FinishedAlike, RightIs
    <3> QED BY <2>3, <3>1, <3>3, <3>4, <3>5 DEF OnIndex
  <2> QED BY <2>2, <2>3
<1>4. CASE a = RowsIn(t)
  <2>1. d.index[t].rows = Filed(d, t) /\ e.rows = d.rows
    BY <1>4, RightIs DEF IndexAfter
  <2>2. SUFFICES e.index[t].rows = Filed(e, t)
    BY <1>4, RightIs
  <2>3. s.op # "fill" \/ t # "entries" => Filed(e, t) = Filed(d, t)
    BY <2>1 DEF Filed, IndexAfter
  <2>4. CASE t # s.table \/ ~OnIndex(s)
    <3>1. e.index[t] = d.index[t]
      BY <2>4 DEF IndexAfter
    <3>2. s.op # "fill" \/ t # "entries"
      BY <2>4 DEF IndexAfter, OnIndex
    <3> QED BY <2>1, <2>3, <3>1, <3>2
  <2>5. CASE t = s.table /\ OnIndex(s)
    <3>1. s.op # "drop fts" /\ s.op # "create narrow fts" /\ s.op # "create fts"
      <4>1. (s.op = "drop fts" \/ s.op = "create narrow fts") =>
               Spoils(s) = {Shape(s.table), RowsIn(s.table)}
        BY DropFtsEffect
      <4>2. s.op = "create fts" => Spoils(s) = {RowsIn(s.table)}
        BY CreateFtsEffect
      <4> QED BY <1>4, <2>5, <4>1, <4>2
    <3>2. CASE s.op = "ensure fts" /\ Has(d, t)
      <4>1. e.index[t] = d.index[t]
        BY <2>5, <3>2 DEF IndexAfter
      <4> QED BY <2>1, <2>3, <3>2, <4>1
    <3>3. CASE s.op = "ensure fts" /\ ~Has(d, t)
      <4>1. e.index[t].rows = {}
        BY <2>5, <3>3 DEF IndexAfter
      <4>2. d.index[t].rows = {}
        BY <3>3 DEF Has, Sound
      <4> QED BY <2>1, <2>3, <3>3, <4>1, <4>2
    <3>4. CASE s.op = "rebuild"
      <4>1. e.index[t].rows = Filed(d, t)
        BY <2>5, <3>4 DEF IndexAfter
      <4> QED BY <2>3, <3>4, <4>1
    <3>5. CASE s.op = "fill"
      <4>1. t = "entries" /\ e.unfilled = {} /\ a = RowsIn("entries")
        BY <1>4, <2>5, <3>5 DEF IndexAfter
      <4>2. d.triggers["entries"]["au"] = "wide"
        <5>1. "au" \in Triggers /\ "entries" \in Indexed
          BY SqliteLiterals DEF Triggers
        <5> QED BY <3>5, <4>1, <5>1, RightIs
      <4>3. e.index["entries"].rows = d.index["entries"].rows \cup d.unfilled
        BY <3>5, <4>2 DEF IndexAfter
      <4>4. d.unfilled \subseteq d.rows["entries"]
        BY DEF Sound
      <4> QED BY <2>1, <4>1, <4>3, <4>4 DEF Filed
    <3> QED BY <2>5, <3>1, <3>2, <3>3, <3>4, <3>5 DEF OnIndex
  <2> QED BY <2>4, <2>5
<1> QED BY <1>1, <1>2, <1>3, <1>4

LEMMA AssuredRight ==
    ASSUME NEW s, NEW d, NEW e, IndexAfter(s, d, e), TriggersAfter(s, d, e),
           s.table \in Indexed, OnTriggers(s) => s.name \in Triggers,
           NEW a, Assures(s, a), Sane(d, a)
    PROVE  Right(e, a)
<1>1. CASE s.op = "ensure fts" /\ a = Shape(s.table)
  <2>1. Finished(d.index[s.table]) \/ ~Has(d, s.table)
    BY <1>1, RightIs DEF Sane
  <2>2. Finished(e.index[s.table])
    BY <1>1, <2>1 DEF IndexAfter
  <2> QED BY <1>1, <2>2, RightIs
<1>2. CASE s.op = "ensure trigger" /\ a = Trig(s.table, s.name)
  <2>0. s.name \in Triggers
    BY <1>2 DEF OnTriggers
  <2> DEFINE u == s.table
             x == s.name
  <2>3. u \in Indexed /\ x \in Triggers /\ (Right(d, Trig(u, x)) \/ Missing(d, Trig(u, x)))
    BY <1>2, <2>0 DEF Sane
  <2>1. d.triggers[u][x] = "wide" \/ d.triggers[u][x] = "none"
    <3> HIDE DEF u, x
    <3> QED BY <2>3, RightIs
  <2>2. e.triggers[s.table][s.name] = "wide"
    BY <1>2, <2>1 DEF TriggersAfter
  <2> QED BY <1>2, <2>0, <2>2, RightIs
<1> QED BY <1>1, <1>2 DEF Assures

\* What repairs makes right.
LEMMA RightMade ==
    ASSUME NEW s, NEW d, NEW e, IndexAfter(s, d, e), TriggersAfter(s, d, e),
           NEW t \in Indexed, NEW a \in Idx(t), a \in Repairs(s),
           OnTriggers(s) => s.name \in Triggers,
           Ensures(s) => Sane(d, a)
    PROVE  Right(e, a) /\ s.table = t
<1>0. a # Tx
  BY TxDiffers DEF Idx
<1>1. CASE s.op = "create trigger"
  <2>1. a = Trig(s.table, s.name)
    BY <1>1 DEF Repairs
  <2>2. t = s.table /\ s.name \in Triggers
    BY <1>1, <2>1, IdxTable DEF OnTriggers
  <2>3. e.triggers[s.table][s.name] = "wide"
    BY <1>1 DEF TriggersAfter
  <2> QED BY <2>1, <2>2, <2>3, RightIs
<1>2. CASE s.op = "create fts"
  <2>1. a = Shape(s.table)
    BY <1>2, CreateFtsEffect
  <2>2. t = s.table
    BY <2>1, IdxTable
  <2>3. Finished(e.index[s.table])
    BY <1>2 DEF IndexAfter
  <2> QED BY <2>1, <2>2, <2>3, RightIs
<1>3. CASE s.op = "rebuild"
  <2>1. a = RowsIn(s.table)
    BY <1>3, RebuildEffect
  <2>2. t = s.table
    BY <2>1, IdxTable
  <2>3. e.index[t].rows = Filed(e, t)
    BY <1>3, <2>2 DEF IndexAfter, Filed
  <2> QED BY <2>1, <2>2, <2>3, RightIs
<1>4. CASE Ensures(s)
  <2>1. Assures(s, a)
    BY <1>4 DEF Repairs, Ensures, Assures
  <2>2. a = Shape(s.table) \/ a = Trig(s.table, s.name)
    BY <2>1 DEF Assures
  <2>3. t = s.table
    BY <2>2, IdxTable
  <2> QED BY <1>4, <2>1, <2>3, AssuredRight
<1>5. CASE ~(s.op = "create trigger" \/ s.op = "create fts" \/ s.op = "rebuild" \/ Ensures(s))
  <2>1. Repairs(s) \subseteq {Tx}
    BY <1>5 DEF Repairs, Ensures
  <2> QED BY <1>0, <2>1
<1> QED BY <1>1, <1>2, <1>3, <1>4, <1>5

\* An index that no one makes with an old list is missing or right.
LEMMA SaneKept ==
    ASSUME NEW s, NEW d, NEW e, IndexAfter(s, d, e), TriggersAfter(s, d, e),
           NEW t \in Indexed, NEW a \in Idx(t), a # RowsIn(t), Sane(d, a),
           Makes(s) => s.table # t
    PROVE  Sane(e, a)
<1>1. (\E x \in Triggers : a = Trig(t, x)) \/ a = Shape(t)
  BY DEF Idx
<1>2. ASSUME NEW x \in Triggers, a = Trig(t, x) PROVE Sane(e, a)
  <2>1. d.triggers[t][x] = "wide" \/ d.triggers[t][x] = "none"
    BY <1>2, RightIs DEF Sane
  <2>2. e.triggers[t][x] = "wide" \/ e.triggers[t][x] = "none"
    <3>1. CASE t # s.table \/ x # s.name \/ ~OnTriggers(s)
      BY <2>1, <3>1 DEF TriggersAfter
    <3>2. CASE t = s.table /\ x = s.name /\ OnTriggers(s)
      <4>1. s.op = "drop trigger" \/ s.op = "ensure trigger"
        BY <3>2 DEF Makes, OnTriggers
      <4> QED BY <2>1, <3>2, <4>1 DEF TriggersAfter
    <3> QED BY <3>1, <3>2
  <2> QED BY <1>2, <2>2, RightIs DEF Sane
<1>3. CASE a = Shape(t)
  <2>1. Finished(d.index[t]) \/ ~Has(d, t)
    BY <1>3, RightIs DEF Sane
  <2>2. Finished(e.index[t]) \/ ~Has(e, t)
    <3>1. CASE t # s.table \/ ~OnIndex(s)
      <4>1. e.index[t] = d.index[t]
        BY <3>1 DEF IndexAfter
      <4> QED BY <2>1, <4>1 DEF Has
    <3>2. CASE t = s.table /\ OnIndex(s)
      <4>1. CASE s.op = "ensure fts" /\ Has(d, t)
        <5>1. e.index[t] = d.index[t]
          BY <3>2, <4>1 DEF IndexAfter
        <5> QED BY <2>1, <5>1 DEF Has
      <4>2. CASE s.op = "ensure fts" /\ ~Has(d, t)
        BY <3>2, <4>2 DEF IndexAfter
      <4>3. CASE s.op = "drop fts"
        BY <3>2, <4>3 DEF IndexAfter
      <4>4. CASE s.op = "rebuild" \/ s.op = "fill"
        <5>1. Alike(e.index[t], d.index[t])
          BY <3>2, <4>4 DEF IndexAfter
        <5>2. (Finished(d.index[t]) => Finished(e.index[t])) /\ (~Has(d, t) => ~Has(e, t))
          BY <5>1 DEF Alike, Finished, Has
        <5> QED BY <2>1, <5>2
      <4> QED BY <3>2, <4>1, <4>2, <4>3, <4>4 DEF OnIndex, Makes
    <3> QED BY <3>1, <3>2
  <2> QED BY <1>3, <2>2, RightIs DEF Sane
<1> QED BY <1>1, <1>2, <1>3

\* A row stored where the index and its trigger are right gets into it.
LEMMA StoreRight ==
    ASSUME NEW d, Sound("sqlite", d), NEW u \in Indexed, NEW r \in Rows, r \notin d.rows[u],
           NEW S, S = NewRows(d, u, r),
           S = d.index[u].rows \/ (d.index[u].there /\ S = d.index[u].rows \cup {r}),
           NEW e, e = StoredIn(d, u, r, S),
           NEW t \in Indexed, NEW a \in Idx(t), Right(d, a),
           a = RowsIn(u) => Right(d, Shape(u)) /\ Right(d, Trig(u, "ai"))
    PROVE  Right(e, a)
<1>0. /\ e.triggers = d.triggers /\ e.unfilled = d.unfilled
      /\ e.rows[u] = d.rows[u] \cup {r} /\ e.index[u].rows = S
      /\ e.index[u].there = d.index[u].there /\ e.index[u].wide = d.index[u].wide
      /\ e.index[u].stemmed = d.index[u].stemmed
      /\ \A w \in Indexed \ {u} : e.rows[w] = d.rows[w] /\ e.index[w] = d.index[w]
  BY StoredFields
<1>1. (\E x \in Triggers : a = Trig(t, x)) \/ a = Shape(t) \/ a = RowsIn(t)
  BY DEF Idx
<1>2. ASSUME NEW x \in Triggers, a = Trig(t, x) PROVE Right(e, a)
  <2>1. d.triggers[t][x] = "wide"
    BY <1>2, RightIs
  <2> QED BY <1>0, <1>2, <2>1, RightIs
<1>3. CASE a = Shape(t)
  <2>1. Finished(d.index[t])
    BY <1>3, RightIs
  <2>2. Finished(e.index[t])
    <3>1. CASE t = u
      BY <1>0, <2>1, <3>1 DEF Finished
    <3>2. CASE t # u
      BY <1>0, <2>1, <3>2
    <3> QED BY <3>1, <3>2
  <2> QED BY <1>3, <2>2, RightIs
<1>4. CASE a = RowsIn(t)
  <2>1. d.index[t].rows = Filed(d, t)
    BY <1>4, RightIs
  <2>2. SUFFICES e.index[t].rows = Filed(e, t)
    BY <1>4, RightIs
  <2>3. CASE t # u
    <3>1. Filed(e, t) = Filed(d, t)
      BY <1>0, <2>3 DEF Filed
    <3> QED BY <1>0, <2>1, <2>3, <3>1
  <2>4. CASE t = u
    <3>1. Finished(d.index[u])
      BY <1>4, <2>4, RightIs
    <3>2. d.triggers[u]["ai"] = "wide"
      <4>1. "ai" \in Triggers
        BY DEF Triggers
      <4> QED BY <1>4, <2>4, <4>1, RightIs
    <3>3. S = d.index[u].rows \cup {r}
      BY <3>1, <3>2 DEF NewRows, Finished
    <3>4. Filed(e, u) = Filed(d, u) \cup {r}
      <4>1. d.unfilled \subseteq d.rows["entries"]
        BY DEF Sound
      <4> QED BY <1>0, <4>1 DEF Filed
    <3> QED BY <1>0, <2>1, <2>4, <3>3, <3>4
  <2> QED BY <2>3, <2>4
<1> QED BY <1>1, <1>2, <1>3, <1>4

----------------------------------------------------------------------------
(* A database that was found empty has nothing made with an old list.      *)

LEMMA FirmSelf == \A d : Firm(d, d)
  BY DEF Firm

LEMMA FirmOn == \A d, e, f : Firm(d, e) /\ Firm(e, f) => Firm(d, f)
  BY DEF Firm

\* What CREATE ... IF NOT EXISTS looks at.
LEMMA AssuresWhat ==
    ASSUME NEW s, Proper("sqlite", s), NEW a, Assures(s, a)
    PROVE  /\ s.table \in Indexed /\ a \in Idx(s.table) /\ a # RowsIn(s.table)
           /\ a \in Aspects
<1>1. s.table \in Indexed /\ (s.op = "ensure trigger" => s.name \in Triggers)
  BY DEF Proper, Assures, Ensures, OnTriggers
<1>2. a \in Idx(s.table)
  BY <1>1 DEF Idx, Assures
<1>3. a # RowsIn(s.table)
  BY TrigRows, ShapeRows DEF Assures
<1> QED BY <1>1, <1>2, <1>3, AspectsOf

\* The script of every boot looks at every index and trigger.
LEMMA AssuredAll ==
    ASSUME NEW R, NEW d, Assured(R, d), Elems(CoreScript) \subseteq R,
           NEW t \in Indexed, NEW a \in Idx(t), a # RowsIn(t)
    PROVE  Right(d, a)
<1>1. a \in Aspects
  BY AspectsOf
<1>2. CASE a = Shape(t)
  <2>1. PICK s \in Elems(CoreScript) : s.op = "ensure fts" /\ s.table = t
    BY CoreElems
  <2> QED BY <1>1, <1>2, <2>1 DEF Assured, Assures
<1>3. ASSUME NEW x \in Triggers PROVE a = Trig(t, x) => Right(d, a)
  <2>1. \A u \in Indexed, y \in Triggers : \E s \in Elems(CoreScript) :
           s.op = "ensure trigger" /\ s.table = u /\ s.name = y
    BY CoreElems
  <2>2. PICK s \in Elems(CoreScript) : s.op = "ensure trigger" /\ s.table = t /\ s.name = x
    BY <2>1
  <2> QED BY <1>1, <2>2 DEF Assured, Assures
<1> QED BY <1>2, <1>3 DEF Idx

LEMMA SolidNew ==
    ASSUME TypeInv(0), backend = "sqlite", NEW p \in Procs, Executes(p), Solid(Sees(p)),
           Assured(Ran(p), Sees(p))
    PROVE  /\ Solid(New(p)) /\ Firm(Sees(p), New(p))
           /\ \A a : Assures(Current(p), a) => Right(New(p), a)
<1> DEFINE d == Sees(p)
           e == New(p)
           s == Current(p)
           R == Ran(p)
<1>1. proc[p].at = "boot" /\ ~Raises(s, d, proc[p].missing)
  BY DEF Executes
<1>2. /\ Proper("sqlite", s) /\ Sound("sqlite", d) /\ Sound("sqlite", e)
      /\ d \in Databases("sqlite")
  BY <1>1, BootList, SeesSound, NewSound
<1>3. IndexAfter(s, d, e) /\ TriggersAfter(s, d, e) /\ Keeps(s, d, e)
  BY <1>2, ApplyAfter, ApplyFields DEF New
<1>4. ~Drops(s) /\ ~Makes(s)
  <2>1. Kindly(s, proc[p].from) /\ (proc[p].from \in 1..18 => proc[p].from = 0)
    BY <1>1, CurrentKindly
  <2> QED BY <2>1 DEF Kindly
<1>5. Versions(s) => Elems(CoreScript) \subseteq R
  BY <1>1, StampRan
<1>6. Solid(d) /\ Assured(R, d)
  OBVIOUS
<1> HIDE DEF d, e, s, R
<1>7. \A t \in Indexed : \A a \in Idx(t) : a \notin Spoils(s)
  BY <1>4, SpoilsIdx
<1>8. ASSUME NEW t \in Indexed, NEW a \in Idx(t), a # RowsIn(t), Right(d, a)
      PROVE  Right(e, a)
  <2>1. ~(s.op = "fill" /\ a = RowsIn("entries"))
    BY <1>8, IdxTable
  <2> QED BY <1>2, <1>3, <1>7, <1>8, <2>1, RightKept
<1>9. Firm(d, e)
  BY <1>8 DEF Firm
<1>10. ASSUME NEW a, Assures(s, a) PROVE Right(e, a)
  <2>1. s.table \in Indexed /\ a \in Idx(s.table) /\ (OnTriggers(s) => s.name \in Triggers)
    BY <1>2, <1>10, AssuresWhat DEF Proper
  <2>2. Sane(d, a)
    BY <1>6, <2>1 DEF Solid, Sane
  <2> QED BY <1>3, <1>10, <2>1, <2>2, AssuredRight
<1>11. e.rows = d.rows /\ (e.version # 19 => d.version # 19)
       /\ (d.version # 19 /\ e.version = 19 => Versions(s))
  BY <1>3 DEF Keeps
<1>12. ASSUME NEW t \in Indexed, NEW a \in Idx(t)
       PROVE  Right(e, a) \/ (Missing(e, a) /\ e.version # 19)
  <2>1. CASE a = RowsIn(t) /\ d.version = 19
    <3>1. \A u \in Indexed : \A b \in Idx(u) : Right(d, b)
      BY <1>6, <2>1 DEF Solid
    <3>2. Right(d, a) /\ Right(d, Trig("entries", "au"))
      BY <3>1 DEF Idx, Indexed, Triggers
    <3> QED BY <1>2, <1>3, <1>7, <3>2, RightKept
  <2>2. CASE a = RowsIn(t) /\ d.version # 19
    <3>1. e.rows[t] = {}
      BY <1>6, <1>11, <2>2 DEF Solid
    <3>2. e.index[t].rows = {} /\ Filed(e, t) = {}
      BY <1>2, <3>1 DEF Sound, Filed
    <3> QED BY <2>2, <3>2, RightIs
  <2>3. CASE a # RowsIn(t) /\ Right(d, a)
    BY <1>8, <2>3
  <2>4. CASE a # RowsIn(t) /\ ~Right(d, a)
    <3>1. Missing(d, a) /\ d.version # 19
      BY <1>6, <2>4 DEF Solid
    <3>2. Sane(e, a)
      BY <1>3, <1>4, <2>4, <3>1, SaneKept DEF Sane
    <3>3. e.version # 19
      BY <1>5, <1>6, <1>11, <2>4, <3>1, AssuredAll
    <3> QED BY <3>2, <3>3 DEF Sane
  <2> QED BY <2>1, <2>2, <2>3, <2>4
<1>13. Solid(e)
  BY <1>6, <1>11, <1>12 DEF Solid
<1> QED BY <1>9, <1>10, <1>13 DEF d, e, s

LEMMA SolidFound ==
    ASSUME NEW b
    PROVE  Solid(Found(b, 0))
<1> DEFINE d == Found(b, 0)
<1>1. \A t : ~There(t, 0)
  BY DEF There
<1>2. /\ d.version = 0
      /\ \A t \in Indexed : d.index[t] = NoIndex /\ d.rows[t] = {}
      /\ \A t \in Indexed, x \in Triggers : d.triggers[t][x] = "none"
  <2>1. /\ d.version = 0
        /\ \A t \in Indexed : d.index[t] = FoundIndex(t, 0) /\ d.rows[t] = Stored(t, 0)
        /\ \A t \in Indexed, x \in Triggers : d.triggers[t][x] = FoundTrigger(t, 0)
    BY FoundFields
  <2>2. \A t : FoundIndex(t, 0) = NoIndex /\ Stored(t, 0) = {} /\ FoundTrigger(t, 0) = "none"
    BY <1>1 DEF FoundIndex, Stored, FoundTrigger
  <2> HIDE DEF d
  <2> QED BY <2>1, <2>2
<1> HIDE DEF d
<1>3. ASSUME NEW t \in Indexed, NEW a \in Idx(t) PROVE Right(d, a) \/ Missing(d, a)
  <2>1. \A x \in Triggers : a = Trig(t, x) => Missing(d, a)
    BY <1>2, RightIs
  <2>2. a = Shape(t) => Missing(d, a)
    BY <1>2, RightIs DEF Has, NoIndex
  <2>3. a = RowsIn(t) => Right(d, a)
    <3>1. d.index[t].rows = {}
      BY <1>2 DEF NoIndex
    <3>2. Filed(d, t) = {}
      BY <1>2 DEF Filed
    <3> QED BY <3>1, <3>2, RightIs
  <2> QED BY <2>1, <2>2, <2>3 DEF Idx
<1>4. d.version # 19
  BY <1>2
<1> QED BY <1>2, <1>3, <1>4 DEF Solid, d

\* A stored row.
LEMMA RightStored ==
    ASSUME NEW v, TypeInv(v), NEW p \in Procs, Stores(p),
           \A t \in Indexed : \A a \in Idx(t) : Right(db, a)
    PROVE  \A t \in Indexed : \A a \in Idx(t) : Right(db', a)
<1>1. PICK u \in Indexed, r \in Rows :
         /\ db' = StoredIn(db, u, r, NewRows(db, u, r)) /\ r \notin db.rows[u]
         /\ NewRows(db, u, r) = db.index[u].rows
            \/ (db.index[u].there /\ NewRows(db, u, r) = db.index[u].rows \cup {r})
  BY DEF Stores
<1>2. Sound("sqlite", db)
  BY DEF TypeInv, Stores
<1>3. Right(db, Shape(u)) /\ Right(db, Trig(u, "ai"))
  BY DEF Idx, Triggers
<1> DEFINE S == NewRows(db, u, r)
           e == db'
<1>4. e = StoredIn(db, u, r, S) /\ S = NewRows(db, u, r)
      /\ (S = db.index[u].rows \/ (db.index[u].there /\ S = db.index[u].rows \cup {r}))
  BY <1>1
<1> HIDE DEF S, e
<1>5. ASSUME NEW t \in Indexed, NEW a \in Idx(t) PROVE Right(e, a)
  BY <1>1, <1>2, <1>3, <1>4, StoreRight
<1> QED BY <1>5 DEF e

LEMMA BareInit ==
    ASSUME NEW v, Init, db = Found(backend, v)
    PROVE  Bare(v)
<1>1. work = db /\ \A p \in Procs : proc[p].at # "boot"
  BY DEF Init, Down
<1>2. \A p \in Procs : Assured(Ran(p), Sees(p))
  BY <1>1, RanNothing DEF Assured
<1> QED BY <1>1, <1>2, SolidFound, FirmSelf DEF Bare

\* No step takes back what is right, on either side of a transaction.
LEMMA BareSides ==
    ASSUME TypeInv(0), Versioned, Bare(0), backend = "sqlite", NEW p \in Procs, Moves(p)
    PROVE  /\ Solid(db') /\ Solid(work') /\ Firm(db', work')
           /\ \A q \in Procs : proc[q].at = "boot" /\ proc'[q].at = "boot"
                 => Firm(Sees(q), Sees(q)')
<1>1. /\ owner \in Procs \cup {NoProc} /\ p # NoProc
      /\ Solid(db) /\ Solid(work) /\ Firm(db, work)
      /\ \A q \in Procs : Assured(Ran(q), Sees(q))
  BY ProcAssumption DEF TypeInv, Bare
<1>2. \A q : Sees(q)' = IF owner' = q THEN work' ELSE db'
  BY DEF Sees
<1>3. \A q \in Procs : q # NoProc
  BY ProcAssumption
<1>4. CASE Executes(p)
  <2>1. Solid(Sees(p)) /\ Assured(Ran(p), Sees(p))
    BY <1>1 DEF Sees
  <2>2. Solid(New(p)) /\ Firm(Sees(p), New(p))
    BY <1>4, <2>1, SolidNew
  <2>3. CASE ExecutesInside(p)
    <3>1. /\ (owner = p \/ owner = NoProc) /\ Sees(p) = work
          /\ work' = New(p) /\ db' = db /\ owner' = p
      BY <2>3 DEF ExecutesInside
    <3>2. Firm(db, New(p)) /\ Firm(work, New(p))
      BY <1>1, <2>2, <3>1, FirmOn
    <3>3. ASSUME NEW q \in Procs PROVE Firm(Sees(q), Sees(q)')
      <4>1. CASE q = p
        BY <1>2, <2>2, <3>1, <4>1
      <4>2. CASE q # p
        <5>1. Sees(q) = db /\ Sees(q)' = db
          BY <1>2, <1>3, <3>1, <4>2 DEF Sees
        <5> QED BY <5>1, FirmSelf
      <4> QED BY <4>1, <4>2
    <3> QED BY <1>1, <2>2, <3>1, <3>2, <3>3
  <2>4. CASE ExecutesAlone(p)
    <3>1. /\ owner = NoProc /\ Sees(p) = work /\ work = db
          /\ work' = New(p) /\ db' = New(p) /\ owner' = NoProc
      BY <2>4 DEF ExecutesAlone
    <3>2. \A q \in Procs : Sees(q) = db /\ Sees(q)' = db'
      BY <1>2, <1>3, <3>1 DEF Sees
    <3> QED BY <2>2, <3>1, <3>2, FirmSelf
  <2>5. CASE Reads(p)
    <3>1. work' = work /\ db' = db /\ owner' = owner
      BY <2>5 DEF Reads
    <3>2. \A q : Sees(q)' = Sees(q)
      BY <1>2, <3>1 DEF Sees
    <3> QED BY <1>1, <3>1, <3>2, FirmSelf
  <2> QED BY <1>4, <2>3, <2>4, <2>5 DEF Executes
<1>5. CASE Commits(p)
  <2>1. CASE owner = p /\ db' = work /\ owner' = NoProc /\ work' = work
    <3>1. \A q \in Procs : Sees(q)' = work /\ (Sees(q) = work \/ Sees(q) = db)
      BY <1>2, <1>3, <2>1 DEF Sees
    <3> QED BY <1>1, <2>1, <3>1, FirmSelf
  <2>2. CASE owner # p /\ db' = db /\ owner' = owner /\ work' = work
    <3>1. \A q : Sees(q)' = Sees(q)
      BY <1>2, <2>2 DEF Sees
    <3> QED BY <1>1, <2>2, <3>1, FirmSelf
  <2> QED BY <1>5, <2>1, <2>2 DEF Commits
<1>6. CASE Leaves(p)
  <2>0. db' = db /\ proc'[p].at # "boot"
    BY <1>6 DEF Leaves
  <2>1. CASE owner = p /\ work' = db /\ owner' = NoProc
    <3>1. \A q \in Procs \ {p} : Sees(q)' = db /\ Sees(q) = db
      BY <1>2, <1>3, <2>0, <2>1 DEF Sees
    <3> QED BY <1>1, <2>0, <2>1, <3>1, FirmSelf
  <2>2. CASE owner # p /\ work' = work /\ owner' = owner
    <3>1. \A q : Sees(q)' = Sees(q)
      BY <1>2, <2>0, <2>2 DEF Sees
    <3> QED BY <1>1, <2>0, <2>2, <3>1, FirmSelf
  <2> QED BY <1>6, <2>1, <2>2 DEF Leaves
<1>7. CASE Begins(p)
  <2>1. db' = db /\ work' = work /\ owner' = owner
    BY <1>7 DEF Begins
  <2>2. \A q : Sees(q)' = Sees(q)
    BY <1>2, <2>1 DEF Sees
  <2> QED BY <1>1, <2>1, <2>2, FirmSelf
<1>8. CASE Stores(p)
  <2>1. /\ owner = NoProc /\ owner' = NoProc /\ work = db /\ work' = db'
        /\ proc[p].at = "serving" \/ proc[p].at = "degraded"
    BY <1>8 DEF Stores
  <2>2. db.version = 19
    BY <2>1 DEF Versioned, VersionedAt
  <2>3. \A t \in Indexed : \A a \in Idx(t) : Right(db, a)
    BY <1>1, <2>2 DEF Solid
  <2>4. \A t \in Indexed : \A a \in Idx(t) : Right(db', a)
    BY <1>8, <2>3, RightStored
  <2>5. db'.version = 19
    <3>1. PICK u \in Indexed, r \in Rows :
             /\ db' = StoredIn(db, u, r, NewRows(db, u, r))
             /\ NewRows(db, u, r) = db.index[u].rows
                \/ (db.index[u].there /\ NewRows(db, u, r) = db.index[u].rows \cup {r})
      BY <1>8 DEF Stores
    <3>2. Sound(backend, db)
      BY DEF TypeInv
    <3> QED BY <2>2, <3>1, <3>2, StoredFields
  <2>6. Solid(db') /\ Firm(db, db')
    BY <2>4, <2>5 DEF Solid, Firm
  <2>7. \A q \in Procs : Sees(q) = db /\ Sees(q)' = db'
    BY <1>2, <1>3, <2>1 DEF Sees
  <2> QED BY <2>1, <2>6, <2>7, FirmSelf
<1> QED BY <1>4, <1>5, <1>6, <1>7, <1>8 DEF Moves

LEMMA AssuredFirm ==
    ASSUME NEW R, \A s \in R : Proper("sqlite", s), NEW d, NEW e, Assured(R, d), Firm(d, e)
    PROVE  Assured(R, e)
<1> SUFFICES ASSUME NEW s \in R, NEW a \in Aspects, Assures(s, a) PROVE Right(e, a)
  BY DEF Assured
<1>1. Right(d, a)
  BY DEF Assured
<1>2. s.table \in Indexed /\ a \in Idx(s.table) /\ a # RowsIn(s.table)
  BY AssuresWhat
<1> QED BY <1>1, <1>2 DEF Firm

\* A step of p that leaves it booting and further on.
LEMMA StepOf ==
    ASSUME NEW v, TypeInv(v), NEW p \in Procs, Moves(p), Advances(p)
    PROVE  Executes(p) \/ (Commits(p) /\ Current(p).op = "commit")
<1>1. proc'[p].at = "boot" /\ proc[p].at = "boot"
  BY AdvanceMoves DEF Advances
<1>2. ~Begins(p) /\ ~Stores(p) /\ ~Leaves(p)
  BY <1>1 DEF Begins, Stores, Leaves
<1> QED BY <1>2 DEF Moves, Commits

LEMMA BareStep ==
    ASSUME NEW v, TypeInv(v), Versioned, Bare(v), NEW p \in Procs, Moves(p)
    PROVE  Bare(v)'
<1>1. backend' = backend
  BY MovesOrNot
<1>2. CASE ~(backend = "sqlite" /\ v = 0)
  BY <1>1, <1>2 DEF Bare
<1>3. CASE backend = "sqlite" /\ v = 0
  <2>1. TypeInv(0) /\ Bare(0) /\ backend = "sqlite" /\ backend' = backend
    BY <1>1, <1>3
  <2>2. /\ Solid(db') /\ Solid(work') /\ Firm(db', work')
        /\ \A q \in Procs : proc[q].at = "boot" /\ proc'[q].at = "boot"
              => Firm(Sees(q), Sees(q)')
    BY <2>1, BareSides
  <2>3. /\ \A q \in Procs \ {p} : proc'[q] = proc[q]
        /\ Advances(p) \/ proc'[p].at # "boot" \/ (proc'[p].at = "boot" /\ proc'[p].next = 1)
    BY <2>1, MovesOrNot
  <2>4. \A q \in Procs : Assured(Ran(q), Sees(q)) /\ \A s \in Ran(q) : Proper("sqlite", s)
    BY <2>1, RanProper DEF Bare
  <2>5. ASSUME NEW q \in Procs, q # p PROVE Assured(Ran(q)', Sees(q)')
    <3>1. proc'[q] = proc[q] /\ Ran(q)' = Ran(q)
      BY <2>1, <2>3, <2>5, RanSame
    <3>2. CASE proc[q].at = "boot"
      <4>1. Firm(Sees(q), Sees(q)')
        BY <2>2, <3>1, <3>2
      <4> QED BY <2>4, <3>1, <4>1, AssuredFirm
    <3>3. CASE proc[q].at # "boot"
      BY <3>1, <3>3, RanNothing DEF Assured
    <3> QED BY <3>2, <3>3
  <2>6. Assured(Ran(p)', Sees(p)')
    <3>1. CASE proc'[p].at # "boot" \/ (proc'[p].at = "boot" /\ proc'[p].next = 1)
      <4>1. Ran(p)' = {}
        BY <3>1, RanNothing
      <4> QED BY <4>1 DEF Assured
    <3>2. CASE Advances(p)
      <4>1. Ran(p)' = Ran(p) \cup {Current(p)} /\ proc[p].at = "boot" /\ proc'[p].at = "boot"
        BY <2>1, <3>2, AdvanceMoves DEF Advances
      <4>2. Assured(Ran(p), Sees(p)')
        BY <2>2, <2>4, <4>1, AssuredFirm
      <4>3. \A a : Assures(Current(p), a) => Right(Sees(p)', a)
        <5>1. CASE Executes(p)
          <6>1. Sees(p)' = New(p)
            BY <2>1, <5>1, SeesNew
          <6>2. Solid(Sees(p))
            BY <2>1 DEF Bare, Sees
          <6>3. \A a : Assures(Current(p), a) => Right(New(p), a)
            BY <2>1, <2>4, <5>1, <6>2, SolidNew
          <6> QED BY <6>1, <6>3
        <5>2. CASE Current(p).op = "commit"
          BY <5>2 DEF Assures
        <5> QED BY <2>1, <3>2, <5>1, <5>2, StepOf
      <4> QED BY <4>1, <4>2, <4>3 DEF Assured
    <3> QED BY <2>3, <3>1, <3>2
  <2>7. \A q \in Procs : Assured(Ran(q)', Sees(q)')
    BY <2>5, <2>6
  <2>8. (Solid(db) /\ Solid(work) /\ Firm(db, work))' <=>
           Solid(db') /\ Solid(work') /\ Firm(db', work')
    BY DEF Solid, Firm, Right, Missing, Has, Finished, Filed, Trig, Shape, RowsIn, Idx
  <2>9. ASSUME NEW q \in Procs
        PROVE (Assured(Ran(q), Sees(q)))' <=> Assured(Ran(q)', Sees(q)')
    BY DEF Assured, Right, Has, Finished, Filed, Trig, Shape, RowsIn, Assures, Aspects, Tx
  <2> QED BY <2>2, <2>7, <2>8, <2>9 DEF Bare
<1> QED BY <1>2, <1>3

----------------------------------------------------------------------------
(* The entries: what CREATE ... IF NOT EXISTS finds of their index.        *)

LEMMA AgreesSelf == \A d : Agrees(d, d)
  BY DEF Agrees

LEMMA AgreesOn ==
    /\ \A d, e, f : Agrees(d, e) /\ Agrees(e, f) => Agrees(d, f)
    /\ \A d, e : Agrees(d, e) => Agrees(e, d)
  BY DEF Agrees

LEMMA EntriesIdx ==
    /\ "entries" \in Indexed
    /\ \A a : a \in Idx("entries") /\ a # RowsIn("entries") =>
          a = Shape("entries") \/ \E x \in Triggers : a = Trig("entries", x)
  BY DEF Idx, Indexed

LEMMA AgreeFields ==
    ASSUME NEW d, NEW e, Alike(d.index["entries"], e.index["entries"]),
           \A x \in Triggers : d.triggers["entries"][x] = e.triggers["entries"][x]
    PROVE  Agrees(d, e)
<1>1. ASSUME NEW a, a = Shape("entries")
      PROVE  (Right(d, a) <=> Right(e, a)) /\ (Missing(d, a) <=> Missing(e, a))
  <2>1. Finished(d.index["entries"]) <=> Finished(e.index["entries"])
    BY DEF Alike, Finished
  <2>2. Has(d, "entries") <=> Has(e, "entries")
    BY DEF Alike, Has
  <2> QED BY <1>1, <2>1, <2>2, RightIs, EntriesIdx
<1>2. ASSUME NEW a, NEW x \in Triggers, a = Trig("entries", x)
      PROVE  (Right(d, a) <=> Right(e, a)) /\ (Missing(d, a) <=> Missing(e, a))
  <2>1. d.triggers["entries"][x] = e.triggers["entries"][x]
    OBVIOUS
  <2>2. \A c \in {d, e} : /\ Right(c, a) <=> c.triggers["entries"][x] = "wide"
                          /\ Missing(c, a) <=> c.triggers["entries"][x] = "none"
    BY <1>2, RightIs, EntriesIdx
  <2> QED BY <2>1, <2>2
<1> QED BY <1>1, <1>2, EntriesIdx DEF Agrees

LEMMA AgreesAfter ==
    ASSUME NEW s, NEW d, NEW e, IndexAfter(s, d, e), TriggersAfter(s, d, e),
           Ensures(s) \/ Drops(s) \/ Makes(s) => s.table # "entries"
    PROVE  Agrees(d, e)
<1>1. \A x \in Triggers : d.triggers["entries"][x] = e.triggers["entries"][x]
  <2>1. OnTriggers(s) => s.table # "entries"
    BY DEF OnTriggers, Ensures, Drops, Makes
  <2> QED BY <2>1, EntriesIdx DEF TriggersAfter
<1>2. Alike(d.index["entries"], e.index["entries"])
  <2>1. CASE "entries" # s.table \/ ~OnIndex(s)
    <3>1. e.index["entries"] = d.index["entries"]
      BY <2>1, EntriesIdx DEF IndexAfter
    <3> QED BY <3>1 DEF Alike
  <2>2. CASE s.table = "entries" /\ OnIndex(s)
    <3>1. s.op = "rebuild" \/ s.op = "fill"
      BY <2>2 DEF OnIndex, Ensures, Drops, Makes
    <3>2. Alike(e.index["entries"], d.index["entries"])
      BY <2>2, <3>1 DEF IndexAfter
    <3> QED BY <3>2 DEF Alike
  <2> QED BY <2>1, <2>2
<1> QED BY <1>1, <1>2, AgreeFields

\* What the statements of a boot are when they run.
LEMMA StepFacts ==
    ASSUME NEW v, TypeInv(v), backend = "sqlite", NEW p \in Procs, Executes(p)
    PROVE  /\ Proper("sqlite", Current(p)) /\ Kindly(Current(p), proc[p].from)
           /\ Sound("sqlite", Sees(p)) /\ Sound("sqlite", New(p))
           /\ IndexAfter(Current(p), Sees(p), New(p))
           /\ TriggersAfter(Current(p), Sees(p), New(p))
           /\ Keeps(Current(p), Sees(p), New(p))
           /\ Careful(Opened(p)) /\ Fits(Current(p), Opened(p))
           /\ proc[p].at = "boot" /\ Ran(p)' = Ran(p) \cup {Current(p)}
<1>1. /\ proc[p].at = "boot" /\ ~Raises(Current(p), Sees(p), proc[p].missing)
      /\ Advances(p)
  BY DEF Executes, Advances
<1>2. /\ Proper("sqlite", Current(p)) /\ Sound("sqlite", Sees(p)) /\ Sound("sqlite", New(p))
      /\ Sees(p) \in Databases("sqlite")
  BY <1>1, BootList, SeesSound, NewSound
<1>3. /\ IndexAfter(Current(p), Sees(p), New(p)) /\ TriggersAfter(Current(p), Sees(p), New(p))
      /\ Keeps(Current(p), Sees(p), New(p))
  BY <1>2, ApplyAfter, ApplyFields DEF New
<1> QED BY <1>1, <1>2, <1>3, CurrentKindly, OpenedNow, AdvanceMoves

LEMMA InsideEntries ==
    ASSUME NEW v, TypeInv(v), Held, backend = "sqlite", NEW p \in Procs, Executes(p),
           ExecutesInside(p)
    PROVE  Ensures(Current(p)) \/ Drops(Current(p)) \/ Makes(Current(p)) =>
              Current(p).table # "entries"
<1>1. /\ Kindly(Current(p), proc[p].from) /\ Fits(Current(p), Opened(p))
  BY StepFacts
<1>2. CASE owner = p
  <2>1. Tx \in Opened(p)
    BY <1>2 DEF Held
  <2> QED BY <1>1, <2>1 DEF Fits, Apart
<1>3. CASE owner # p
  <2>1. Current(p).how = "dml"
    BY <1>3 DEF ExecutesInside
  <2> QED BY <1>1, <2>1 DEF Kindly
<1> QED BY <1>2, <1>3

LEMMA AgreeInit == Init => Agree
  BY AgreesSelf DEF Init, Agree

LEMMA AgreeStep ==
    ASSUME NEW v, TypeInv(v), Held, Agree, NEW p \in Procs, Moves(p)
    PROVE  Agree'
<1>1. backend' = backend
  BY MovesOrNot
<1>2. CASE backend # "sqlite"
  BY <1>1, <1>2 DEF Agree
<1>3. CASE backend = "sqlite"
  <2>1. Agrees(db, work)
    BY <1>3 DEF Agree
  <2>2. Agrees(db', work')
    <3>1. CASE Executes(p)
      <4>1. CASE ExecutesInside(p)
        <5>1. /\ IndexAfter(Current(p), Sees(p), New(p))
              /\ TriggersAfter(Current(p), Sees(p), New(p))
          BY <1>3, <3>1, StepFacts
        <5>2. Ensures(Current(p)) \/ Drops(Current(p)) \/ Makes(Current(p)) =>
                 Current(p).table # "entries"
          BY <1>3, <3>1, <4>1, InsideEntries
        <5>3. Agrees(Sees(p), New(p))
          BY <5>1, <5>2, AgreesAfter
        <5>4. Sees(p) = work /\ work' = New(p) /\ db' = db
          BY <4>1 DEF ExecutesInside
        <5> QED BY <2>1, <5>3, <5>4, AgreesOn
      <4>2. CASE ExecutesAlone(p)
        BY <4>2, AgreesSelf DEF ExecutesAlone
      <4>3. CASE Reads(p)
        BY <2>1, <4>3 DEF Reads
      <4> QED BY <3>1, <4>1, <4>2, <4>3 DEF Executes
    <3>2. CASE Commits(p) \/ Leaves(p) \/ Begins(p) \/ Stores(p)
      <4>1. (db' = db /\ work' = work) \/ db' = work'
        BY <3>2 DEF Commits, Leaves, Begins, Stores
      <4> QED BY <2>1, <4>1, AgreesSelf
    <3> QED BY <3>1, <3>2 DEF Moves
  <2>3. (Agrees(db, work))' <=> Agrees(db', work')
    BY DEF Agrees, Right, Missing, Has, Finished, Filed, Trig, Shape, RowsIn, Idx
  <2> QED BY <2>2, <2>3 DEF Agree
<1> QED BY <1>2, <1>3

LEMMA Within ==
    ASSUME NEW n \in Nat, NEW k \in 1..n, NEW m \in 1..(k - 1)
    PROVE  m \in 1..n /\ \A i \in 1..(m - 1) : i \in 1..(k - 1)
<1>1. m \in Int /\ k \in Int /\ 1 <= m /\ m <= k - 1 /\ k <= n
  OBVIOUS
<1>2. m \in 1..n
  BY <1>1
<1>3. ASSUME NEW i \in 1..(m - 1) PROVE i \in 1..(k - 1)
  <2>1. i \in Int /\ 1 <= i /\ i <= m - 1
    BY <1>1
  <2> QED BY <1>1, <2>1
<1> QED BY <1>2, <1>3

\* A boot that has dropped an index has spoiled all of it.
LEMMA DropSpoils ==
    ASSUME NEW v, TypeInv(v), backend = "sqlite", NEW p \in Procs,
           NEW s \in Ran(p), s.op = "drop fts", NEW t \in Indexed, s.table = t,
           NEW a \in Idx(t)
    PROVE  \E r \in Ran(p) : a \in Spoils(r)
<1> DEFINE L == Boot(p)
           k == proc[p].next
           f == proc[p].from
<1>1. proc[p].at = "boot" /\ Ran(p) = {L[i] : i \in 1..(k - 1)}
  BY DEF Ran
<1>2. L = SqliteBoot[f] /\ f \in {Unread} \cup 0..19 /\ k \in 1..Len(L) /\ Len(L) \in Nat
  BY <1>1, BootList
<1>3. Runs(L, {}, {})
  BY <1>2, BootRuns
<1>4. s \in Ran(p)
  OBVIOUS
<1> HIDE DEF L, k, f
<1>5. PICK j \in 1..(k - 1) : L[j] = s
  BY <1>1, <1>4
<1>8. \A m \in 1..(k - 1) : m \in 1..Len(L) /\ \A i \in 1..(m - 1) : i \in 1..(k - 1)
  <2>1. k \in 1..Len(L) /\ Len(L) \in Nat
    BY <1>2
  <2> QED BY <2>1, Within
<1>6. CASE a = Shape(t) \/ a = RowsIn(t)
  BY <1>4, <1>6, DropFtsEffect
<1>7. ASSUME NEW x \in Triggers, a = Trig(t, x) PROVE \E r \in Ran(p) : a \in Spoils(r)
  <2>1. j \in 1..Len(L)
    BY <1>5, <1>8
  <2>2. Dropping(s, Opens(L, j - 1, {}))
    BY <1>3, <1>5, <2>1 DEF Runs, Fits
  <2>3. a \in Opens(L, j - 1, {})
    BY <1>7, <2>2 DEF Dropping
  <2>4. PICK i \in 1..(j - 1) : a \in Spoils(L[i])
    BY <2>3 DEF Opens, Spoilt
  <2>5. i \in 1..(k - 1)
    BY <1>5, <1>8, <2>4
  <2> QED BY <1>1, <2>4, <2>5
<1> QED BY <1>6, <1>7 DEF Idx

\* When a boot stamps a database it has dropped every index it was to drop.
LEMMA StampSpoils ==
    ASSUME NEW v, TypeInv(v), backend = "sqlite", NEW p \in Procs, proc[p].at = "boot",
           Versions(Current(p)), NEW t \in Indexed, Touched(t, v)
    PROVE  /\ Upgrading(p) /\ \E s \in Ran(p) : s.op = "drop fts" /\ s.table = t
           /\ \A a \in Idx(t) : \E r \in Ran(p) : a \in Spoils(r)
<1>1. /\ proc[p].from \in 0..18 /\ proc[p].from = v
      /\ Elems(Migrated(proc[p].from)) \subseteq Ran(p)
  BY StampRan
<1>2. v \in 1..18
  BY <1>1 DEF Touched
<1>3. PICK s \in Elems(Migrated(v)) : s.op = "drop fts" /\ s.table = t
  BY <1>2, DropsBefore
<1>4. s \in Ran(p)
  BY <1>1, <1>3
<1>5. Upgrading(p)
  BY <1>1, <1>2, CurrentKindly
<1>6. ASSUME NEW a \in Idx(t) PROVE \E r \in Ran(p) : a \in Spoils(r)
  BY <1>3, <1>4, DropSpoils
<1> QED BY <1>3, <1>4, <1>5, <1>6

\* What is dropped is missing.
LEMMA SpoiledMissing ==
    ASSUME NEW s, NEW d, NEW e, IndexAfter(s, d, e), TriggersAfter(s, d, e),
           NEW t \in Indexed, NEW a \in Idx(t), a # RowsIn(t), a \in Spoils(s), ~Makes(s),
           OnTriggers(s) => s.name \in Triggers
    PROVE  Missing(e, a)
<1>1. Drops(s) /\ s.table = t
  BY SpoilsIdx
<1>2. CASE s.op = "drop trigger"
  <2>1. Spoils(s) = {Trig(s.table, s.name), RowsIn(s.table)}
    BY <1>2, DropTriggerEffect
  <2>2. a = Trig(t, s.name) /\ s.name \in Triggers
    BY <1>1, <1>2, <2>1 DEF OnTriggers
  <2>3. e.triggers[t][s.name] = "none"
    BY <1>1, <1>2 DEF TriggersAfter
  <2> QED BY <2>2, <2>3, RightIs
<1>3. CASE s.op = "drop fts"
  <2>1. Spoils(s) = {Shape(s.table), RowsIn(s.table)}
    BY <1>3, DropFtsEffect
  <2>2. a = Shape(t)
    BY <1>1, <2>1
  <2>3. ~Has(e, t)
    BY <1>1, <1>3 DEF IndexAfter
  <2> QED BY <2>2, <2>3, RightIs
<1> QED BY <1>1, <1>2, <1>3 DEF Drops

LEMMA EntriesInit ==
    ASSUME NEW v, Init, db = Found(backend, v)
    PROVE  EntriesOk(v)
<1>1. work = db /\ \A p \in Procs : proc[p].at # "boot"
  BY DEF Init, Down
<1>2. \A a : Unspoiled(a)
  BY <1>1, RanNothing DEF Unspoiled
<1>3. work.version = v
  BY <1>1, FoundFields
<1>4. v \in 1..18 => v # 19
  OBVIOUS
<1> QED BY <1>2, <1>3, <1>4 DEF EntriesOk

\* What the processes have run after a step.
LEMMA RanMoves ==
    ASSUME NEW v, TypeInv(v), NEW p \in Procs, Moves(p)
    PROVE  /\ \A q \in Procs \ {p} : Ran(q)' = Ran(q)
           /\ Executes(p) => Ran(p)' = Ran(p) \cup {Current(p)}
           /\ Commits(p) => Ran(p)' \subseteq Ran(p) \cup {Current(p)}
           /\ Leaves(p) \/ Begins(p) => Ran(p)' = {}
           /\ Stores(p) => Ran(p)' = Ran(p)
<1>1. \A q \in Procs \ {p} : Ran(q)' = Ran(q)
  BY MovesOrNot, RanSame
<1>2. ASSUME Executes(p) PROVE Ran(p)' = Ran(p) \cup {Current(p)}
  <2>1. Advances(p)
    BY <1>2 DEF Executes, Advances
  <2> QED BY <2>1, AdvanceMoves
<1>3. ASSUME Commits(p) PROVE Ran(p)' \subseteq Ran(p) \cup {Current(p)}
  <2>1. CASE Ends(p)
    <3>1. proc'[p].at # "boot"
      BY <1>3, <2>1 DEF Commits, Served, Down
    <3> QED BY <3>1, RanNothing
  <2>2. CASE ~Ends(p)
    <3>1. Advances(p)
      BY <1>3, <2>2 DEF Commits, Advances
    <3> QED BY <3>1, AdvanceMoves
  <2> QED BY <2>1, <2>2
<1>4. ASSUME Leaves(p) \/ Begins(p) PROVE Ran(p)' = {}
  <2>1. proc'[p].at # "boot" \/ (proc'[p].at = "boot" /\ proc'[p].next = 1)
    BY <1>4 DEF Leaves, Begins
  <2> QED BY <2>1, RanNothing
<1>5. ASSUME Stores(p) PROVE Ran(p)' = Ran(p)
  <2>1. backend' = backend /\ proc'[p] = proc[p]
    BY <1>5 DEF Stores
  <2> QED BY <2>1, RanSame
<1> QED BY <1>1, <1>2, <1>3, <1>4, <1>5

LEMMA CommitSpoils ==
    ASSUME NEW v, TypeInv(v), backend = "sqlite", NEW p \in Procs, Commits(p)
    PROVE  /\ Spoils(Current(p)) = {} /\ Repairs(Current(p)) = {Tx}
           /\ proc[p].at = "boot" /\ Current(p).op = "commit"
<1>1. proc[p].at = "boot" /\ Current(p).op = "commit"
  BY DEF Commits
<1>2. Current(p).how # "dml"
  BY <1>1, CurrentKindly DEF Kindly
<1> QED BY <1>1, <1>2, CommitEffect

LEMMA SaneStored ==
    ASSUME NEW v, TypeInv(v), NEW p \in Procs, Stores(p)
    PROVE  Agrees(db, db') /\ db'.version = db.version
<1>1. PICK t \in Indexed, r \in Rows :
         /\ db' = StoredIn(db, t, r, NewRows(db, t, r))
         /\ NewRows(db, t, r) = db.index[t].rows
            \/ (db.index[t].there /\ NewRows(db, t, r) = db.index[t].rows \cup {r})
  BY DEF Stores
<1>2. Sound(backend, db)
  BY DEF TypeInv
<1> DEFINE e == db'
<1>3. /\ e.version = db.version /\ e.triggers = db.triggers
      /\ e.index[t].there = db.index[t].there /\ e.index[t].wide = db.index[t].wide
      /\ e.index[t].stemmed = db.index[t].stemmed
      /\ \A u \in Indexed \ {t} : e.index[u] = db.index[u]
  BY <1>1, <1>2, StoredFields
<1> HIDE DEF e
<1>4. Alike(db.index["entries"], e.index["entries"])
  <2>1. CASE t = "entries"
    BY <1>3, <2>1 DEF Alike
  <2>2. CASE t # "entries"
    <3>1. e.index["entries"] = db.index["entries"]
      BY <1>3, <2>2, EntriesIdx
    <3> QED BY <3>1 DEF Alike
  <2> QED BY <2>1, <2>2
<1>5. \A x \in Triggers : db.triggers["entries"][x] = e.triggers["entries"][x]
  BY <1>3
<1>6. Agrees(db, e)
  BY <1>4, <1>5, AgreeFields
<1> QED BY <1>3, <1>6 DEF e

LEMMA EntriesExecute ==
    ASSUME NEW v, TypeInv(v), Done, Agree, Agree', EntriesOk(v), backend = "sqlite",
           v \in 1..18, NEW p \in Procs, Executes(p),
           NEW a \in Idx("entries"), a # RowsIn("entries")
    PROVE  \/ Sane(work', a)
           \/ work'.version # 19 /\ \A q \in Procs : \A s \in Ran(q)' : a \notin Spoils(s)
<1> DEFINE s == Current(p)
           d == Sees(p)
           e == New(p)
<1>1. /\ Kindly(s, proc[p].from) /\ IndexAfter(s, d, e) /\ TriggersAfter(s, d, e)
      /\ Keeps(s, d, e) /\ proc[p].at = "boot"
  BY StepFacts
<1>2. ~Makes(s) \/ s.table # "entries"
  BY <1>1 DEF Kindly
<1>3. Agrees(db, work)
  BY DEF Agree
<1>4. Agrees(db', work')
  <2>1. backend' = "sqlite"
    BY DEF Executes
  <2>2. (Agrees(db, work))' <=> Agrees(db', work')
    BY DEF Agrees, Right, Missing, Has, Finished, Filed, Trig, Shape, RowsIn, Idx
  <2> QED BY <2>1, <2>2 DEF Agree
<1>5. Sees(p)' = e /\ (Sees(p) = db \/ Sees(p) = work)
  BY SeesNew DEF Sees
<1>6. Sees(p)' = db' \/ Sees(p)' = work'
  BY DEF Sees
<1>7. OnTriggers(s) => s.name \in Triggers
  BY <1>1 DEF Kindly
<1>8. Sane(work, a) \/ (work.version # 19 /\ Unspoiled(a))
  BY DEF EntriesOk
<1>9. Versions(s) => \E r \in Ran(p) : a \in Spoils(r)
  <2>1. Touched("entries", v) /\ "entries" \in Indexed
    BY EntriesIdx DEF Touched
  <2> QED BY <1>1, <2>1, StampSpoils
<1>10. (work' = work \/ (work' = e /\ d = work))
  BY DEF Executes, ExecutesInside, ExecutesAlone, Reads
<1>11. (\A q \in Procs \ {p} : Ran(q)' = Ran(q)) /\ Ran(p)' = Ran(p) \cup {s}
  BY RanMoves DEF Moves
<1>12. a \in Spoils(s) => s.table = "entries"
  BY SpoilsIdx
<1> HIDE DEF s, d, e
<1>13. Sane(e, a) => Sane(work', a)
  BY <1>4, <1>5, <1>6 DEF Agrees, Sane
<1>14. Sane(work, a) => Sane(d, a)
  BY <1>3, <1>5 DEF Agrees, Sane, d
<1>15. CASE a \in Spoils(s)
  <2>1. Missing(e, a)
    BY <1>1, <1>2, <1>7, <1>12, <1>15, SpoiledMissing, EntriesIdx
  <2> QED BY <1>13, <2>1 DEF Sane
<1>16. CASE Sane(work, a)
  <2>1. Sane(e, a)
    BY <1>1, <1>2, <1>14, <1>16, SaneKept, EntriesIdx
  <2> QED BY <1>13, <2>1
<1>17. CASE a \notin Spoils(s) /\ work.version # 19 /\ Unspoiled(a)
  <2>1. ~Versions(s)
    BY <1>9, <1>17 DEF Unspoiled
  <2>2. e.version = d.version
    BY <1>1, <2>1 DEF Keeps
  <2>3. work'.version # 19
    BY <1>10, <1>17, <2>2
  <2>4. \A q \in Procs : \A r \in Ran(q)' : a \notin Spoils(r)
    BY <1>11, <1>17 DEF Unspoiled
  <2> QED BY <2>3, <2>4
<1> QED BY <1>8, <1>15, <1>16, <1>17

LEMMA EntriesStep ==
    ASSUME NEW v, TypeInv(v), Done, Agree, Agree', EntriesOk(v), Versioned,
           NEW p \in Procs, Moves(p)
    PROVE  EntriesOk(v)'
<1>1. backend' = backend
  BY MovesOrNot
<1>2. CASE ~(backend = "sqlite" /\ v \in 1..18)
  BY <1>1, <1>2 DEF EntriesOk
<1>3. CASE backend = "sqlite" /\ v \in 1..18
  <2>1. ASSUME NEW a \in Idx("entries"), a # RowsIn("entries")
        PROVE  \/ Sane(work', a)
               \/ work'.version # 19 /\ \A q \in Procs : \A s \in Ran(q)' : a \notin Spoils(s)
    <3>1. CASE Executes(p)
      BY <1>3, <2>1, <3>1, EntriesExecute
    <3>2. Sane(work, a) \/ (work.version # 19 /\ Unspoiled(a))
      BY <1>3, <2>1 DEF EntriesOk
    <3>3. Sane(work, a) <=> Sane(db, a)
      BY <1>3, <2>1 DEF Agree, Agrees, Sane
    <3>4. work.version # 19 => db.version # 19
      BY DEF Done, Grows
    <3>5. CASE Commits(p) \/ Leaves(p) \/ Begins(p)
      <4>1. work' = work \/ work' = db
        BY <3>5 DEF Commits, Leaves, Begins
      <4>2. \A q \in Procs \ {p} : Ran(q)' = Ran(q)
        BY RanMoves
      <4>3. ASSUME Unspoiled(a), NEW s \in Ran(p)' PROVE a \notin Spoils(s)
        <5>1. CASE Commits(p)
          <6>1. Ran(p)' \subseteq Ran(p) \cup {Current(p)} /\ Spoils(Current(p)) = {}
            BY <1>3, <5>1, RanMoves, CommitSpoils
          <6> QED BY <4>3, <6>1 DEF Unspoiled
        <5>2. CASE Leaves(p) \/ Begins(p)
          BY <4>3, <5>2, RanMoves
        <5> QED BY <3>5, <5>1, <5>2
      <4>4. Unspoiled(a) => \A q \in Procs : \A s \in Ran(q)' : a \notin Spoils(s)
        BY <4>2, <4>3 DEF Unspoiled
      <4> QED BY <3>2, <3>3, <3>4, <4>1, <4>4
    <3>6. CASE Stores(p)
      <4>1. work = db /\ work' = db' /\ Agrees(db, db')
        BY <3>6, SaneStored DEF Stores
      <4>2. db.version = 19
        BY <1>3, <3>6 DEF Stores, Versioned, VersionedAt
      <4>3. Sane(db, a)
        BY <3>2, <4>1, <4>2
      <4> QED BY <2>1, <4>1, <4>3 DEF Agrees, Sane
    <3> QED BY <3>1, <3>5, <3>6 DEF Moves
  <2>2. ASSUME NEW a
        PROVE (Sane(work, a) \/ (work.version # 19 /\ Unspoiled(a)))' <=>
                 \/ Sane(work', a)
                 \/ work'.version # 19 /\ \A q \in Procs : \A s \in Ran(q)' : a \notin Spoils(s)
    BY DEF Sane, Right, Missing, Has, Finished, Filed, Trig, Shape, RowsIn, Unspoiled,
           Spoils, Tx
  <2>3. \A a : (a \in Idx("entries"))' <=> a \in Idx("entries")
    BY DEF Idx, Trig, Shape, RowsIn
  <2> QED BY <1>1, <2>1, <2>2, <2>3 DEF EntriesOk, RowsIn
<1> QED BY <1>2, <1>3

----------------------------------------------------------------------------
(* Indexes are right, or open, or an upgrade will make them anew.          *)

LEMMA OpenIs ==
    /\ \A a : a \in OpenNow <=> \E p \in Procs : a \in Opened(p)
    /\ \A a : a \in OpenNow' <=> \E p \in Procs : a \in Opened(p)'
    /\ \A t \in Indexed : t \in Begun <=>
          \E p \in Procs : \E s \in Ran(p) : s.op = "drop fts" /\ s.table = t
    /\ \A t \in Indexed : t \in Begun' <=>
          \E p \in Procs : \E s \in Ran(p)' : s.op = "drop fts" /\ s.table = t
<1>1. \A a : a \in OpenNow <=> \E p \in Procs : a \in Opened(p)
  BY DEF OpenNow
<1>2. \A a : a \in OpenNow' <=> \E p \in Procs : a \in Opened(p)'
  BY DEF OpenNow
<1>3. \A t \in Indexed : t \in Begun <=>
         \E p \in Procs : \E s \in Ran(p) : s.op = "drop fts" /\ s.table = t
  BY DEF Begun
<1>4. \A t \in Indexed : t \in Begun' <=>
         \E p \in Procs : \E s \in Ran(p)' : s.op = "drop fts" /\ s.table = t
  BY DEF Begun
<1> QED BY <1>1, <1>2, <1>3, <1>4

LEMMA OpenExecutes ==
    ASSUME NEW v, TypeInv(v), backend = "sqlite", NEW p \in Procs, Executes(p)
    PROVE  /\ \A t \in Indexed : \A a \in Idx(t) : a \in Spoils(Current(p)) => a \in OpenNow'
           /\ \A a : a \in OpenNow =>
                 a \in OpenNow' \/ (a \in Opened(p) /\ a \in Repairs(Current(p)))
           /\ \A t \in Indexed : t \in Begun' =>
                 t \in Begun \/ (Current(p).op = "drop fts" /\ Current(p).table = t)
<1> DEFINE s == Current(p)
<1>1. /\ Opened(p)' = After(s, Opened(p)) /\ \A q \in Procs \ {p} : Opened(q)' = Opened(q)
  BY OpenedMoves DEF Moves
<1>2. Ran(p)' = Ran(p) \cup {s} /\ \A q \in Procs \ {p} : Ran(q)' = Ran(q)
  BY RanMoves DEF Moves
<1> HIDE DEF s
<1>3. ASSUME NEW t \in Indexed, NEW a \in Idx(t), a \in Spoils(s) PROVE a \in OpenNow'
  <2>1. a \in Aspects /\ a \notin Repairs(s)
    BY <1>3, AspectsOf, SpoilsOrRepairs
  <2>2. a \in Opened(p)'
    BY <1>1, <1>3, <2>1 DEF After
  <2> QED BY <2>2, OpenIs
<1>4. ASSUME NEW a, a \in OpenNow
      PROVE  a \in OpenNow' \/ (a \in Opened(p) /\ a \in Repairs(s))
  <2>1. PICK q \in Procs : a \in Opened(q)
    BY <1>4, OpenIs
  <2>2. CASE q # p
    BY <1>1, <2>1, <2>2, OpenIs
  <2>3. CASE q = p /\ a \notin Repairs(s)
    <3>1. a \in Opened(p)'
      BY <1>1, <2>1, <2>3 DEF After
    <3> QED BY <3>1, OpenIs
  <2> QED BY <2>1, <2>2, <2>3
<1>5. ASSUME NEW t \in Indexed, t \in Begun'
      PROVE  t \in Begun \/ (s.op = "drop fts" /\ s.table = t)
  <2>1. PICK q \in Procs : \E r \in Ran(q)' : r.op = "drop fts" /\ r.table = t
    BY <1>5, OpenIs
  <2>2. PICK r \in Ran(q)' : r.op = "drop fts" /\ r.table = t
    BY <2>1
  <2>3. r \in Ran(q) \/ r = s
    BY <1>2, <2>2
  <2> QED BY <2>2, <2>3, OpenIs
<1> QED BY <1>3, <1>4, <1>5 DEF s

\* A list drops an index when all the rest of it is open.
LEMMA OpenDropped ==
    ASSUME NEW v, TypeInv(v), backend = "sqlite", NEW p \in Procs, Executes(p),
           Current(p).op = "drop fts", NEW t \in Indexed, Current(p).table = t,
           NEW a \in Idx(t)
    PROVE  a \in OpenNow'
<1>1. Spoils(Current(p)) = {Shape(t), RowsIn(t)} /\ Repairs(Current(p)) = {}
  BY DropFtsEffect
<1>2. CASE a = Shape(t) \/ a = RowsIn(t)
  BY <1>1, <1>2, OpenExecutes
<1>3. ASSUME NEW x \in Triggers, a = Trig(t, x) PROVE a \in OpenNow'
  <2>1. Fits(Current(p), Opened(p))
    BY StepFacts
  <2>2. a \in Opened(p)
    BY <1>3, <2>1 DEF Fits, Dropping
  <2>3. a \in OpenNow
    BY <2>2, OpenIs
  <2> QED BY <1>1, <2>3, OpenExecutes
<1> QED BY <1>2, <1>3 DEF Idx

\* A trigger or the columns of an index open, its rows are open outside of a
\* transaction.
LEMMA OpenRows ==
    ASSUME NEW v, TypeInv(v), Held, backend = "sqlite", NEW t \in Indexed,
           NEW a \in OpenNow, a = Shape(t) \/ \E x \in Triggers : a = Trig(t, x)
    PROVE  RowsIn(t) \in OpenNow \/ (owner \in Procs /\ Tx \in Opened(owner))
<1>1. PICK q \in Procs : a \in Opened(q)
  BY OpenIs
<1>2. proc[q].at = "boot"
  BY <1>1 DEF Opened
<1>3. Careful(Opened(q))
  BY <1>2, OpenedNow
<1>4. RowsIn(t) \in Opened(q) \/ Tx \in Opened(q)
  BY <1>1, <1>3 DEF Careful
<1>5. Tx \in Opened(q) => owner = q
  BY DEF Held
<1> QED BY <1>4, <1>5, OpenIs

\* What fills the entries finds their update trigger, or their rows are open.
LEMMA FillKept ==
    ASSUME NEW v, TypeInv(v), Done, Versioned, Held, backend = "sqlite",
           NEW p \in Procs, Executes(p), Current(p).op = "fill",
           Kept(Sees(p), "entries", v, OpenNow, Begun)
    PROVE  Right(Sees(p), Trig("entries", "au")) \/ RowsIn("entries") \in OpenNow'
<1> DEFINE s == Current(p)
           d == Sees(p)
           a == Trig("entries", "au")
<1>1. /\ Proper("sqlite", s) /\ Kindly(s, proc[p].from) /\ Fits(s, Opened(p))
      /\ proc[p].at = "boot"
  BY StepFacts
<1>2. db.version = 19 /\ s = Fill
  <2> DEFINE f == proc[p].from
             k == proc[p].next
  <2>1. /\ f \in {Unread} \cup 0..19 /\ k \in 1..Len(Boot(p)) /\ Boot(p) = SqliteBoot[f]
        /\ SqliteBoot[f][k] = s
    BY <1>1, BootList DEF Current
  <2>2. s.op = "fill"
    OBVIOUS
  <2> HIDE DEF f, k, s
  <2>3. s \notin Elems(CoreScript) \cup {End}
    <3>1. s \in Elems(CoreScript) => Core(s)
      BY CoreElems
    <3> QED BY <2>2, <3>1, EndFields DEF Core, Ensures
  <2>4. f \in 1..18 => s \notin Elems(Migrated(f))
    <3>1. f \in 1..18 /\ s \in Elems(Migrated(f)) => Legal(s, f)
      BY MigratedLegal
    <3>2. ~Legal(s, f)
      BY <2>2 DEF Legal, Columns, Ensures, Drops, Makes
    <3> QED BY <3>1, <3>2
  <2>5. \A g : s # StampOf(g)
    BY <2>2, StampFields
  <2>6. f \in 0..19 /\ k > Past(f) /\ s = Fill
    BY <2>1, <2>3, <2>4, <2>5, BootAt
  <2>7. f # Unread
    BY <2>6, UnreadIs
  <2>8. db.version = 19
    BY <1>1, <2>6, <2>7 DEF Versioned, VersionedAt, f, k
  <2> QED BY <2>6, <2>8 DEF s
<1>3. d.version = 19
  BY <1>2 DEF Sees, Done, Grows
<1>4. a \in Idx("entries") /\ "entries" \in Indexed
  BY DEF Idx, Triggers, Indexed
<1>5. Right(d, a) \/ a \in OpenNow
  <2> HIDE DEF a
  <2> QED BY <1>3, <1>4 DEF Kept
<1>6. CASE a \in OpenNow
  <2>1. \E x \in Triggers : a = Trig("entries", x)
    BY DEF Triggers
  <2>2. RowsIn("entries") \in OpenNow \/ (owner \in Procs /\ Tx \in Opened(owner))
    BY <1>4, <1>6, <2>1, OpenRows
  <2>3. RowsIn("entries") \notin Repairs(s)
    BY CalmEffect DEF Stamps
  <2>4. RowsIn("entries") \in OpenNow => RowsIn("entries") \in OpenNow'
    BY <2>3, OpenExecutes
  <2>5. ~(owner \in Procs /\ Tx \in Opened(owner))
    <3>1. ~ Tx \in Opened(p)
      BY <1>1 DEF Fits, Apart
    <3>2. owner # p
      BY <3>1 DEF Held
    <3>3. s.how = "dml"
      BY <1>2, FillFields
    <3>4. owner = NoProc
      BY <3>2, <3>3 DEF Executes, ExecutesInside, ExecutesAlone, Reads
    <3> QED BY <3>4, ProcAssumption
  <2> QED BY <2>2, <2>4, <2>5
<1> QED BY <1>5, <1>6

\* What CREATE ... IF NOT EXISTS repairs, a boot has dropped before.
LEMMA OpenSane ==
    ASSUME NEW v, TypeInv(v), Agree, EntriesOk(v), backend = "sqlite",
           NEW p \in Procs, NEW a \in Idx("entries"), a # RowsIn("entries"), a \in Opened(p)
    PROVE  Sane(work, a) /\ Sane(db, a)
<1>1. Upgrading(p) /\ Touched("entries", v)
  BY OpenedTouched, EntriesIdx
<1>2. v \in 1..18
  BY <1>1 DEF Touched, TypeInv
<1>3. ~Unspoiled(a)
  BY OpenedSpoils DEF Unspoiled
<1>4. Sane(work, a)
  BY <1>2, <1>3 DEF EntriesOk
<1> QED BY <1>4 DEF Agree, Agrees, Sane

LEMMA EnsureRepairs ==
    ASSUME NEW s, Ensures(s), s.how # "dml", NEW a \in Repairs(s)
    PROVE  s.table = "entries" /\ a # RowsIn("entries")
<1>1. Repairs(s) = IF s.table # "entries" THEN {}
                   ELSE IF s.op = "ensure fts" THEN {Shape(s.table)}
                   ELSE {Trig(s.table, s.name)}
  BY EnsureEffect DEF Ensures
<1> QED BY <1>1, ShapeRows, TrigRows

\* What a statement sees, after it.
LEMMA KeptSeen ==
    ASSUME NEW v, TypeInv(v), Done, Versioned, Held, Agree, EntriesOk(v),
           backend = "sqlite", NEW p \in Procs, Executes(p),
           \A u \in Indexed : Kept(Sees(p), u, v, OpenNow, Begun), NEW t \in Indexed
    PROVE  Kept(New(p), t, v, OpenNow', Begun')
<1> DEFINE s == Current(p)
           d == Sees(p)
           e == New(p)
           O == OpenNow
           P == OpenNow'
           B == Begun
           C == Begun'
<1>1. /\ Proper("sqlite", s) /\ Kindly(s, proc[p].from) /\ Sound("sqlite", d)
      /\ IndexAfter(s, d, e) /\ TriggersAfter(s, d, e) /\ Keeps(s, d, e)
      /\ proc[p].at = "boot"
  BY StepFacts
<1>2. /\ \A u \in Indexed : \A a \in Idx(u) : a \in Spoils(s) => a \in P
      /\ \A a : a \in O => a \in P \/ (a \in Opened(p) /\ a \in Repairs(s))
      /\ \A u \in Indexed : u \in C => u \in B \/ (s.op = "drop fts" /\ s.table = u)
  BY OpenExecutes
<1>3. s.op = "drop fts" /\ s.table = t => \A a \in Idx(t) : a \in P
  BY OpenDropped
<1>4. s.op = "fill" => Right(d, Trig("entries", "au")) \/ RowsIn("entries") \in P
  BY FillKept, EntriesIdx
<1>5. d = db \/ d = work
  BY DEF Sees
<1>6. Versions(s) /\ Touched(t, v) => t \in B
  <2>1. ASSUME Versions(s), Touched(t, v) PROVE \E r \in Ran(p) : r.op = "drop fts" /\ r.table = t
    BY <1>1, <2>1, StampSpoils
  <2> QED BY <2>1, OpenIs
<1>7. ASSUME NEW a \in Idx(t), a \in Opened(p), a \in Repairs(s), Ensures(s)
      PROVE  Sane(d, a)
  <2>1. s.how # "dml"
    BY <1>1, <1>7 DEF Kindly
  <2>2. s.table = "entries" /\ a # RowsIn("entries")
    BY <1>7, <2>1, EnsureRepairs
  <2>3. t = "entries"
    <3>1. Repairs(s) \subseteq {Shape(s.table), Trig(s.table, s.name)}
      BY <1>7, <2>1, <2>2, EnsureEffect DEF Ensures
    <3> QED BY <1>7, <2>2, <3>1, IdxTable
  <2> QED BY <1>5, <1>7, <2>2, <2>3, OpenSane
<1>8. OnTriggers(s) => s.name \in Triggers
  BY <1>1 DEF Kindly
<1>9. Kept(d, t, v, O, B)
  OBVIOUS
<1> HIDE DEF s, d, e, O, P, B, C
<1>10. ASSUME NEW a \in Idx(t)
       PROVE  Right(e, a) \/ a \in P \/ (Touched(t, v) /\ e.version # 19 /\ t \notin C)
  <2>1. CASE a \in Spoils(s)
    BY <1>2, <2>1
  <2>2. CASE a \notin Spoils(s) /\ Right(d, a)
    <3>1. CASE s.op = "fill" /\ a = RowsIn("entries") /\ ~Right(d, Trig("entries", "au"))
      BY <1>4, <3>1
    <3>2. CASE ~(s.op = "fill" /\ a = RowsIn("entries") /\ ~Right(d, Trig("entries", "au")))
      BY <1>1, <2>2, <3>2, RightKept
    <3> QED BY <3>1, <3>2
  <2>3. CASE a \in O
    <3>1. CASE a \in P
      BY <3>1
    <3>2. CASE a \in Opened(p) /\ a \in Repairs(s)
      <4>1. Ensures(s) => Sane(d, a)
        BY <1>7, <3>2
      <4> QED BY <1>1, <1>8, <3>2, <4>1, RightMade
    <3> QED BY <1>2, <2>3, <3>1, <3>2
  <2>4. CASE Touched(t, v) /\ d.version # 19 /\ t \notin B
    <3>1. e.version # 19
      BY <1>1, <1>6, <2>4 DEF Keeps
    <3>2. CASE t \in C
      BY <1>2, <1>3, <2>4, <3>2
    <3> QED BY <2>4, <3>1, <3>2
  <2> QED BY <1>9, <2>1, <2>2, <2>3, <2>4 DEF Kept
<1> QED BY <1>10 DEF Kept, e, P, C

\* A statement that changes nothing repairs nothing but what is right.
LEMMA RepairsRight ==
    ASSUME NEW v, TypeInv(v), Agree, EntriesOk(v), backend = "sqlite",
           NEW p \in Procs, Executes(p), Reads(p),
           NEW t \in Indexed, NEW a \in Idx(t), a \in Opened(p), a \in Repairs(Current(p)),
           NEW c, c = db \/ c = work
    PROVE  Right(c, a)
<1> DEFINE s == Current(p)
           d == Sees(p)
<1>1. /\ Kindly(s, proc[p].from) /\ IndexAfter(s, d, d) /\ TriggersAfter(s, d, d)
      /\ ~Raises(s, d, proc[p].missing)
  BY StepFacts DEF Reads, Executes
<1>2. s.op # "commit" /\ s.op # "rebuild" /\ s.how # "dml" /\ (d = db \/ d = work)
  BY DEF Executes, Reads, Sees
<1>3. a \in Repairs(s)
  OBVIOUS
<1> HIDE DEF s, d
<1>4. CASE Ensures(s)
  <2>1. s.table = "entries" /\ a # RowsIn("entries")
    BY <1>2, <1>3, <1>4, EnsureRepairs
  <2>2. t = "entries"
    <3>1. Repairs(s) \subseteq {Shape(s.table), Trig(s.table, s.name)}
      BY <1>2, <1>4, <2>1, EnsureEffect DEF Ensures
    <3> QED BY <1>3, <2>1, <3>1, IdxTable
  <2>3. Sane(d, a)
    BY <1>2, <2>1, <2>2, OpenSane
  <2>4. OnTriggers(s) => s.name \in Triggers
    BY <1>1 DEF Kindly
  <2>5. Right(d, a)
    BY <1>1, <1>3, <2>3, <2>4, RightMade
  <2> QED BY <1>2, <2>1, <2>2, <2>5 DEF Agree, Agrees
<1>5. CASE s.op = "create trigger"
  <2>1. Repairs(s) = {Trig(s.table, s.name)}
    BY <1>2, <1>5, CreateTriggerEffect
  <2>2. OnTriggers(s) /\ s.name \in Triggers
    BY <1>1, <1>5 DEF Kindly, OnTriggers
  <2>3. d.triggers[s.table][s.name] = "wide"
    BY <1>1, <1>5 DEF TriggersAfter
  <2>4. d.triggers[s.table][s.name] = "none"
    BY <1>1, <1>5 DEF Raises
  <2> QED BY <2>3, <2>4
<1>6. CASE s.op = "create fts"
  <2>1. Finished(d.index[s.table])
    BY <1>1, <1>6 DEF IndexAfter
  <2>2. ~d.index[s.table].there
    BY <1>1, <1>6 DEF Raises
  <2> QED BY <2>1, <2>2 DEF Finished
<1>7. Ensures(s) \/ s.op = "create trigger" \/ s.op = "create fts"
  BY <1>2, <1>3 DEF Repairs, Ensures
<1> QED BY <1>4, <1>5, <1>6, <1>7

\* What a statement does not change, after it.
LEMMA KeptSide ==
    ASSUME NEW v, TypeInv(v), Agree, EntriesOk(v), backend = "sqlite",
           NEW p \in Procs, Executes(p), NEW t \in Indexed,
           Reads(p) \/ ~Upgrading(p) \/ ~Touched(t, v),
           NEW c, c = db \/ c = work, Kept(c, t, v, OpenNow, Begun)
    PROVE  Kept(c, t, v, OpenNow', Begun')
<1> DEFINE s == Current(p)
           O == OpenNow
           P == OpenNow'
           B == Begun
           C == Begun'
<1>1. Kindly(s, proc[p].from) /\ proc[p].at = "boot"
  BY StepFacts
<1>2. /\ \A a : a \in O => a \in P \/ (a \in Opened(p) /\ a \in Repairs(s))
      /\ \A u \in Indexed : u \in C => u \in B \/ (s.op = "drop fts" /\ s.table = u)
  BY OpenExecutes
<1>3. s.op = "drop fts" /\ s.table = t => \A a \in Idx(t) : a \in P
  BY OpenDropped
<1>4. ASSUME NEW a \in Idx(t), a \in Opened(p), a \in Repairs(s) PROVE Right(c, a)
  <2>1. CASE Reads(p)
    BY <1>4, <2>1, RepairsRight
  <2>2. Upgrading(p) /\ Touched(t, v)
    BY <1>4, OpenedTouched
  <2> QED BY <2>1, <2>2
<1> HIDE DEF s, O, P, B, C
<1>5. ASSUME NEW a \in Idx(t)
      PROVE  Right(c, a) \/ a \in P \/ (Touched(t, v) /\ c.version # 19 /\ t \notin C)
  BY <1>2, <1>3, <1>4 DEF Kept, O, B
<1> QED BY <1>5 DEF Kept, P, C

LEMMA UntouchedFound ==
    ASSUME NEW v \in 1..19, NEW t \in Indexed, ~Touched(t, v)
    PROVE  There(t, v) /\ Wide(t, v) /\ v >= 6 /\ (t = "entries" => v = 19)
<1>1. t = "knowledge" \/ t = "rules" \/ t = "entries"
  BY DEF Indexed
<1>2. CASE t = "knowledge"
  <2>1. v > 5
    BY <1>2 DEF Touched
  <2>2. TableVersion(t) = 1 /\ Wide(t, v)
    BY <1>2 DEF TableVersion, Wide
  <2> QED BY <1>2, <2>1, <2>2 DEF There
<1>3. CASE t = "rules"
  <2>1. v > 7
    BY <1>3 DEF Touched
  <2>2. TableVersion(t) = 2 /\ (v >= 8 => Wide(t, v))
    BY <1>3 DEF TableVersion, Wide
  <2> QED BY <1>3, <2>1, <2>2 DEF There
<1>4. CASE t = "entries"
  <2>1. v > 18
    BY <1>4 DEF Touched
  <2>2. TableVersion(t) = 18 /\ (v >= 19 => Wide(t, v))
    BY <1>4 DEF TableVersion, Wide
  <2> QED BY <1>4, <2>1, <2>2 DEF There
<1> QED BY <1>1, <1>2, <1>3, <1>4

LEMMA KeptFound ==
    ASSUME NEW b, NEW v \in 1..19, NEW t \in Indexed, NEW O
    PROVE  Kept(Found(b, v), t, v, O, {})
<1> DEFINE d == Found(b, v)
<1>1. /\ d.version = v /\ d.index[t] = FoundIndex(t, v) /\ d.rows[t] = Stored(t, v)
      /\ \A x \in Triggers : d.triggers[t][x] = FoundTrigger(t, v)
      /\ d.unfilled = IF v = 18 THEN Stored("entries", v) ELSE {}
  BY FoundFields
<1>2. v \in 0..19 /\ v > 0
  OBVIOUS
<1> HIDE DEF d
<1>3. CASE Touched(t, v)
  <2>1. v # 19
    BY <1>3 DEF Touched
  <2> QED BY <1>1, <1>3, <2>1 DEF Kept, d
<1>4. CASE ~Touched(t, v)
  <2>1. There(t, v) /\ Wide(t, v) /\ v >= 6 /\ (t = "entries" => v = 19)
    BY <1>4, UntouchedFound
  <2>2. /\ FoundIndex(t, v).there /\ FoundIndex(t, v).wide = Wide(t, v)
        /\ FoundIndex(t, v).stemmed = (v >= 6) /\ FoundIndex(t, v).rows = Stored(t, v)
    BY <1>2, <2>1, FoundIndexFields
  <2>3. Finished(d.index[t])
    BY <1>1, <2>1, <2>2 DEF Finished
  <2>4. FoundTrigger(t, v) = "wide"
    BY <2>1 DEF FoundTrigger
  <2>5. d.index[t].rows = Filed(d, t)
    <3>1. CASE t = "entries"
      <4>1. d.unfilled = {}
        BY <1>1, <2>1, <3>1
      <4> QED BY <1>1, <2>2, <4>1 DEF Filed
    <3>2. CASE t # "entries"
      BY <1>1, <2>2, <3>2 DEF Filed
    <3> QED BY <3>1, <3>2
  <2>6. ASSUME NEW a \in Idx(t) PROVE Right(d, a)
    <3>1. a = Shape(t) => Right(d, a)
      BY <2>3, RightIs
    <3>2. a = RowsIn(t) => Right(d, a)
      BY <2>5, RightIs
    <3>3. ASSUME NEW x \in Triggers PROVE a = Trig(t, x) => Right(d, a)
      BY <1>1, <2>4, RightIs
    <3> QED BY <3>1, <3>2, <3>3 DEF Idx
  <2> QED BY <2>6 DEF Kept, d
<1> QED BY <1>3, <1>4

LEMMA KeptInit ==
    ASSUME NEW v \in 0..19, Init, db = Found(backend, v)
    PROVE  KeptInv(v)
<1>1. work = db /\ \A p \in Procs : proc[p].at # "boot"
  BY DEF Init, Down
<1>2. Begun = {}
  BY <1>1, RanNothing DEF Begun
<1>3. ASSUME v > 0, NEW t \in Indexed PROVE Kept(db, t, v, OpenNow, Begun)
  <2>1. v \in 1..19
    BY <1>3
  <2> QED BY <1>2, <2>1, KeptFound
<1> QED BY <1>1, <1>3 DEF KeptInv

\* Fewer boots that have dropped an index, and nothing closed.
LEMMA KeptLess ==
    ASSUME NEW d, NEW t, NEW v, NEW O, NEW B, NEW P, NEW C, Kept(d, t, v, O, B),
           \A a \in Idx(t) : a \in O => a \in P, t \in C => t \in B
    PROVE  Kept(d, t, v, P, C)
  BY DEF Kept

\* A server stores a row.
LEMMA KeptStored ==
    ASSUME NEW v, TypeInv(v), Held, NEW p \in Procs, Stores(p), db.version = 19,
           \A t \in Indexed : Kept(db, t, v, OpenNow, Begun), NEW t \in Indexed
    PROVE  Kept(db', t, v, OpenNow, Begun)
<1>1. PICK u \in Indexed, r \in Rows :
         /\ db' = StoredIn(db, u, r, NewRows(db, u, r)) /\ r \notin db.rows[u]
         /\ NewRows(db, u, r) = db.index[u].rows
            \/ (db.index[u].there /\ NewRows(db, u, r) = db.index[u].rows \cup {r})
  BY DEF Stores
<1>2. Sound("sqlite", db) /\ backend = "sqlite" /\ owner = NoProc
  BY DEF TypeInv, Stores
<1> DEFINE S == NewRows(db, u, r)
           e == db'
           O == OpenNow
<1>3. e = StoredIn(db, u, r, S) /\ S = NewRows(db, u, r)
      /\ (S = db.index[u].rows \/ (db.index[u].there /\ S = db.index[u].rows \cup {r}))
  BY <1>1
<1>4. \A w \in Indexed : \A a \in Idx(w) : Right(db, a) \/ a \in O
  BY DEF Kept
<1>5. \A a \in O : (a = Shape(u) \/ \E x \in Triggers : a = Trig(u, x)) => RowsIn(u) \in O
  BY <1>2, OpenRows, ProcAssumption
<1> HIDE DEF S, e, O
<1>6. ASSUME NEW a \in Idx(t), Right(db, a) PROVE Right(e, a) \/ a \in O
  <2>1. CASE a = RowsIn(u) => Right(db, Shape(u)) /\ Right(db, Trig(u, "ai"))
    BY <1>1, <1>2, <1>3, <1>6, <2>1, StoreRight
  <2>2. CASE a = RowsIn(u) /\ ~(Right(db, Shape(u)) /\ Right(db, Trig(u, "ai")))
    <3>1. Shape(u) \in Idx(u) /\ Trig(u, "ai") \in Idx(u) /\ "ai" \in Triggers
      BY DEF Idx, Triggers
    <3>2. Shape(u) \in O \/ Trig(u, "ai") \in O
      BY <1>4, <2>2, <3>1
    <3> QED BY <1>5, <2>2, <3>1, <3>2
  <2> QED BY <2>1, <2>2
<1> QED BY <1>4, <1>6 DEF Kept, e, O

LEMMA RemakingSame ==
    ASSUME NEW v, TypeInv(v), NEW p \in Procs, Moves(p), NEW t,
           owner' = owner, owner # p
    PROVE  Remaking(t, v)' <=> Remaking(t, v)
<1>1. \A q \in Procs \ {p} : Upgrading(q)' <=> Upgrading(q)
  BY MovesOrNot, RanSame
<1>2. Touched(t, v)' <=> Touched(t, v)
  BY DEF Touched
<1> QED BY <1>1, <1>2 DEF Remaking

\* The owner of a transaction has read its version.
LEMMA OwnerReads ==
    ASSUME NEW v, TypeInv(v), backend = "sqlite", NEW p \in Procs, Executes(p),
           owner = p \/ owner' = p, owner' # owner => proc[p].from # Unread
    PROVE  Upgrading(p)' <=> Upgrading(p)
<1>1. proc[p].from # Unread
  BY ProcAssumption DEF TypeInv
<1>2. Advances(p)
  BY DEF Executes, Advances
<1>3. proc'[p].at = "boot" /\ proc'[p].from = proc[p].from /\ proc[p].at = "boot"
  BY <1>1, <1>2, AdvanceMoves DEF Advances
<1> QED BY <1>3 DEF Upgrading

LEMMA KeptExecutes ==
    ASSUME NEW v, TypeInv(v), Done, Versioned, Held, Agree, EntriesOk(v), backend = "sqlite",
           v > 0, ~tangled, KeptInv(v), NEW p \in Procs, Executes(p), NEW t \in Indexed
    PROVE  /\ Kept(work', t, v, OpenNow', Begun')
           /\ ~Remaking(t, v)' => Kept(db', t, v, OpenNow', Begun')
<1>1. \A u \in Indexed : /\ Kept(work, u, v, OpenNow, Begun)
                         /\ ~Remaking(u, v) => Kept(db, u, v, OpenNow, Begun)
  BY DEF KeptInv
<1>2. \A q \in Procs : q # NoProc
  BY ProcAssumption
<1>3. Moves(p)
  BY DEF Moves
<1>4. CASE ExecutesInside(p)
  <2>1. /\ Sees(p) = work /\ work' = New(p) /\ db' = db /\ owner' = p
        /\ owner = p \/ owner = NoProc
        /\ proc[p].from # Unread
    BY <1>4 DEF ExecutesInside
  <2>2. Kept(New(p), t, v, OpenNow', Begun')
    BY <1>1, <2>1, KeptSeen
  <2>3. ASSUME ~Remaking(t, v)' PROVE Kept(db, t, v, OpenNow', Begun')
    <3>1. Upgrading(p)' <=> Upgrading(p)
      BY <2>1, OwnerReads
    <3>2. Touched(t, v)' <=> Touched(t, v)
      BY DEF Touched
    <3>3. ~Upgrading(p) \/ ~Touched(t, v)
      BY <2>1, <2>3, <3>1, <3>2 DEF Remaking
    <3>4. ~Remaking(t, v)
      BY <1>2, <2>1, <3>3 DEF Remaking
    <3>5. Kept(db, t, v, OpenNow, Begun)
      BY <1>1, <3>4
    <3> QED BY <3>3, <3>5, KeptSide
  <2> QED BY <2>1, <2>2, <2>3
<1>5. CASE ExecutesAlone(p)
  <2>1. /\ Sees(p) = work /\ work' = New(p) /\ db' = New(p)
    BY <1>5 DEF ExecutesAlone
  <2>2. Kept(New(p), t, v, OpenNow', Begun')
    BY <1>1, <2>1, KeptSeen
  <2> QED BY <2>1, <2>2
<1>6. CASE Reads(p)
  <2>1. work' = work /\ db' = db /\ owner' = owner
    BY <1>6 DEF Reads
  <2>2. Kept(work, t, v, OpenNow', Begun')
    BY <1>1, <1>6, KeptSide
  <2>3. ASSUME ~Remaking(t, v)' PROVE Kept(db, t, v, OpenNow', Begun')
    <3>1. ~Remaking(t, v)
      <4>1. CASE owner # p
        BY <1>3, <2>1, <2>3, <4>1, RemakingSame
      <4>2. CASE owner = p
        <5>1. Upgrading(p)' <=> Upgrading(p)
          BY <2>1, <4>2, OwnerReads
        <5>2. Touched(t, v)' <=> Touched(t, v)
          BY DEF Touched
        <5> QED BY <2>1, <2>3, <4>2, <5>1, <5>2 DEF Remaking
      <4> QED BY <4>1, <4>2
    <3>2. Kept(db, t, v, OpenNow, Begun)
      BY <1>1, <3>1
    <3> QED BY <1>6, <3>2, KeptSide
  <2> QED BY <2>1, <2>2, <2>3
<1> QED BY <1>4, <1>5, <1>6 DEF Executes

\* Nothing is closed, nor does anything begin.
LEMMA OpenOther ==
    ASSUME NEW v, TypeInv(v), backend = "sqlite", NEW p \in Procs, NEW t \in Indexed,
           \/ Commits(p) \/ Begins(p) \/ Stores(p)
           \/ Leaves(p) /\ ~(Upgrading(p) /\ Touched(t, v))
    PROVE  /\ \A a \in Idx(t) : a \in OpenNow => a \in OpenNow'
           /\ t \in Begun' => t \in Begun
<1>1. /\ \A q \in Procs \ {p} : Opened(q)' = Opened(q) /\ Ran(q)' = Ran(q)
  BY OpenedMoves, RanMoves DEF Moves
<1>2. ASSUME NEW a \in Idx(t), a \in Opened(p) PROVE a \in Opened(p)'
  <2>1. CASE Commits(p)
    <3>1. Opened(p)' = After(Current(p), Opened(p)) /\ Repairs(Current(p)) = {Tx}
      BY <2>1, OpenedMoves, CommitSpoils DEF Moves
    <3>2. a # Tx
      BY TxDiffers DEF Idx
    <3> QED BY <1>2, <3>1, <3>2 DEF After
  <2>2. CASE Begins(p)
    BY <1>2, <2>2, OpenedMoves DEF Moves
  <2>3. CASE Stores(p)
    BY <1>2, <2>3, OpenedMoves DEF Moves
  <2>4. Upgrading(p) /\ Touched(t, v)
    BY <1>2, OpenedTouched
  <2> QED BY <2>1, <2>2, <2>3, <2>4
<1>3. ASSUME NEW s \in Ran(p)', s.op = "drop fts" PROVE s \in Ran(p)
  <2>1. CASE Commits(p)
    BY <1>3, <2>1, RanMoves, CommitSpoils DEF Moves
  <2>2. CASE Leaves(p) \/ Begins(p)
    BY <1>3, <2>2, RanMoves DEF Moves
  <2>3. CASE Stores(p)
    BY <1>3, <2>3, RanMoves DEF Moves
  <2> QED BY <2>1, <2>2, <2>3
<1>4. ASSUME NEW a \in Idx(t), a \in OpenNow PROVE a \in OpenNow'
  <2>1. PICK q \in Procs : a \in Opened(q)
    BY <1>4, OpenIs
  <2>2. a \in Opened(q)'
    BY <1>1, <1>2, <2>1
  <2> QED BY <2>2, OpenIs
<1>5. ASSUME t \in Begun' PROVE t \in Begun
  <2>1. PICK q \in Procs : \E r \in Ran(q)' : r.op = "drop fts" /\ r.table = t
    BY <1>5, OpenIs
  <2>2. PICK r \in Ran(q)' : r.op = "drop fts" /\ r.table = t
    BY <2>1
  <2>3. r \in Ran(q)
    BY <1>1, <1>3, <2>2
  <2> QED BY <2>2, <2>3, OpenIs
<1> QED BY <1>4, <1>5

\* The only upgrade under way dies, before its stamp: the next one begins anew.
LEMMA LeftAlone ==
    ASSUME NEW v, TypeInv(v), Versioned, backend = "sqlite", NEW p \in Procs, Leaves(p),
           ~tangled', Upgrading(p), NEW t \in Indexed
    PROVE  work' = db /\ db' = db /\ db.version # 19 /\ t \notin Begun'
<1>1. db.version # 19 /\ \A q \in Procs \ {p} : ~Upgrading(q)
  BY DEF Leaves, Tangles, CORE_VERSION
<1>2. db' = db /\ ((owner = p /\ work' = db) \/ (owner # p /\ work' = work))
  BY DEF Leaves
<1>3. proc[p].at = "boot" /\ proc[p].from \in 1..18 /\ proc[p].from = v
  <2>1. proc[p].at = "boot"
    BY DEF Upgrading
  <2> QED BY <2>1, CurrentKindly
<1>4. ASSUME NEW q \in Procs \ {p} PROVE owner # q /\ \A s \in Ran(q)' : s.op # "drop fts"
  <2>1. ~Upgrading(q)
    BY <1>1
  <2>2. owner # q
    <3>1. SUFFICES ASSUME owner = q PROVE FALSE
      OBVIOUS
    <3>2. proc[q].at = "boot" /\ proc[q].from # Unread /\ proc[q].from \in {Unread, v, 19}
      BY <3>1, ProcAssumption DEF TypeInv, Placed
    <3>3. proc[q].from # 19
      BY <1>1 DEF Versioned, VersionedAt
    <3>4. proc[q].from = v
      BY <3>2, <3>3
    <3> QED BY <1>3, <2>1, <3>2, <3>4, CurrentKindly
  <2>3. Ran(q)' = Ran(q)
    BY RanMoves DEF Moves
  <2>4. ASSUME NEW s \in Ran(q), s.op = "drop fts" PROVE FALSE
    <3>1. proc[q].at = "boot"
      BY DEF Ran
    <3>2. Kindly(s, proc[q].from)
      BY <3>1, CurrentKindly
    <3>3. proc[q].from \in 1..18
      BY <2>4, <3>2 DEF Kindly, Drops
    <3> QED BY <2>1, <3>1, <3>3, CurrentKindly
  <2> QED BY <2>2, <2>3, <2>4
<1>5. Ran(p)' = {}
  BY RanMoves DEF Moves
<1>6. t \notin Begun'
  BY <1>4, <1>5, OpenIs
<1>7. work' = db
  <2>1. owner = p \/ owner = NoProc
    BY <1>4 DEF TypeInv
  <2> QED BY <1>2, <2>1 DEF TypeInv
<1> QED BY <1>1, <1>2, <1>6, <1>7

LEMMA KeptLeaves ==
    ASSUME NEW v, TypeInv(v), Versioned, backend = "sqlite", v > 0, ~tangled, ~tangled',
           KeptInv(v), NEW p \in Procs, Leaves(p), NEW t \in Indexed
    PROVE  /\ Kept(work', t, v, OpenNow', Begun')
           /\ ~Remaking(t, v)' => Kept(db', t, v, OpenNow', Begun')
<1>1. /\ Kept(work, t, v, OpenNow, Begun)
      /\ ~Remaking(t, v) => Kept(db, t, v, OpenNow, Begun)
  BY DEF KeptInv
<1>2. CASE Upgrading(p) /\ Touched(t, v)
  <2>1. work' = db /\ db' = db /\ db.version # 19 /\ t \notin Begun'
    BY <1>2, LeftAlone
  <2>2. Kept(db, t, v, OpenNow', Begun')
    BY <1>2, <2>1 DEF Kept
  <2> QED BY <2>1, <2>2
<1>3. CASE ~(Upgrading(p) /\ Touched(t, v))
  <2>1. /\ \A a \in Idx(t) : a \in OpenNow => a \in OpenNow'
        /\ t \in Begun' => t \in Begun
    BY <1>3, OpenOther
  <2>2. ASSUME NEW c, Kept(c, t, v, OpenNow, Begun) PROVE Kept(c, t, v, OpenNow', Begun')
    BY <2>1, <2>2, KeptLess
  <2>3. CASE owner = p /\ work' = db /\ owner' = NoProc
    <3>1. ~Remaking(t, v)
      BY <1>3, <2>3 DEF Remaking
    <3>2. db' = db
      BY DEF Leaves
    <3> QED BY <1>1, <2>2, <2>3, <3>1, <3>2
  <2>4. CASE owner # p /\ work' = work /\ owner' = owner
    <3>1. Remaking(t, v)' <=> Remaking(t, v)
      BY <2>4, RemakingSame DEF Moves
    <3>2. db' = db
      BY DEF Leaves
    <3> QED BY <1>1, <2>2, <2>4, <3>1, <3>2
  <2> QED BY <2>3, <2>4 DEF Leaves
<1> QED BY <1>2, <1>3

LEMMA KeptOther ==
    ASSUME NEW v, TypeInv(v), Held, Versioned, backend = "sqlite", v > 0, ~tangled,
           KeptInv(v), NEW p \in Procs, Commits(p) \/ Begins(p) \/ Stores(p),
           NEW t \in Indexed
    PROVE  /\ Kept(work', t, v, OpenNow', Begun')
           /\ ~Remaking(t, v)' => Kept(db', t, v, OpenNow', Begun')
<1>1. \A u \in Indexed : /\ Kept(work, u, v, OpenNow, Begun)
                         /\ ~Remaking(u, v) => Kept(db, u, v, OpenNow, Begun)
  BY DEF KeptInv
<1>2. /\ \A a \in Idx(t) : a \in OpenNow => a \in OpenNow'
      /\ t \in Begun' => t \in Begun
  BY OpenOther
<1>3. ASSUME NEW c, Kept(c, t, v, OpenNow, Begun) PROVE Kept(c, t, v, OpenNow', Begun')
  BY <1>2, <1>3, KeptLess
<1>4. Moves(p)
  BY DEF Moves
<1>5. CASE Commits(p)
  <2>1. CASE owner = p /\ db' = work /\ owner' = NoProc
    <3>1. work' = work
      BY <1>5 DEF Commits
    <3> QED BY <1>1, <1>3, <2>1, <3>1
  <2>2. CASE owner # p /\ db' = db /\ owner' = owner
    <3>1. Remaking(t, v)' <=> Remaking(t, v)
      BY <1>4, <2>2, RemakingSame
    <3>2. work' = work
      BY <1>5 DEF Commits
    <3> QED BY <1>1, <1>3, <2>2, <3>1, <3>2
  <2> QED BY <1>5, <2>1, <2>2 DEF Commits
<1>6. CASE Begins(p)
  <2>1. db' = db /\ work' = work /\ owner' = owner /\ proc[p].at = "down"
    BY <1>6 DEF Begins
  <2>2. owner # p
    BY <2>1, ProcAssumption DEF TypeInv
  <2>3. Remaking(t, v)' <=> Remaking(t, v)
    BY <1>4, <2>1, <2>2, RemakingSame
  <2> QED BY <1>1, <1>3, <2>1, <2>3
<1>7. CASE Stores(p)
  <2>1. work = db /\ work' = db' /\ owner = NoProc
    BY <1>7 DEF Stores
  <2>2. db.version = 19
    BY <1>7 DEF Stores, Versioned, VersionedAt
  <2>3. \A u \in Indexed : Kept(db, u, v, OpenNow, Begun)
    BY <1>1, <2>1
  <2>4. Kept(db', t, v, OpenNow, Begun)
    BY <1>7, <2>2, <2>3, KeptStored
  <2>5. Kept(db', t, v, OpenNow', Begun')
    <3> DEFINE c == db'
    <3>1. Kept(c, t, v, OpenNow, Begun)
      BY <2>4
    <3> HIDE DEF c
    <3>2. Kept(c, t, v, OpenNow', Begun')
      BY <1>2, <3>1, KeptLess
    <3> QED BY <3>2 DEF c
  <2> QED BY <2>1, <2>5
<1> QED BY <1>5, <1>6, <1>7

LEMMA KeptStep ==
    ASSUME NEW v, TypeInv(v), Done, Versioned, Held, Agree, EntriesOk(v), KeptInv(v),
           NEW p \in Procs, Moves(p)
    PROVE  KeptInv(v)'
<1>1. backend' = backend /\ (tangled => tangled')
  <2>1. backend' = backend
    BY MovesOrNot
  <2>2. Executes(p) \/ Commits(p) \/ Begins(p) \/ Stores(p) => tangled' = tangled
    BY DEF Executes, Commits, Begins, Stores
  <2>3. Leaves(p) /\ tangled => tangled'
    BY DEF Leaves, Tangles
  <2> QED BY <2>1, <2>2, <2>3 DEF Moves
<1>2. CASE ~(backend = "sqlite" /\ v > 0 /\ ~tangled')
  BY <1>1, <1>2 DEF KeptInv
<1>3. CASE backend = "sqlite" /\ v > 0 /\ ~tangled'
  <2>1. backend = "sqlite" /\ v > 0 /\ ~tangled /\ ~tangled'
    BY <1>1, <1>3
  <2>2. ASSUME NEW t \in Indexed
        PROVE  /\ Kept(work', t, v, OpenNow', Begun')
               /\ ~Remaking(t, v)' => Kept(db', t, v, OpenNow', Begun')
    <3>1. CASE Executes(p)
      BY <2>1, <3>1, KeptExecutes
    <3>2. CASE Leaves(p)
      BY <2>1, <3>2, KeptLeaves
    <3>3. CASE Commits(p) \/ Begins(p) \/ Stores(p)
      BY <2>1, <3>3, KeptOther
    <3> QED BY <3>1, <3>2, <3>3 DEF Moves
  <2>3. ASSUME NEW t
        PROVE  /\ (Kept(work, t, v, OpenNow, Begun))' <=> Kept(work', t, v, OpenNow', Begun')
               /\ (Kept(db, t, v, OpenNow, Begun))' <=> Kept(db', t, v, OpenNow', Begun')
    BY DEF Kept, Right, Finished, Filed, Trig, Shape, RowsIn, Idx, Touched
  <2> QED BY <2>2, <2>3 DEF KeptInv
<1> QED BY <1>2, <1>3

----------------------------------------------------------------------------
(* The stamp is true.                                                      *)

LEMMA StampInit ==
    ASSUME Init
    PROVE  \E v \in 0..19 : IInv(v)
<1>1. PICK v \in 0..19 : TypeInv(v) /\ db = Found(backend, v)
  BY TypeInit
<1>2. Done /\ Versioned /\ Held /\ Agree
  BY DoneInit, VersionedInit, HeldInit, AgreeInit
<1>3. Tabled(v) /\ Bare(v) /\ EntriesOk(v) /\ KeptInv(v)
  BY <1>1, TabledInit, BareInit, EntriesInit, KeptInit
<1> QED BY <1>1, <1>2, <1>3 DEF IInv

LEMMA IInvMoves ==
    ASSUME NEW v, IInv(v), NEW p \in Procs, Moves(p), TypeInv(v)'
    PROVE  IInv(v)'
<1>1. /\ TypeInv(v) /\ Done /\ Tabled(v) /\ Versioned /\ Held
      /\ Bare(v) /\ Agree /\ EntriesOk(v) /\ KeptInv(v)
  BY DEF IInv
<1>2. Done' /\ Tabled(v)' /\ Versioned' /\ Held'
  BY <1>1, DoneStep, TabledStep, VersionedStep, HeldStep
<1>3. Bare(v)' /\ Agree'
  BY <1>1, BareStep, AgreeStep
<1>4. EntriesOk(v)' /\ KeptInv(v)'
  BY <1>1, <1>3, EntriesStep, KeptStep
<1> QED BY <1>2, <1>3, <1>4 DEF IInv

LEMMA IInvStutters ==
    ASSUME NEW v, IInv(v), Stutters, TypeInv(v)'
    PROVE  IInv(v)'
<1>1. /\ backend' = backend /\ db' = db /\ work' = work /\ owner' = owner /\ proc' = proc
      /\ tangled' = tangled
  BY DEF Stutters
<1>2. \A p : /\ Boot(p)' = Boot(p) /\ Ran(p)' = Ran(p) /\ Sees(p)' = Sees(p)
             /\ Opened(p)' = Opened(p) /\ (Upgrading(p)' <=> Upgrading(p))
  BY <1>1, RanSame, OpenedNot DEF Sees
<1>3. OpenNow' = OpenNow /\ Begun' = Begun
  BY <1>2 DEF OpenNow, Begun
<1>4. Done'
  <2>1. Grows(db, work)' /\ \A p : Looked(p)' <=> Looked(p)
    BY <1>1, <1>2 DEF IInv, Done, Grows, Looked
  <2>2. \A p \in Procs : (\A s \in Ran(p) : Left(Sees(p), s))'
    BY <1>2 DEF IInv, Done, Left
  <2> QED BY <2>1, <2>2 DEF IInv, Done
<1>5. Tabled(v)'
  BY <1>1 DEF IInv, Tabled, Schema, Whole, Full
<1>6. Versioned'
  BY <1>1 DEF IInv, Versioned, VersionedAt
<1>7. Held'
  BY <1>1, <1>2 DEF IInv, Held, Tx
<1>8. Bare(v)'
  <2>1. (Solid(db) /\ Solid(work) /\ Firm(db, work))' <=>
           Solid(db) /\ Solid(work) /\ Firm(db, work)
    BY <1>1 DEF Solid, Firm, Right, Missing, Has, Finished, Filed, Trig, Shape, RowsIn, Idx
  <2>2. ASSUME NEW q \in Procs
        PROVE (Assured(Ran(q), Sees(q)))' <=> Assured(Ran(q), Sees(q))
    <3>1. (Assured(Ran(q), Sees(q)))' <=> Assured(Ran(q)', Sees(q)')
      BY DEF Assured, Right, Has, Finished, Filed, Trig, Shape, RowsIn, Assures, Aspects, Tx
    <3>2. Ran(q)' = Ran(q) /\ Sees(q)' = Sees(q)
      BY <1>2
    <3> QED BY <3>1, <3>2
  <2> QED BY <1>1, <2>1, <2>2 DEF IInv, Bare
<1>9. Agree'
  <2>1. (Agrees(db, work))' <=> Agrees(db', work')
    BY DEF Agrees, Right, Missing, Has, Finished, Filed, Trig, Shape, RowsIn, Idx
  <2> QED BY <1>1, <2>1 DEF IInv, Agree
<1>10. EntriesOk(v)'
  <2>1. ASSUME NEW a
        PROVE (Sane(work, a) \/ (work.version # 19 /\ Unspoiled(a)))' <=>
                 Sane(work, a) \/ (work.version # 19 /\ Unspoiled(a))
    BY <1>1, <1>2 DEF Sane, Right, Missing, Has, Finished, Filed, Trig, Shape, RowsIn,
           Unspoiled, Spoils, Tx
  <2> QED BY <1>1, <2>1 DEF IInv, EntriesOk, Idx, Trig, Shape, RowsIn
<1>11. KeptInv(v)'
  <2>1. ASSUME NEW t
        PROVE  /\ (Kept(work, t, v, OpenNow, Begun))' <=> Kept(work, t, v, OpenNow, Begun)
               /\ (Kept(db, t, v, OpenNow, Begun))' <=> Kept(db, t, v, OpenNow, Begun)
               /\ Remaking(t, v)' <=> Remaking(t, v)
    BY <1>1, <1>2, <1>3 DEF Kept, Right, Finished, Filed, Trig, Shape, RowsIn, Idx, Touched,
                            Remaking
  <2> QED BY <1>1, <2>1 DEF IInv, KeptInv
<1> QED BY <1>4, <1>5, <1>6, <1>7, <1>8, <1>9, <1>10, <1>11 DEF IInv

LEMMA StampStep ==
    ASSUME NEW v, IInv(v), [Next]_vars
    PROVE  IInv(v)'
<1>1. TypeInv(v) /\ TypeInv(v)'
  BY TypeStep DEF IInv
<1>2. Stutters \/ \E p \in Procs : Moves(p)
  BY <1>1, StepMoves
<1> QED BY <1>1, <1>2, IInvMoves, IInvStutters

LEMMA StampMeans ==
    ASSUME NEW v \in 0..19, IInv(v)
    PROVE  StampIsTrue
<1> SUFFICES ASSUME db.version = 19, \A p \in Procs : proc[p].at # "boot", ~tangled
             PROVE  Complete
  BY CoreVersion DEF StampIsTrue
<1>1. /\ TypeInv(v) /\ Whole(db) /\ (backend = "sqlite" /\ v = 0 => Solid(db)) /\ KeptInv(v)
      /\ backend \in {"sqlite", "postgres"}
  BY DEF IInv, Tabled, Bare, TypeInv
<1>2. Full(db)
  BY <1>1 DEF Whole
<1>3. CASE backend = "postgres"
  BY <1>2, <1>3 DEF Full, Complete
<1>4. CASE backend = "sqlite"
  <2>1. owner = NoProc
    BY <1>1 DEF TypeInv
  <2>2. OpenNow = {}
    <3>1. \A p \in Procs : Opened(p) = {}
      BY OpenedNot
    <3> QED BY <3>1 DEF OpenNow
  <2>3. ASSUME NEW t \in Indexed, NEW a \in Idx(t) PROVE Right(db, a)
    <3>1. CASE v = 0
      BY <1>1, <1>4, <3>1 DEF Solid
    <3>2. CASE v > 0
      <4>1. ~Remaking(t, v)
        BY <2>1, ProcAssumption DEF Remaking
      <4>2. Kept(db, t, v, OpenNow, Begun)
        BY <1>1, <1>4, <3>2, <4>1 DEF KeptInv
      <4> QED BY <2>2, <4>2 DEF Kept
    <3> QED BY <3>1, <3>2
  <2>4. ASSUME NEW t \in Indexed
        PROVE  /\ db.index[t].there /\ db.index[t].wide /\ db.index[t].stemmed
               /\ \A x \in Triggers : db.triggers[t][x] = "wide"
               /\ db.index[t].rows = Filed(db, t)
    <3>1. \A x \in Triggers : Right(db, Trig(t, x))
      BY <2>3 DEF Idx
    <3>2. Right(db, Shape(t)) /\ Right(db, RowsIn(t))
      BY <2>3 DEF Idx
    <3>3. Finished(db.index[t])
      BY <3>2, RightIs
    <3> QED BY <3>1, <3>2, <3>3, RightIs DEF Finished
  <2>5. db.tables = TablesOf(backend) /\ db.columns = ColumnsBy(backend)
    BY <1>2 DEF Full
  <2>6. \A t \in Indexed : db.index[t].there /\ db.index[t].wide
    BY <2>4
  <2>7. \A t \in Indexed :
           /\ db.index[t].stemmed
           /\ \A s \in Triggers : db.triggers[t][s] = "wide"
           /\ db.index[t].rows = IF t = "entries" THEN db.rows[t] \ db.unfilled
                                 ELSE db.rows[t]
    BY <2>4 DEF Filed
  <2> QED BY <2>5, <2>6, <2>7 DEF Complete
<1> QED BY <1>1, <1>3, <1>4

\* Whatever was found, whatever boots and dies, in any order: a database with
\* the last stamp on which nobody boots has every table, column, index and
\* trigger of the last shape, and every row in its index, unless one of two
\* upgrades at once was killed.
THEOREM StampIsAlwaysTrue == Spec => []StampIsTrue
<1> DEFINE Inv == \E v \in 0..19 : IInv(v)
<1>1. Init => Inv
  BY StampInit
<1>2. Inv /\ [Next]_vars => Inv'
  BY StampStep
<1>3. Inv => StampIsTrue
  BY StampMeans
<1> QED BY <1>1, <1>2, <1>3, PTL DEF Spec
============================================================================
