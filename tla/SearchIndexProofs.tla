-------------------------- MODULE SearchIndexProofs --------------------------
(***************************************************************************)
(* Proofs about SearchIndex, for any processes, rows, requests, actors and *)
(* limit, any backends, and any number of writes and searches.             *)
(***************************************************************************)
EXTENDS SearchIndex, FiniteSetTheorems, TLAPS

----------------------------------------------------------------------------
(* The inductive invariant.                                                *)

InBlock(p) == pc[p] \in {"format", "count", "relate"}
\* The project that the scope in hand asks for.
Project(p) == IF Kind(p) = "rule" THEN "" ELSE req[p].project

\* A search in progress has a scope in hand and a value of every row in its
\* history, the ones it has read to copy among them.
FlowOK(p) ==
    pc[p] # "idle" =>
       /\ scopes[p] # << >>
       /\ \A i \in Items : rows[i] \in since[p][i]
       /\ pc[p] \in {"create", "bulk"} => copying[p] \in Kinds
       /\ pc[p] = "bulk" => \A i \in ItemsOf(copying[p]) : batch[p][i] \in since[p][i]

\* Only another process's creation of the index can make one's own fail.
RacesOK(p) ==
    /\ pc[p] = "create" /\ copying[p] \in exists => crossed[p]
    /\ outcome[p] = "failed" => crossed[p]

\* The document of a row that has not been written since the search began.
Copied(p, i) ==
    \A row \in since[p][i] : since[p][i] = {row} /\ IsRow(row) => docs[i] = row.text

\* What has been copied is up to date, unless others write the index too.
CopiesOK(p) ==
    backend = "index" /\ ~crossed[p] /\ pc[p] \in {"sync", "create", "bulk"} =>
       \A i \in Items :
          /\ KindOf[i] \notin todo[p]
          /\ pc[p] \in {"create", "bulk"} => KindOf[i] # copying[p]
          => Copied(p, i)

\* The hits of the scope in hand: still to look up, or looked up and kept.
HitsOK(p) ==
    /\ pc[p] = "format" =>
          /\ \A x \in DOMAIN found[p] : found[p][x].item \in ItemsOf(Kind(p))
          /\ \A x, y \in DOMAIN found[p] : found[p][x].item = found[p][y].item => x = y
          /\ \A x \in DOMAIN found[p], y \in DOMAIN scored[p] :
                found[p][x].item # scored[p][y].item
    /\ InBlock(p) =>
          /\ \A x \in DOMAIN scored[p] :
                /\ scored[p][x].item \in ItemsOf(Kind(p))
                /\ ShowableOnce(p, scored[p][x].item, Project(p))
          /\ \A x, y \in DOMAIN scored[p] : scored[p][x].item = scored[p][y].item => x = y
    /\ Formed(p) => found[p] = << >>

\* A best match that nothing speaks against has the better composite.
ScoresOK(p) ==
    InBlock(p) => \A x \in DOMAIN scored[p] :
       LET e == scored[p][x] IN
       /\ e.relevance = 1000 /\ ~Traits[e.item].expired /\ NeverFailing(p, e.item)
             => e.composite >= 2000
       /\ e.relevance = 0 /\ ~Traits[e.item].pinned => e.composite < 2000

\* What the scope shows: the best of what it has kept, all of it if it may,
\* and rules related to it.
ShownOK(p) ==
    /\ Formed(p) =>
          /\ \A i \in Range(top[p]) : \E x \in DOMAIN scored[p] : scored[p][x].item = i
          /\ Len(top[p]) < Limit => \A x \in DOMAIN scored[p] : scored[p][x].item \in Range(top[p])
          /\ \A x, y \in DOMAIN scored[p] :
                scored[p][x].composite > scored[p][y].composite
                /\ scored[p][y].item \in Range(top[p]) => scored[p][x].item \in Range(top[p])
          /\ \A i \in Range(related[p]) : ShowableOnce(p, i, "")

\* No row that has matched throughout has been lost.
CompleteOK(p) ==
    InBlock(p) /\ ~crossed[p] /\ Cardinality(Candidates(p)) <= 3 * Limit =>
       \A i \in ItemsOf(Kind(p)) : Good(p, i) =>
          \/ pc[p] = "format" /\ \E x \in DOMAIN found[p] :
                found[p][x].item = i /\ found[p][x].score # 1
          \/ \E x \in DOMAIN scored[p] : scored[p][x].item = i

PodOK(p) == /\ FlowOK(p) /\ RacesOK(p) /\ CopiesOK(p) /\ HitsOK(p)
            /\ ScoresOK(p) /\ ShownOK(p) /\ CompleteOK(p)

IInv == TypeOK /\ \A p \in Pods : PodOK(p)

----------------------------------------------------------------------------
(* Sequences: orderings of a set, and their beginnings.                    *)

LEMMA ItemFacts ==
  /\ Items = 1..Len(KindOf) /\ IsFiniteSet(Items)
  /\ \A i \in Items : KindOf[i] \in Kinds
  /\ \A k : ItemsOf(k) \subseteq Items
<1>1. KindOf \in Seq({"knowledge", "negative", "rule"})
  BY TraitAssumption
<1>2. Items = 1..Len(KindOf) /\ Len(KindOf) \in Nat
  BY <1>1 DEF Items
<1>3. IsFiniteSet(1..Len(KindOf))
  BY <1>2, FS_Interval
<1> QED
  BY <1>2, <1>3 DEF Kinds, Items, ItemsOf, Range

\* A sequence of all the elements of a set, each once.
LEMMA Ordering ==
  ASSUME NEW S, IsFiniteSet(S), NEW s \in SetToSeqs(S)
  PROVE  /\ s \in Seq(S) /\ Len(s) = Cardinality(S) /\ DOMAIN s = 1..Len(s)
         /\ \A x \in DOMAIN s : s[x] \in S
         /\ \A x, y \in DOMAIN s : s[x] = s[y] => x = y
         /\ \A e \in S : \E x \in DOMAIN s : s[x] = e
<1>1. Cardinality(S) \in Nat
  BY FS_CardinalityType
<1> DEFINE D == 1..Cardinality(S)
<1>2. s \in [D -> S] /\ \A x, y \in D : x # y => s[x] # s[y]
  BY DEF SetToSeqs
<1>3. s \in Seq(S) /\ Len(s) = Cardinality(S) /\ DOMAIN s = D
  BY <1>1, <1>2
<1>4. IsFiniteSet(D) /\ Cardinality(D) = Cardinality(S)
  BY <1>1, FS_Interval
<1>5. s \in Injection(D, S)
  BY <1>2 DEF Injection, IsInjective
<1>6. s \in Surjection(D, S)
  BY <1>4, <1>5, FS_Injection
<1>7. \A e \in S : \E x \in D : s[x] = e
  BY <1>6 DEF Surjection
<1> QED
  BY <1>2, <1>3, <1>7

LEMMA CutFacts ==
  ASSUME NEW S, NEW s \in Seq(S), NEW n \in Nat
  PROVE  /\ Cut(s, n) \in Seq(S) /\ DOMAIN Cut(s, n) = 1..Len(Cut(s, n))
         /\ Len(Cut(s, n)) = IF Len(s) < n THEN Len(s) ELSE n
         /\ \A x \in DOMAIN Cut(s, n) : x \in DOMAIN s /\ Cut(s, n)[x] = s[x]
<1> DEFINE m == IF Len(s) < n THEN Len(s) ELSE n
<1>1. m \in Nat /\ m <= Len(s) /\ Len(s) \in Nat
  OBVIOUS
<1>2. \A x \in 1..m : x \in DOMAIN s /\ s[x] \in S
  BY <1>1
<1>3. Cut(s, n) = [x \in 1..m |-> s[x]]
  BY DEF Cut
<1> HIDE DEF m
<1>4. Cut(s, n) \in [1..m -> S]
  BY <1>2, <1>3
<1>5. Cut(s, n) \in Seq(S) /\ Len(Cut(s, n)) = m /\ DOMAIN Cut(s, n) = 1..m
  BY <1>1, <1>4
<1> QED
  BY <1>2, <1>3, <1>5 DEF m

----------------------------------------------------------------------------
(* What a query answers.                                                   *)

LEMMA TextType ==
  ASSUME TypeOK, NEW i \in Items
  PROVE  TextOf(i) \in {None, 0, 1, 2, 3, 4}
BY DEF TypeOK, TextOf, Texts, Row

LEMMA RelevanceType ==
  ASSUME NEW a \in 1..4, NEW lo \in 1..4, NEW hi \in 1..4, lo <= a, a <= hi
  PROVE  Relevance(a, lo, hi) \in 0..1000
<1>1. CASE hi <= lo
  BY <1>1 DEF Relevance
<1>2. CASE hi > lo
  <2>1. hi - lo \in {1, 2, 3} /\ a - lo \in 0..3 /\ a - lo <= hi - lo
    BY <1>2
  <2>2. \A x \in 0..3, y \in {1, 2, 3} : x <= y => (1000 * x) \div y \in 0..1000
    OBVIOUS
  <2>3. Relevance(a, lo, hi) = (1000 * (a - lo)) \div (hi - lo)
    BY <1>2 DEF Relevance
  <2> QED
    BY <2>1, <2>2, <2>3
<1> QED
  BY <1>1, <1>2

\* The rung that answers: the first that any row matches.
LEMMA RungFacts ==
  ASSUME backend \in {"strict", "natural", "index"}, NEW k,
         NEW answer \in Answers(k)
  PROVE  \/ /\ answer = << >>
            /\ \A i \in ItemsOf(k) : TextOf(i) \notin {3, 4}
         \/ \E rung \in {{3, 4}, {2, 3, 4}, {1}} :
               /\ answer \in {HitsOf(Cut(s, Window)) : s \in ByScore(Matching(k, rung))}
               /\ \A i \in ItemsOf(k) : TextOf(i) \in {3, 4} => TextOf(i) \in rung
<1> DEFINE rungs == Ladder[backend]
           nonempty == {n \in DOMAIN rungs : Matching(k, rungs[n]) # {}}
           first == CHOOSE n \in nonempty : \A m \in nonempty : n <= m
<1>1. /\ backend = "strict" => rungs = <<{3, 4}, {1}>>
      /\ backend = "natural" => rungs = <<{3, 4}, {2, 3, 4}, {1}>>
      /\ backend = "index" => rungs = <<{2, 3, 4}>>
  BY DEF Ladder
<1>2. /\ DOMAIN rungs \subseteq {1, 2, 3}
      /\ 1 \in DOMAIN rungs /\ {3, 4} \subseteq rungs[1]
      /\ \A n \in DOMAIN rungs : rungs[n] \in {{3, 4}, {2, 3, 4}, {1}}
  <2>1. CASE backend = "strict"
    BY <1>1, <2>1
  <2>2. CASE backend = "natural"
    BY <1>1, <2>2
  <2>3. CASE backend = "index"
    BY <1>1, <2>3
  <2> QED
    BY <2>1, <2>2, <2>3
<1>3. Answers(k) = IF nonempty = {} THEN {<< >>}
                   ELSE {HitsOf(Cut(s, Window)) : s \in ByScore(Matching(k, rungs[first]))}
  BY DEF Answers
<1> HIDE DEF rungs
<1>4. SUFFICES ASSUME nonempty # {}
               PROVE  \E rung \in {{3, 4}, {2, 3, 4}, {1}} :
                         /\ answer \in {HitsOf(Cut(s, Window)) :
                                           s \in ByScore(Matching(k, rung))}
                         /\ \A i \in ItemsOf(k) : TextOf(i) \in {3, 4} => TextOf(i) \in rung
  <2>1. ASSUME nonempty = {}, NEW i \in ItemsOf(k), TextOf(i) \in {3, 4} PROVE FALSE
    <3>1. i \in Matching(k, rungs[1])
      BY <1>2, <2>1 DEF Matching
    <3> QED
      BY <1>2, <2>1, <3>1
  <2>2. nonempty = {} => answer = << >>
    BY <1>3
  <2> QED
    BY <2>1, <2>2
<1>5. nonempty \subseteq {1, 2, 3}
  BY <1>2
<1>6. \E n \in nonempty : \A m \in nonempty : n <= m
  <2> HIDE DEF nonempty
  <2>1. CASE 1 \in nonempty
    BY <1>5, <2>1
  <2>2. CASE 1 \notin nonempty /\ 2 \in nonempty
    BY <1>5, <2>2
  <2>3. CASE 1 \notin nonempty /\ 2 \notin nonempty
    <3>1. nonempty = {3}
      BY <1>4, <1>5, <2>3
    <3> QED
      BY <3>1
  <2> QED
    BY <2>1, <2>2, <2>3
<1>7. first \in nonempty /\ \A m \in nonempty : first <= m
  BY <1>6
<1>8. \A i \in ItemsOf(k) : TextOf(i) \in {3, 4} => TextOf(i) \in rungs[first]
  <2> SUFFICES ASSUME NEW i \in ItemsOf(k), TextOf(i) \in {3, 4}
               PROVE  TextOf(i) \in rungs[first]
    OBVIOUS
  <2>1. i \in Matching(k, rungs[1])
    BY <1>2 DEF Matching
  <2>2. 1 \in nonempty
    BY <1>2, <2>1
  <2>3. first = 1
    <3> HIDE DEF nonempty, first
    <3> QED
      BY <1>5, <1>7, <2>2
  <2> QED
    BY <1>2, <2>3
<1>9. rungs[first] \in {{3, 4}, {2, 3, 4}, {1}}
  BY <1>2, <1>7
<1>10. answer \in {HitsOf(Cut(s, Window)) : s \in ByScore(Matching(k, rungs[first]))}
  BY <1>3, <1>4
<1>11. PICK rung : rung = rungs[first]
  OBVIOUS
<1> HIDE DEF first
<1>12. rung \in {{3, 4}, {2, 3, 4}, {1}}
  BY <1>9, <1>11
<1>13. answer \in {HitsOf(Cut(s, Window)) : s \in ByScore(Matching(k, rung))}
  BY <1>10, <1>11
<1>14. \A i \in ItemsOf(k) : TextOf(i) \in {3, 4} => TextOf(i) \in rung
  BY <1>8, <1>11
<1> QED
  BY <1>12, <1>13, <1>14

\* The rows and documents that could match.
Matchable(k) == {i \in ItemsOf(k) : TextOf(i) > 0}

\* What a scope gets: rows of its kind, each once, and, if no more match than
\* it asks for, every row that matches all the terms.
LEMMA AnswerFacts ==
  ASSUME TypeOK, NEW k, NEW answer \in Answers(k)
  PROVE  /\ answer \in Seq(Hit)
         /\ \A x \in DOMAIN answer : answer[x].item \in ItemsOf(k)
         /\ \A x, y \in DOMAIN answer : answer[x].item = answer[y].item => x = y
         /\ Cardinality(Matchable(k)) <= Window =>
               \A i \in ItemsOf(k) : TextOf(i) \in {3, 4} =>
                  \E x \in DOMAIN answer : answer[x].item = i /\ answer[x].score # 1
<1>0. backend \in {"strict", "natural", "index"}
  BY RequestAssumption DEF TypeOK
<1>1. CASE answer = << >> /\ \A i \in ItemsOf(k) : TextOf(i) \notin {3, 4}
  BY <1>1
<1>2. ASSUME NEW rung \in {{3, 4}, {2, 3, 4}, {1}},
             \A i \in ItemsOf(k) : TextOf(i) \in {3, 4} => TextOf(i) \in rung,
             NEW s \in ByScore(Matching(k, rung)), answer = HitsOf(Cut(s, Window))
      PROVE  /\ answer \in Seq(Hit)
             /\ \A x \in DOMAIN answer : answer[x].item \in ItemsOf(k)
             /\ \A x, y \in DOMAIN answer : answer[x].item = answer[y].item => x = y
             /\ Cardinality(Matchable(k)) <= Window =>
                   \A i \in ItemsOf(k) : TextOf(i) \in {3, 4} =>
                      \E x \in DOMAIN answer : answer[x].item = i /\ answer[x].score # 1
  <2> DEFINE M == Matching(k, rung)
             c == Cut(s, Window)
  <2>1. M \subseteq ItemsOf(k) /\ M \subseteq Items /\ IsFiniteSet(M)
    BY ItemFacts, FS_Subset DEF Matching
  <2>2. s \in SetToSeqs(M)
    BY <1>2 DEF ByScore
  <2>3. /\ s \in Seq(M) /\ Len(s) = Cardinality(M) /\ DOMAIN s = 1..Len(s)
        /\ \A x \in DOMAIN s : s[x] \in M
        /\ \A x, y \in DOMAIN s : s[x] = s[y] => x = y
        /\ \A e \in M : \E x \in DOMAIN s : s[x] = e
    BY <2>1, <2>2, Ordering
  <2>4. Window \in Nat
    BY SearchBoundAssumption DEF Window
  <2>5. /\ c \in Seq(M) /\ DOMAIN c = 1..Len(c)
        /\ Len(c) = IF Len(s) < Window THEN Len(s) ELSE Window
        /\ \A x \in DOMAIN c : x \in DOMAIN s /\ c[x] = s[x]
    <3> HIDE DEF M
    <3> QED
      BY <2>3, <2>4, CutFacts
  <2>6. \A x, y \in DOMAIN s : x < y => TextOf(s[x]) >= TextOf(s[y])
    BY <1>2 DEF ByScore
  <2>7. \A i \in M : TextOf(i) \in rung /\ TextOf(i) \in 1..4
    BY <1>2 DEF Matching
  <2> HIDE DEF M, c
  <2>8. DOMAIN answer = DOMAIN c /\ \A x \in DOMAIN c :
           /\ answer[x].item = c[x] /\ answer[x].score = TextOf(c[x])
           /\ answer[x] = [item |-> c[x], score |-> TextOf(c[x]),
                           relevance |-> Relevance(TextOf(c[x]), TextOf(c[Len(c)]),
                                                   TextOf(c[1]))]
    BY <1>2 DEF HitsOf, c
  <2>9. ASSUME NEW x \in DOMAIN c PROVE answer[x] \in Hit
    <3>1. 1 \in DOMAIN c /\ Len(c) \in DOMAIN c /\ 1 <= x /\ x <= Len(c)
      BY <2>5, <2>9
    <3>2. /\ TextOf(c[x]) \in 1..4 /\ TextOf(c[1]) \in 1..4 /\ TextOf(c[Len(c)]) \in 1..4
          /\ c[x] \in Items
      BY <2>1, <2>3, <2>5, <2>7, <3>1
    <3>3. TextOf(c[Len(c)]) <= TextOf(c[x]) /\ TextOf(c[x]) <= TextOf(c[1])
      <4>1. x < Len(c) => TextOf(c[x]) >= TextOf(c[Len(c)])
        BY <2>5, <2>6, <3>1
      <4>2. 1 < x => TextOf(c[1]) >= TextOf(c[x])
        BY <2>5, <2>6, <3>1
      <4>3. x = Len(c) \/ x < Len(c)
        BY <2>5, <3>1
      <4>4. x = 1 \/ 1 < x
        BY <2>5, <3>1
      <4> QED
        BY <3>2, <4>1, <4>2, <4>3, <4>4
    <3>4. Relevance(TextOf(c[x]), TextOf(c[Len(c)]), TextOf(c[1])) \in 0..1000
      BY ZenonT(60), <3>2, <3>3, RelevanceType
    <3>5. \A i \in Items, t \in 1..4, r \in 0..1000 :
             [item |-> i, score |-> t, relevance |-> r] \in Hit
      BY DEF Hit
    <3> DEFINE r == Relevance(TextOf(c[x]), TextOf(c[Len(c)]), TextOf(c[1]))
               t == TextOf(c[x])
    <3>6. answer[x] = [item |-> c[x], score |-> t, relevance |-> r]
      BY <2>8
    <3>7. r \in 0..1000 /\ t \in 1..4 /\ c[x] \in Items
      BY <3>2, <3>4
    <3> HIDE DEF r, t
    <3>8. [item |-> c[x], score |-> t, relevance |-> r] \in Hit
      BY ZenonT(60), <3>5, <3>7
    <3> QED
      BY <3>6, <3>8, Zenon
  <2>10. answer \in Seq(Hit)
    <3>1. answer = [x \in DOMAIN c |-> answer[x]]
      BY <1>2 DEF HitsOf, c
    <3>2. Len(c) \in Nat
      BY <2>5
    <3>3. answer \in [1..Len(c) -> Hit]
      BY <2>5, <2>9, <3>1
    <3> QED
      BY <3>2, <3>3
  <2>11. ASSUME NEW x \in DOMAIN answer PROVE answer[x].item \in ItemsOf(k)
    <3>1. x \in DOMAIN c /\ answer[x].item = c[x]
      BY <2>8, <2>11
    <3>2. x \in DOMAIN s /\ c[x] = s[x]
      BY <2>5, <3>1
    <3> QED
      BY <2>1, <2>3, <3>1, <3>2
  <2>12. ASSUME NEW x \in DOMAIN answer, NEW y \in DOMAIN answer,
                answer[x].item = answer[y].item
         PROVE  x = y
    <3>1. x \in DOMAIN c /\ y \in DOMAIN c
      BY <2>8
    <3>2. c[x] = c[y]
      BY <2>8, <2>12, <3>1
    <3>3. x \in DOMAIN s /\ y \in DOMAIN s /\ s[x] = s[y]
      BY <2>5, <3>1, <3>2
    <3> QED
      BY <2>3, <3>3
  <2>13. ASSUME Cardinality(Matchable(k)) <= Window,
                NEW i \in ItemsOf(k), TextOf(i) \in {3, 4}
         PROVE  \E x \in DOMAIN answer : answer[x].item = i /\ answer[x].score # 1
    <3> DEFINE T == Matchable(k)
    <3>1. T \subseteq Items /\ IsFiniteSet(T) /\ M \subseteq T
      BY <2>1, <2>7, ItemFacts, FS_Subset DEF Matchable
    <3>2. Cardinality(M) <= Cardinality(T) /\ Cardinality(M) \in Nat /\ Cardinality(T) \in Nat
      BY <3>1, FS_Subset, FS_CardinalityType
    <3>3. Len(s) <= Window /\ Len(s) \in Nat
      BY <2>3, <2>4, <2>13, <3>2
    <3>4. DOMAIN c = DOMAIN s
      BY <2>3, <2>4, <2>5, <3>3
    <3>5. i \in M
      BY <1>2, <2>13 DEF M, Matching
    <3>6. PICK x \in DOMAIN s : s[x] = i
      BY <2>3, <3>5
    <3>7. x \in DOMAIN c /\ c[x] = i
      BY <2>5, <3>4, <3>6
    <3>8. x \in DOMAIN answer /\ answer[x].item = i /\ answer[x].score = TextOf(i)
      BY <2>8, <3>7
    <3> QED
      BY <2>13, <3>8
  <2> QED
    BY <2>10, <2>11, <2>12, <2>13
<1>3. CASE \E rung \in {{3, 4}, {2, 3, 4}, {1}} :
               /\ answer \in {HitsOf(Cut(s, Window)) : s \in ByScore(Matching(k, rung))}
               /\ \A i \in ItemsOf(k) : TextOf(i) \in {3, 4} => TextOf(i) \in rung
  <2>1. PICK rung \in {{3, 4}, {2, 3, 4}, {1}} :
               /\ answer \in {HitsOf(Cut(s, Window)) : s \in ByScore(Matching(k, rung))}
               /\ \A i \in ItemsOf(k) : TextOf(i) \in {3, 4} => TextOf(i) \in rung
    BY <1>3
  <2>2. PICK s \in ByScore(Matching(k, rung)) : answer = HitsOf(Cut(s, Window))
    BY <2>1
  <2> QED
    BY <1>2, <2>1, <2>2
<1> QED
  BY <1>0, <1>1, <1>3, RungFacts

----------------------------------------------------------------------------
(* The composite of a hit, and the ranking.                                *)

LEMMA SaturateBound ==
  ASSUME NEW x \in Nat, NEW k \in {3, 10}
  PROVE  Saturate(x, k) \in 0..1000
<1>1. \A y \in Nat : 0 <= (1000 * y) \div (y + 3) /\ (1000 * y) \div (y + 3) <= 1000
                     /\ (1000 * y) \div (y + 3) \in Int
  OBVIOUS
<1>2. \A y \in Nat : 0 <= (1000 * y) \div (y + 10) /\ (1000 * y) \div (y + 10) <= 1000
                     /\ (1000 * y) \div (y + 10) \in Int
  OBVIOUS
<1> QED
  BY <1>1, <1>2 DEF Saturate

LEMMA TanhBound ==
  ASSUME NEW n \in Int
  PROVE  Tanh(n) \in -999..999 /\ (n >= 0 => Tanh(n) >= 0)
<1> DEFINE steps == <<462, 762, 905, 964, 987, 995, 998>>
           of(m) == IF m = 0 THEN 0 ELSE IF m > 7 THEN 999 ELSE steps[m]
<1>1. \A m \in 1..7 : steps[m] \in 0..999
  OBVIOUS
<1>2. \A m \in Nat : of(m) \in 0..999
  <2> HIDE DEF steps
  <2> QED
    BY <1>1
<1>3. Tanh(n) = IF n < 0 THEN -of(-n) ELSE of(n)
  BY DEF Tanh
<1> HIDE DEF of
<1>4. CASE n < 0
  <2>1. -n \in Nat /\ of(-n) \in 0..999
    BY SMTT(30), <1>2, <1>4
  <2> QED
    BY <1>3, <1>4, <2>1
<1>5. CASE n >= 0
  <2>1. n \in Nat /\ of(n) \in 0..999
    BY SMTT(30), <1>2, <1>5
  <2> QED
    BY <1>3, <1>5, <2>1
<1> QED
  BY <1>4, <1>5

\* A best match that nothing speaks against outweighs an unpinned worst one.
LEMMA CompositeBound ==
  ASSUME hits \in [Items -> Nat], NEW i \in Items, NEW row \in Row, NEW relevance \in 0..1000
  PROVE  /\ Composite(i, row, relevance) \in Int
         /\ relevance = 1000 /\ ~Traits[i].expired /\ row.net >= 0 =>
               Composite(i, row, relevance) >= 2000
         /\ relevance = 0 /\ ~Traits[i].pinned => Composite(i, row, relevance) < 2000
<1> DEFINE a == PinnedOnly(i, relevance)
           b == Saturate(hits[i], 10)
           c == Saturate(Traits[i].reinforced, 3)
           d == Tanh(row.net)
           e == Bonus(Traits[i].fresh, 300)
           f == IF KindOf[i] = "rule"
                THEN 250 * Traits[i].importance + Bonus(Traits[i].universal, 100)
                ELSE 0
<1>1. /\ Traits[i].reinforced \in Nat /\ Traits[i].importance \in 0..2
      /\ Traits[i].pinned \in BOOLEAN /\ Traits[i].fresh \in BOOLEAN
      /\ Traits[i].universal \in BOOLEAN /\ Traits[i].expired \in BOOLEAN
  BY TraitAssumption
<1>2. a \in Nat /\ (relevance = 1000 => a >= 2000) /\ (relevance = 0 /\ ~Traits[i].pinned => a = 0)
  BY <1>1 DEF PinnedOnly, Bonus
<1>3. b \in 0..1000 /\ c \in 0..1000
  <2>1. hits[i] \in Nat
    OBVIOUS
  <2>2. 10 \in {3, 10} /\ 3 \in {3, 10}
    OBVIOUS
  <2>3. Saturate(hits[i], 10) \in 0..1000
    BY SMTT(30), <2>1, <2>2, SaturateBound
  <2>4. Saturate(Traits[i].reinforced, 3) \in 0..1000
    BY SMTT(30), <1>1, <2>2, SaturateBound
  <2> QED
    BY ZenonT(60), <2>3, <2>4
<1>4. row.net \in Int /\ d \in -999..999 /\ (row.net >= 0 => d >= 0)
  <2>1. row.net \in Int
    BY DEF Row
  <2>2. Tanh(row.net) \in -999..999 /\ (row.net >= 0 => Tanh(row.net) >= 0)
    BY ZenonT(60), <2>1, TanhBound
  <2> QED
    BY <2>1, <2>2
<1>5. e \in 0..300 /\ f \in 0..600
  BY SMTT(30), <1>1 DEF Bonus
<1>6. Compose(i, row, relevance) = a + b \div 10 + (3 * c) \div 10 + d \div 2 + e + f
  BY DEF Compose
<1> DEFINE z == Compose(i, row, relevance)
<1>7. Composite(i, row, relevance) = IF KindOf[i] = "negative" THEN a
                                     ELSE IF Traits[i].expired THEN z \div 10 ELSE z
  BY DEF Composite
<1>8. z = a + b \div 10 + (3 * c) \div 10 + d \div 2 + e + f
  BY <1>6
<1> HIDE DEF a, b, c, d, e, f, z
<1>9. /\ b \div 10 \in 0..100 /\ (3 * c) \div 10 \in 0..300
      /\ d \div 2 \in -500..499 /\ (d >= 0 => d \div 2 >= 0)
  <2>1. ASSUME NEW x \in 0..1000
        PROVE  x \div 10 \in 0..100 /\ (3 * x) \div 10 \in 0..300
    OBVIOUS
  <2>2. ASSUME NEW x \in -999..999
        PROVE  x \div 2 \in -500..499 /\ (x >= 0 => x \div 2 >= 0)
    OBVIOUS
  <2>3. b \div 10 \in 0..100
    BY <1>3, SMTT(30)
  <2>4. (3 * c) \div 10 \in 0..300
    BY <1>3, SMTT(30)
  <2>5. d \div 2 \in -500..499 /\ (d >= 0 => d \div 2 >= 0)
    BY <1>4, SMTT(30)
  <2> QED
    BY <2>3, <2>4, <2>5
<1>10. /\ z \in Int
       /\ relevance = 1000 /\ row.net >= 0 => z >= 2000
       /\ relevance = 0 /\ ~Traits[i].pinned => z < 2000
  <2>1. /\ a \in Nat /\ b \div 10 \in Nat /\ (3 * c) \div 10 \in Nat /\ e \in Nat /\ f \in Nat
        /\ d \div 2 \in Int /\ b \div 10 <= 100 /\ (3 * c) \div 10 <= 300
        /\ d \div 2 <= 499 /\ e <= 300 /\ f <= 600
    BY SMTT(30), <1>2, <1>5, <1>9
  <2> DEFINE bb == b \div 10
             cc == (3 * c) \div 10
             dd == d \div 2
  <2>2. z = a + bb + cc + dd + e + f
    BY <1>8
  <2>3. row.net >= 0 => dd >= 0
    BY <1>4, <1>9
  <2> HIDE DEF bb, cc, dd
  <2>4. /\ a \in Nat /\ bb \in Nat /\ cc \in Nat /\ e \in Nat /\ f \in Nat /\ dd \in Int
        /\ bb <= 100 /\ cc <= 300 /\ dd <= 499 /\ e <= 300 /\ f <= 600
    BY <2>1 DEF bb, cc, dd
  <2> QED
    BY <1>2, <2>2, <2>3, <2>4
<1>11. z \div 10 \in Int /\ (z < 2000 => z \div 10 < 2000)
  BY <1>10
<1> QED
  BY <1>2, <1>7, <1>10, <1>11

\* What a scope shows of the hits that remain.
LEMMA RankedFacts ==
  ASSUME NEW s \in Seq(Scored), NEW shown \in Ranked(s)
  PROVE  /\ shown \in Seq(Items)
         /\ \A i \in Range(shown) : \E x \in DOMAIN s : s[x].item = i
         /\ Len(shown) < Limit => \A x \in DOMAIN s : s[x].item \in Range(shown)
         /\ (\A x, y \in DOMAIN s : s[x].item = s[y].item => x = y) =>
               \A x, y \in DOMAIN s :
                  s[x].composite > s[y].composite /\ s[y].item \in Range(shown)
                     => s[x].item \in Range(shown)
<1>1. PICK q \in Sorted(s) : shown = Cut([x \in DOMAIN q |-> s[q[x]].item], Limit)
  BY DEF Ranked
<1>2. /\ q \in SetToSeqs(DOMAIN s)
      /\ \A x, y \in DOMAIN q : x < y => Before(s, q[x], q[y])
  BY <1>1 DEF Sorted
<1>3. DOMAIN s = 1..Len(s) /\ Len(s) \in Nat /\ IsFiniteSet(DOMAIN s) /\ Cardinality(DOMAIN s) = Len(s)
  <2>1. DOMAIN s = 1..Len(s) /\ Len(s) \in Nat
    OBVIOUS
  <2>2. IsFiniteSet(1..Len(s)) /\ Cardinality(1..Len(s)) = Len(s)
    BY <2>1, FS_Interval
  <2> QED
    BY <2>1, <2>2
<1>4. /\ Len(q) = Len(s) /\ DOMAIN q = 1..Len(s)
      /\ \A x \in DOMAIN q : q[x] \in DOMAIN s
      /\ \A e \in DOMAIN s : \E x \in DOMAIN q : q[x] = e
  BY <1>2, <1>3, Ordering
<1> DEFINE items == [x \in DOMAIN q |-> s[q[x]].item]
<1>5. \A x \in DOMAIN s : s[x].item \in Items /\ s[x].composite \in Int
  <2>1. \A x \in DOMAIN s : s[x] \in Scored
    OBVIOUS
  <2> QED
    BY <2>1 DEF Scored
<1>6. items \in Seq(Items) /\ Len(items) = Len(s) /\ DOMAIN items = 1..Len(s)
  <2>1. items \in [1..Len(s) -> Items]
    BY <1>4, <1>5
  <2> HIDE DEF items
  <2> QED
    BY <1>3, <2>1
<1>7. Limit \in Nat
  BY SearchBoundAssumption
<1> HIDE DEF items
<1>8. /\ shown \in Seq(Items) /\ DOMAIN shown = 1..Len(shown)
      /\ Len(shown) = IF Len(items) < Limit THEN Len(items) ELSE Limit
      /\ \A x \in DOMAIN shown : x \in DOMAIN items /\ shown[x] = items[x]
  BY <1>1, <1>6, <1>7, CutFacts DEF items
<1>8a. Len(shown) \in Nat /\ Len(shown) = IF Len(s) < Limit THEN Len(s) ELSE Limit
  BY <1>3, <1>6, <1>7, <1>8
<1>9. \A x \in DOMAIN shown : q[x] \in DOMAIN s /\ shown[x] = s[q[x]].item
  BY <1>4, <1>6, <1>8 DEF items
<1>10. \A i \in Range(shown) : \E x \in DOMAIN s : s[x].item = i
  BY <1>9 DEF Range
<1>11. ASSUME Len(shown) < Limit, NEW x \in DOMAIN s PROVE s[x].item \in Range(shown)
  <2>1. Len(shown) = Len(s)
    <3>1. Len(s) \in Nat /\ Len(shown) < Limit
      BY <1>3, <1>11
    <3> QED
      BY <1>7, <1>8a, <3>1
  <2>2. PICK y \in DOMAIN q : q[y] = x
    BY <1>4
  <2>3. y \in DOMAIN shown /\ shown[y] = s[x].item
    BY <1>4, <1>8, <1>9, <2>1, <2>2
  <2> QED
    BY <2>3 DEF Range
<1>12. ASSUME \A x, y \in DOMAIN s : s[x].item = s[y].item => x = y,
              NEW x \in DOMAIN s, NEW y \in DOMAIN s,
              s[x].composite > s[y].composite, s[y].item \in Range(shown)
       PROVE  s[x].item \in Range(shown)
  <2>1. PICK n \in DOMAIN shown : shown[n] = s[y].item
    BY <1>12 DEF Range
  <2>2. q[n] = y
    BY <1>9, <1>12, <2>1
  <2>3. PICK m \in DOMAIN q : q[m] = x
    BY <1>4
  <2>4. n \in DOMAIN q
    BY <1>4, <1>6, <1>8
  <2>5. ~(n < m)
    BY <1>2, <1>5, <1>12, <2>2, <2>3, <2>4 DEF Before
  <2>6. m \in DOMAIN shown
    <3>1. m \in Nat /\ n \in Nat /\ 1 <= m /\ m <= n /\ n <= Len(shown)
      <4>1. m \in 1..Len(s) /\ n \in 1..Len(s) /\ Len(s) \in Nat
        BY <1>3, <1>4, <2>3, <2>4
      <4>2. n \in 1..Len(shown)
        BY <1>8, <2>1
      <4>3. ~(n < m)
        BY <2>5
      <4> QED
        BY <1>8a, <4>1, <4>2, <4>3
    <3> QED
      BY <1>8, <1>8a, <3>1
  <2>7. shown[m] = s[x].item
    BY <1>9, <2>3, <2>6
  <2> QED
    BY <2>6, <2>7 DEF Range
<1> QED
  BY <1>8, <1>10, <1>11, <1>12

LEMMA NeighbourFacts ==
  ASSUME NEW shown \in Seq(Items), NEW s \in Neighbours(shown)
  PROVE  s \in Seq(Items)
<1>1. PICK t \in SetToSeqs(Around(shown)) : s = Cut(t, Limit)
  BY DEF Neighbours
<1>2. Around(shown) \subseteq Items /\ IsFiniteSet(Around(shown))
  <2>1. Around(shown) \subseteq Items
    BY DEF Around, Linked
  <2> QED
    BY <2>1, ItemFacts, FS_Subset
<1>3. t \in Seq(Around(shown))
  BY <1>1, <1>2, Ordering
<1>4. t \in Seq(Items)
  BY <1>2, <1>3
<1> QED
  BY <1>1, <1>4, CutFacts, SearchBoundAssumption

----------------------------------------------------------------------------
(* Every step keeps the types.                                             *)

LEMMA RowTypes ==
  /\ Unborn \in Row /\ Deleted \in Row
  /\ \A t \in WriteTexts : NewRow(t) \in Row
  /\ \A row \in Row, t \in WriteTexts : [row EXCEPT !.text = t] \in Row
  /\ \A row \in Row, s \in Status : [row EXCEPT !.status = s] \in Row
  /\ \A row \in Row, n \in Int : [row EXCEPT !.net = @ + n] \in Row
<1>1. \A row \in Row, n \in Int : [row EXCEPT !.net = @ + n] \in Row
  <2>1. ASSUME NEW row \in Row, NEW n \in Int PROVE [row EXCEPT !.net = @ + n] \in Row
    <3>1. row.net + n \in Int
      BY DEF Row
    <3> DEFINE m == row.net + n
    <3> HIDE DEF m
    <3>2. [row EXCEPT !.net = m] \in Row
      BY <3>1 DEF Row, m
    <3> QED
      BY <3>2 DEF m
  <2> QED
    BY <2>1
<1>2. \A row \in Row, t \in WriteTexts : [row EXCEPT !.text = t] \in Row
  BY SearchBoundAssumption DEF Row
<1>3. \A row \in Row, s \in Status : [row EXCEPT !.status = s] \in Row
  BY DEF Row
<1>4. \A t \in Texts : NewRow(t) \in Row
  BY DEF NewRow, Row, Status
<1>5. 0 \in Texts
  BY DEF Texts
<1>6. Unborn \in Row /\ Deleted \in Row
  <2>1. NewRow(0) \in Row
    BY <1>4, <1>5
  <2> QED
    BY <2>1 DEF Unborn, Deleted, Row
<1> QED
  BY <1>1, <1>2, <1>3, <1>4, <1>6, SearchBoundAssumption

LEMMA TypeInit == Init => TypeOK
<1> SUFFICES ASSUME Init PROVE TypeOK
  OBVIOUS
<1>1. rows \in [Items -> Row] /\ StoredLinks \subseteq ItemsOf("rule") \X ItemsOf("rule")
  BY StoredRowsAssumption DEF Init
<1>2. hits \in [Items -> Nat]
  BY TraitAssumption DEF Init
<1>3. docs \in [Items -> Texts \cup {None}] /\ exists \subseteq Kinds
  BY DEF Init
<1>4. (CHOOSE r \in Requests : TRUE) \in Requests
  BY RequestAssumption
<1>5. req \in [Pods -> Requests]
  BY <1>4 DEF Init
<1>6. since \in [Pods -> [Items -> SUBSET Row]]
  BY DEF Init
<1>7. /\ pc = [p \in Pods |-> "idle"]
      /\ scopes \in [Pods -> Seq(Kinds)] /\ todo \in [Pods -> SUBSET Kinds]
      /\ copying \in [Pods -> Kinds \cup {"none"}]
      /\ DOMAIN batch = Pods
  BY DEF Init
<1>8. /\ found \in [Pods -> Seq(Hit)] /\ scored \in [Pods -> Seq(Scored)]
      /\ top \in [Pods -> Seq(Items)] /\ uncounted \in [Pods -> Seq(Items)]
      /\ near \in [Pods -> Seq(Items)] /\ related \in [Pods -> Seq(Items)]
  BY DEF Init
<1>9. backend \in Backends /\ links = StoredLinks
  BY DEF Init
<1>10. outcome \in [Pods -> {"none", "answered", "failed"}] /\ crossed \in [Pods -> BOOLEAN]
  BY DEF Init
<1>11. writes \in 0..MaxWrites /\ searches \in 0..MaxSearches
  BY SearchBoundAssumption DEF Init
<1>12. pc \in [Pods -> Steps] /\ \A p \in Pods : pc[p] # "bulk"
  BY <1>7 DEF Steps
<1> QED
  BY <1>1, <1>2, <1>3, <1>5, <1>6, <1>7, <1>8, <1>9, <1>10, <1>11, <1>12 DEF TypeOK

\* What the writes beside the searches do, or a step in which nothing happens.
WriterShape ==
    /\ UNCHANGED <<backend, hits, index, pc, req, scopes, sync, block, outcome, crossed, searches>>
    /\ writes' \in 0..MaxWrites
    /\ links' \subseteq ItemsOf("rule") \X ItemsOf("rule")
    /\ \/ UNCHANGED <<rows, since>>
       \/ \E i \in Items, row \in Row : Write(i, row)

LEMMA WriterSteps ==
  ASSUME TypeOK, Writer
  PROVE  WriterShape
<1>1. UNCHANGED <<backend, hits, index, pc, req, scopes, sync, block, outcome, crossed, searches>>
  BY DEF Writer
<1>2. \A i \in Items : rows[i] \in Row
  BY DEF TypeOK
<1>3. links' \subseteq ItemsOf("rule") \X ItemsOf("rule")
  <2>1. links \subseteq ItemsOf("rule") \X ItemsOf("rule")
    BY DEF TypeOK
  <2>2. CASE Link
    <3>1. PICK i, j \in ItemsOf("rule") : links' = links \cup {<<i, j>>}
      BY <2>2 DEF Link
    <3> QED
      BY <2>1, <3>1
  <2>3. CASE ~Link
    BY <2>1, <2>3 DEF Writer, WriteRow, Retire, Delete, Report
  <2> QED
    BY <2>2, <2>3
<1> DEFINE Writing == \E i \in Items, row \in Row : Write(i, row)
<1>4. ASSUME WriteRow PROVE Writing
  <2>1. \E i \in Items, row \in Row : Write(i, row)
    BY <1>2, <1>4, RowTypes DEF WriteRow
  <2> QED
    BY <2>1
<1>5. ASSUME Retire PROVE Writing
  <2>1. \E i \in Items, row \in Row : Write(i, row)
    BY <1>2, <1>5, RowTypes DEF Retire
  <2> QED
    BY <2>1
<1>6. ASSUME Delete PROVE Writing
  <2>1. \E i \in Items, row \in Row : Write(i, row)
    BY <1>6, RowTypes DEF Delete
  <2> QED
    BY <2>1
<1>7. ASSUME Report PROVE Writing
  <2>1. PICK i \in ItemsOf("rule"), a \in Actors, passed \in BOOLEAN :
            Write(i, [rows[i] EXCEPT !.net = @ + Judged(i, a, passed)])
    BY <1>7 DEF Report
  <2>2. Judged(i, a, passed) \in Int
    <3>1. Weight[a] \in Nat
      BY TraitAssumption
    <3> QED
      BY <3>1 DEF Judged
  <2>3. i \in Items /\ rows[i] \in Row
    BY <1>2, ItemFacts
  <2>4. [rows[i] EXCEPT !.net = @ + Judged(i, a, passed)] \in Row
    BY <2>2, <2>3, RowTypes
  <2> QED
    BY <2>1, <2>3, <2>4
<1>8. Link => UNCHANGED <<rows, since>>
  BY DEF Link
<1>9. \/ UNCHANGED <<rows, since>>
      \/ \E i \in Items, row \in Row : Write(i, row)
  BY <1>4, <1>5, <1>6, <1>7, <1>8 DEF Writer
<1>10. writes' \in 0..MaxWrites
  <2>1. writes < MaxWrites /\ writes' = writes + 1
    BY DEF Writer, WriteRow, Retire, Delete, Report, Link, Write
  <2> QED
    BY <2>1, SearchBoundAssumption DEF TypeOK
<1> QED
  BY <1>1, <1>3, <1>9, <1>10 DEF WriterShape

Step(p) == Begin(p) \/ Search(p)

\* What a step of one process leaves to the others; when it writes the index,
\* the searches of the others remember that.
Frame(p) ==
    /\ UNCHANGED <<backend, rows, links>>
    /\ \A q \in Pods \ {p} :
          /\ pc'[q] = pc[q] /\ req'[q] = req[q] /\ scopes'[q] = scopes[q]
          /\ todo'[q] = todo[q] /\ copying'[q] = copying[q] /\ batch'[q] = batch[q]
          /\ found'[q] = found[q] /\ scored'[q] = scored[q] /\ top'[q] = top[q]
          /\ near'[q] = near[q] /\ related'[q] = related[q]
          /\ outcome'[q] = outcome[q] /\ since'[q] = since[q]
          /\ crossed[q] => crossed'[q]
          /\ ~crossed'[q] /\ pc[q] # "idle" => UNCHANGED <<docs, exists>>

LEMMA FrameStep ==
  ASSUME TypeOK, NEW p \in Pods, Step(p)
  PROVE  Frame(p)
<1> USE DEF Frame, Goto, store, index, block, sync
<1>1. CASE Begin(p)
  BY <1>1 DEF Begin, TypeOK, BeginScope
<1>2. CASE SyncKind(p)
  BY <1>2 DEF SyncKind, TypeOK, ReadRows
<1>3. CASE CreateIndex(p)
  <2>0. /\ UNCHANGED <<backend, store, docs, req, scopes, todo, copying, found, near>>
        /\ \/ Fail(p) /\ UNCHANGED <<exists, batch, crossed>>
           \/ /\ Cross(p) /\ ReadRows(p, copying[p]) /\ Goto(p, "bulk")
              /\ UNCHANGED <<outcome, since, scored, top, related>>
    BY <1>3 DEF CreateIndex
  <2>1. CASE Fail(p) /\ UNCHANGED <<exists, batch, crossed>>
    BY <2>0, <2>1 DEF Fail, Forget, TypeOK
  <2>2. CASE /\ Cross(p) /\ ReadRows(p, copying[p]) /\ Goto(p, "bulk")
             /\ UNCHANGED <<outcome, since, scored, top, related>>
    BY <2>0, <2>2 DEF Cross, ReadRows, TypeOK
  <2> QED
    BY <2>0, <2>1, <2>2
<1>4. CASE Bulk(p)
  BY <1>4 DEF Bulk, TypeOK, Cross
<1>5. CASE Query(p)
  BY <1>5 DEF Query, TypeOK
<1>6. CASE QueryFails(p)
  BY <1>6 DEF QueryFails, TypeOK
<1>7. CASE FormatHit(p)
  BY <1>7 DEF FormatHit, TypeOK
<1>8. CASE Rank(p)
  BY <1>8 DEF Rank, TypeOK
<1>9. CASE CountHit(p)
  BY <1>9 DEF CountHit, TypeOK
<1>10. CASE CountFails(p)
  BY <1>10 DEF CountFails, TypeOK
<1>11. CASE Spread(p)
  BY <1>11 DEF Spread, TypeOK
<1>12. CASE Relate(p)
  BY <1>12 DEF Relate, TypeOK
<1>13. CASE NextScope(p)
  BY <1>13 DEF NextScope, TypeOK, BeginScope, Forget
<1> HIDE DEF Frame
<1> QED
  BY <1>1, <1>2, <1>3, <1>4, <1>5, <1>6, <1>7, <1>8, <1>9, <1>10, <1>11, <1>12, <1>13, Zenon DEF Step, Search

LEMMA TypeStep ==
  ASSUME TypeOK, NEW p \in Pods, Step(p), FlowOK(p)
  PROVE  TypeOK'
<1> USE DEF Goto, store, index, block, sync
<1>0. pc[p] # "idle" => scopes[p] \in Seq(Kinds) \ {<< >>}
  BY DEF FlowOK, TypeOK
<1>1. CASE Begin(p)
  <2>1. PICK r \in Requests : req' = [req EXCEPT ![p] = r] /\ scopes' = [scopes EXCEPT ![p] = r.scopes]
    BY <1>1 DEF Begin
  <2>2. req' \in [Pods -> Requests] /\ scopes' \in [Pods -> Seq(Kinds)]
    BY <2>1, RequestAssumption DEF TypeOK
  <2>3. pc' \in [Pods -> Steps] /\ \A q \in Pods : pc'[q] = "bulk" => pc[q] = "bulk"
    BY <1>1 DEF Begin, BeginScope, TypeOK, Steps
  <2>4. todo' \in [Pods -> SUBSET Kinds]
    BY <1>1 DEF Begin, BeginScope, TypeOK
  <2>5. since' \in [Pods -> [Items -> SUBSET Row]]
    <3>1. [i \in Items |-> {rows[i]}] \in [Items -> SUBSET Row]
      BY DEF TypeOK
    <3>2. since' = [since EXCEPT ![p] = [i \in Items |-> {rows[i]}]]
      BY <1>1 DEF Begin
    <3> QED
      BY <3>1, <3>2 DEF TypeOK
  <2>6. /\ outcome' \in [Pods -> {"none", "answered", "failed"}] /\ crossed' \in [Pods -> BOOLEAN]
        /\ searches' \in 0..MaxSearches
    BY <1>1, SearchBoundAssumption DEF Begin, TypeOK
  <2>7. UNCHANGED <<backend, store, index, copying, batch, block, writes>>
    BY <1>1 DEF Begin
  <2> QED
    BY <2>2, <2>3, <2>4, <2>5, <2>6, <2>7 DEF TypeOK
<1>2. CASE SyncKind(p)
  <2>1. PICK k \in todo[p] :
           /\ todo' = [todo EXCEPT ![p] = @ \ {k}]
           /\ copying' = [copying EXCEPT ![p] = k]
           /\ \/ ReadRows(p, k) /\ Goto(p, "bulk")
              \/ Goto(p, "create") /\ UNCHANGED batch
    BY <1>2 DEF SyncKind
  <2>2. k \in Kinds /\ todo' \in [Pods -> SUBSET Kinds]
        /\ copying' \in [Pods -> Kinds \cup {"none"}]
    BY <2>1 DEF TypeOK
  <2>3. pc' \in [Pods -> Steps]
    BY <2>1 DEF TypeOK, Steps
  <2>4. [i \in ItemsOf(k) |-> rows[i]] \in [ItemsOf(k) -> Row]
    BY ItemFacts DEF TypeOK
  <2>5. DOMAIN batch' = Pods
    BY <2>1 DEF TypeOK, ReadRows
  <2>6. \A q \in Pods : pc'[q] = "bulk" => batch'[q] \in [ItemsOf(copying'[q]) -> Row]
    BY <2>1, <2>4 DEF TypeOK, ReadRows
  <2>7. UNCHANGED <<backend, store, index, req, scopes, block, outcome, since, crossed,
                    writes, searches>>
    BY <1>2 DEF SyncKind
  <2> QED
    BY <2>2, <2>3, <2>5, <2>6, <2>7 DEF TypeOK
<1>3. CASE CreateIndex(p)
  <2>1. UNCHANGED <<backend, store, docs, req, scopes, todo, copying, found, uncounted, near,
                    writes, searches>>
    BY <1>3 DEF CreateIndex
  <2>2. CASE Fail(p) /\ UNCHANGED <<exists, batch, crossed>>
    <3>1. /\ pc' \in [Pods -> Steps] /\ outcome' \in [Pods -> {"none", "answered", "failed"}]
          /\ \A q \in Pods : pc'[q] = "bulk" => pc[q] = "bulk"
      BY <2>2 DEF Fail, TypeOK, Steps
    <3>2. since' \in [Pods -> [Items -> SUBSET Row]]
      BY <2>2 DEF Fail, Forget, TypeOK
    <3>3. /\ scored' \in [Pods -> Seq(Scored)] /\ top' \in [Pods -> Seq(Items)]
          /\ related' \in [Pods -> Seq(Items)]
      BY <2>2 DEF Fail, Forget, TypeOK
    <3> QED
      BY <2>1, <2>2, <3>1, <3>2, <3>3 DEF TypeOK
  <2>3. CASE /\ exists' = exists \cup {copying[p]} /\ copying[p] \notin exists
             /\ Cross(p) /\ ReadRows(p, copying[p]) /\ Goto(p, "bulk")
             /\ UNCHANGED <<outcome, since, scored, top, related>>
    <3>1. copying[p] \in Kinds
      BY <1>3 DEF CreateIndex, At, FlowOK
    <3>2. pc' \in [Pods -> Steps] /\ crossed' \in [Pods -> BOOLEAN] /\ exists' \subseteq Kinds
      BY <2>3, <3>1 DEF TypeOK, Steps, Cross
    <3>3. [i \in ItemsOf(copying[p]) |-> rows[i]] \in [ItemsOf(copying[p]) -> Row]
      BY ItemFacts DEF TypeOK
    <3>4. DOMAIN batch' = Pods
      BY <2>3, <3>1, <3>3 DEF TypeOK, ReadRows
    <3>5. \A q \in Pods : pc'[q] = "bulk" => batch'[q] \in [ItemsOf(copying'[q]) -> Row]
      BY <2>1, <2>3, <3>3 DEF TypeOK, ReadRows
    <3> QED
      BY <2>1, <2>3, <3>2, <3>4, <3>5 DEF TypeOK
  <2> QED
    BY <1>3, <2>2, <2>3 DEF CreateIndex
<1>4. CASE Bulk(p)
  <2>1. /\ pc' \in [Pods -> Steps] /\ \A q \in Pods : pc'[q] = "bulk" => pc[q] = "bulk" /\ q # p
    BY <1>4 DEF Bulk, TypeOK, Steps
  <2>2. crossed' \in [Pods -> BOOLEAN] /\ copying' \in [Pods -> Kinds \cup {"none"}]
    BY <1>4 DEF Bulk, Cross, TypeOK
  <2>3. DOMAIN batch' = Pods
    BY <1>4 DEF Bulk, TypeOK
  <2>4. \A q \in Pods : pc'[q] = "bulk" => batch'[q] \in [ItemsOf(copying'[q]) -> Row]
    BY <1>4, <2>1 DEF Bulk, TypeOK
  <2>5. docs' \in [Items -> Texts \cup {None}]
    <3>1. batch[p] \in [ItemsOf(copying[p]) -> Row]
      BY <1>4 DEF Bulk, At, TypeOK
    <3>2. \A i \in Items : i \in DOMAIN batch[p] => batch[p][i] \in Row
      BY <3>1
    <3>3. \A i \in Items : i \in DOMAIN batch[p] => Upsert(batch[p], i) \in Texts \cup {None}
      BY <3>2 DEF Upsert, TypeOK, Row
    <3>4. \A i \in Items : docs[i] \in Texts \cup {None}
      BY DEF TypeOK
    <3> QED
      BY <1>4, <3>3, <3>4 DEF Bulk
  <2>6. UNCHANGED <<backend, store, exists, req, scopes, todo, block, outcome, since,
                    writes, searches>>
    BY <1>4 DEF Bulk
  <2> QED
    BY <2>1, <2>2, <2>3, <2>4, <2>5, <2>6 DEF TypeOK
<1>5. CASE Query(p) \/ QueryFails(p)
  <2>1. pc' \in [Pods -> Steps] /\ \A q \in Pods : pc'[q] = "bulk" => pc[q] = "bulk"
    BY <1>5 DEF Query, QueryFails, TypeOK, Steps
  <2>2. found' \in [Pods -> Seq(Hit)]
    <3>1. << >> \in Seq(Hit)
      OBVIOUS
    <3>2. \A answer \in Answers(Head(scopes[p])) : answer \in Seq(Hit)
      BY AnswerFacts
    <3>3. \/ \E answer \in Answers(Head(scopes[p])) : found' = [found EXCEPT ![p] = answer]
          \/ found' = [found EXCEPT ![p] = << >>]
      BY <1>5 DEF Query, QueryFails
    <3>4. \E answer \in Seq(Hit) : found' = [found EXCEPT ![p] = answer]
      BY <3>1, <3>2, <3>3
    <3>5. found \in [Pods -> Seq(Hit)]
      BY DEF TypeOK
    <3> QED
      BY <3>4, <3>5
  <2>3. scored' \in [Pods -> Seq(Scored)]
    <3>1. scored \in [Pods -> Seq(Scored)] /\ << >> \in Seq(Scored)
      BY DEF TypeOK
    <3>2. scored' = [scored EXCEPT ![p] = << >>]
      BY <1>5 DEF Query, QueryFails
    <3> QED
      BY <3>1, <3>2
  <2>4. crossed' \in [Pods -> BOOLEAN]
    BY <1>5 DEF Query, QueryFails, TypeOK
  <2>5. UNCHANGED <<backend, store, index, req, scopes, sync, top, uncounted, near, related,
                    outcome, since, writes, searches>>
    BY <1>5 DEF Query, QueryFails
  <2> QED
    BY <2>1, <2>2, <2>3, <2>4, <2>5 DEF TypeOK
<1>6. CASE FormatHit(p)
  <2>1. found[p] \in Seq(Hit) /\ found[p] # << >>
    BY <1>6 DEF FormatHit, TypeOK
  <2>2. Head(found[p]) \in Hit /\ Tail(found[p]) \in Seq(Hit)
    BY <2>1
  <2>3. found' \in [Pods -> Seq(Hit)]
    BY <1>6, <2>2 DEF FormatHit, TypeOK
  <2> DEFINE h == Head(found[p])
             entry == [item |-> h.item, relevance |-> h.relevance,
                       composite |-> Composite(h.item, rows[h.item], h.relevance)]
  <2>4. h.item \in Items /\ h.relevance \in 0..1000
    BY ZenonT(60), <2>2 DEF Hit
  <2>5. Composite(h.item, rows[h.item], h.relevance) \in Int
    <3>1. hits \in [Items -> Nat] /\ rows[h.item] \in Row
      BY <2>4 DEF TypeOK
    <3> HIDE DEF h
    <3> QED
      BY SMTT(30), <2>4, <3>1, CompositeBound
  <2>6. entry \in Scored
    <3>1. \A c \in Int : [item |-> h.item, relevance |-> h.relevance, composite |-> c] \in Scored
      BY ZenonT(60), <2>4 DEF Scored
    <3> QED
      BY <2>5, <3>1
  <2>7. \/ scored' = scored
        \/ scored' = [scored EXCEPT ![p] = Append(@, entry)]
    BY <1>6 DEF FormatHit
  <2> HIDE DEF entry
  <2>8. scored' \in [Pods -> Seq(Scored)]
    <3>1. scored \in [Pods -> Seq(Scored)]
      BY DEF TypeOK
    <3>2. Append(scored[p], entry) \in Seq(Scored)
      BY <2>6, <3>1
    <3> QED
      BY <2>7, <3>1, <3>2
  <2>9. UNCHANGED <<backend, store, index, pc, req, scopes, sync, top, uncounted, near, related,
                    outcome, since, crossed, writes, searches>>
    BY <1>6 DEF FormatHit
  <2> QED
    BY <2>3, <2>8, <2>9 DEF TypeOK
<1>7. CASE Rank(p)
  <2>1. PICK shown \in Ranked(scored[p]) :
           /\ top' = [top EXCEPT ![p] = shown]
           /\ uncounted' = [uncounted EXCEPT ![p] =
                               IF TracksHits(Head(scopes[p])) THEN shown ELSE << >>]
    BY <1>7 DEF Rank
  <2>2. shown \in Seq(Items)
    BY RankedFacts DEF TypeOK
  <2>3. top' \in [Pods -> Seq(Items)] /\ uncounted' \in [Pods -> Seq(Items)]
    BY <2>1, <2>2 DEF TypeOK
  <2>4. /\ pc' \in [Pods -> Steps] /\ \A q \in Pods : pc'[q] = "bulk" => pc[q] = "bulk"
        /\ related' \in [Pods -> Seq(Items)]
    BY <1>7 DEF Rank, TypeOK, Steps
  <2>5. UNCHANGED <<backend, store, index, req, scopes, sync, found, scored, near, outcome,
                    since, crossed, writes, searches>>
    BY <1>7 DEF Rank
  <2> QED
    BY <2>3, <2>4, <2>5 DEF TypeOK
<1>8. CASE CountHit(p) \/ CountFails(p)
  <2>1. uncounted[p] \in Seq(Items) /\ uncounted[p] # << >>
    BY <1>8 DEF CountHit, CountFails, TypeOK
  <2>2. uncounted' \in [Pods -> Seq(Items)]
    <3>1. uncounted \in [Pods -> Seq(Items)] /\ Tail(uncounted[p]) \in Seq(Items)
      BY <2>1 DEF TypeOK
    <3>2. uncounted' = [uncounted EXCEPT ![p] = Tail(uncounted[p])]
      BY <1>8 DEF CountHit, CountFails
    <3> QED
      BY <3>1, <3>2
  <2>3. hits' \in [Items -> Nat]
    <3>1. hits' = hits \/ hits' = [hits EXCEPT ![Head(uncounted[p])] = @ + 1]
      BY <1>8 DEF CountHit, CountFails
    <3>2. Head(uncounted[p]) \in Items
      BY <2>1
    <3>3. hits \in [Items -> Nat] /\ hits[Head(uncounted[p])] + 1 \in Nat
      BY <3>2 DEF TypeOK
    <3> QED
      BY <3>1, <3>2, <3>3
  <2>4. UNCHANGED <<backend, rows, links, index, pc, req, scopes, sync, found, scored, top, near,
                    related, outcome, since, crossed, writes, searches>>
    BY <1>8 DEF CountHit, CountFails
  <2> QED
    BY <2>2, <2>3, <2>4 DEF TypeOK
<1>9. CASE Spread(p)
  <2>1. near' \in [Pods -> Seq(Items)]
    <3>1. PICK s \in (IF Head(scopes[p]) = "rule" THEN Neighbours(top[p]) ELSE {<< >>}) :
             near' = [near EXCEPT ![p] = s]
      BY <1>9 DEF Spread
    <3>2. \A t \in Neighbours(top[p]) : t \in Seq(Items)
      BY NeighbourFacts DEF TypeOK
    <3>3. s \in Seq(Items)
      <4>1. << >> \in Seq(Items)
        OBVIOUS
      <4> QED
        BY <3>2, <4>1
    <3> QED
      BY <3>1, <3>3 DEF TypeOK
  <2>2. pc' \in [Pods -> Steps] /\ \A q \in Pods : pc'[q] = "bulk" => pc[q] = "bulk"
    BY <1>9 DEF Spread, TypeOK, Steps
  <2>3. UNCHANGED <<backend, store, index, req, scopes, sync, found, scored, top, uncounted,
                    related, outcome, since, crossed, writes, searches>>
    BY <1>9 DEF Spread
  <2> QED
    BY <2>1, <2>2, <2>3 DEF TypeOK
<1>10. CASE Relate(p)
  <2>1. near[p] \in Seq(Items) /\ near[p] # << >>
    BY <1>10 DEF Relate, TypeOK
  <2>2. near' \in [Pods -> Seq(Items)]
    BY <1>10, <2>1 DEF Relate, TypeOK
  <2>3. Head(near[p]) \in Items
    BY <2>1
  <2>4. \/ related' = related
        \/ related' = [related EXCEPT ![p] = Append(@, Head(near[p]))]
    BY <1>10 DEF Relate
  <2>5. related' \in [Pods -> Seq(Items)]
    <3>1. related \in [Pods -> Seq(Items)]
      BY DEF TypeOK
    <3>2. Append(related[p], Head(near[p])) \in Seq(Items)
      BY <2>3, <3>1
    <3> QED
      BY <2>4, <3>1, <3>2
  <2>6. UNCHANGED <<backend, store, index, pc, req, scopes, sync, found, scored, top, uncounted,
                    outcome, since, crossed, writes, searches>>
    BY <1>10 DEF Relate
  <2> QED
    BY <2>2, <2>5, <2>6 DEF TypeOK
<1>11. CASE NextScope(p)
  <2>1. scopes' \in [Pods -> Seq(Kinds)]
    <3>1. Tail(scopes[p]) \in Seq(Kinds)
      BY <1>0, <1>11 DEF NextScope, At
    <3> QED
      BY <1>11, <3>1 DEF NextScope, TypeOK
  <2>2. pc' \in [Pods -> Steps] /\ \A q \in Pods : pc'[q] = "bulk" => pc[q] = "bulk"
    BY ZenonT(60), <1>11 DEF NextScope, BeginScope, TypeOK, Steps
  <2>3. todo' \in [Pods -> SUBSET Kinds]
    <3>1. todo \in [Pods -> SUBSET Kinds]
      BY DEF TypeOK
    <3>2. todo' = todo \/ todo' = [todo EXCEPT ![p] = IF backend = "index" THEN Kinds ELSE {}]
      BY <1>11 DEF NextScope, BeginScope
    <3> QED
      BY <3>1, <3>2
  <2>4. /\ crossed' \in [Pods -> BOOLEAN]
        /\ outcome' \in [Pods -> {"none", "answered", "failed"}]
    <3>1. crossed' = crossed \/ crossed' = [crossed EXCEPT ![p] = FALSE]
      BY <1>11 DEF NextScope
    <3>2. outcome' = outcome \/ outcome' = [outcome EXCEPT ![p] = "answered"]
      BY <1>11 DEF NextScope
    <3> QED
      BY <3>1, <3>2 DEF TypeOK
  <2>5. UNCHANGED <<since, scored, top, related>> \/ Forget(p)
    BY <1>11 DEF NextScope
  <2>7. since' \in [Pods -> [Items -> SUBSET Row]]
    <3>1. since \in [Pods -> [Items -> SUBSET Row]] /\ [i \in Items |-> {}] \in [Items -> SUBSET Row]
      BY DEF TypeOK
    <3>2. since' = since \/ since' = [since EXCEPT ![p] = [i \in Items |-> {}]]
      BY <2>5 DEF Forget
    <3> QED
      BY <3>1, <3>2
  <2>8. scored' \in [Pods -> Seq(Scored)]
    <3>1. scored \in [Pods -> Seq(Scored)] /\ << >> \in Seq(Scored)
      BY DEF TypeOK
    <3>2. scored' = scored \/ scored' = [scored EXCEPT ![p] = << >>]
      BY <2>5 DEF Forget
    <3> QED
      BY <3>1, <3>2
  <2>9. top' \in [Pods -> Seq(Items)] /\ related' \in [Pods -> Seq(Items)]
    <3>1. top \in [Pods -> Seq(Items)] /\ related \in [Pods -> Seq(Items)] /\ << >> \in Seq(Items)
      BY DEF TypeOK
    <3>2. /\ top' = top \/ top' = [top EXCEPT ![p] = << >>]
          /\ related' = related \/ related' = [related EXCEPT ![p] = << >>]
      BY <2>5 DEF Forget
    <3> QED
      BY <3>1, <3>2
  <2>6. UNCHANGED <<backend, store, index, req, copying, batch, found, uncounted, near,
                    writes, searches>>
    BY <1>11 DEF NextScope
  <2> QED
    BY <2>1, <2>2, <2>3, <2>4, <2>6, <2>7, <2>8, <2>9 DEF TypeOK
<1> QED
  BY <1>1, <1>2, <1>3, <1>4, <1>5, <1>6, <1>7, <1>8, <1>9, <1>10, <1>11, Zenon DEF Step, Search

LEMMA WriterTypes ==
  ASSUME TypeOK, WriterShape
  PROVE  TypeOK'
<1>1. UNCHANGED <<backend, hits, index, pc, req, scopes, sync, block, outcome, crossed, searches>>
      /\ writes' \in 0..MaxWrites
      /\ links' \subseteq ItemsOf("rule") \X ItemsOf("rule")
  BY DEF WriterShape
<1>2. rows' \in [Items -> Row] /\ since' \in [Pods -> [Items -> SUBSET Row]]
  <2>1. CASE UNCHANGED <<rows, since>>
    BY <2>1 DEF TypeOK
  <2>2. ASSUME NEW i \in Items, NEW row \in Row, Write(i, row)
        PROVE  rows' \in [Items -> Row] /\ since' \in [Pods -> [Items -> SUBSET Row]]
    <3>1. rows' \in [Items -> Row]
      BY <2>2 DEF Write, TypeOK
    <3>2. \A q \in Pods : [since[q] EXCEPT ![i] = @ \cup {row}] \in [Items -> SUBSET Row]
      BY DEF TypeOK
    <3>3. \A q \in Pods : since[q] \in [Items -> SUBSET Row]
      BY DEF TypeOK
    <3> QED
      BY <2>2, <3>1, <3>2, <3>3 DEF Write
  <2> QED
    BY <2>1, <2>2 DEF WriterShape
<1> QED
  BY <1>1, <1>2 DEF TypeOK, index, sync, block

----------------------------------------------------------------------------
(* Steps that leave what a process has in hand.                            *)

\* The steps of the others, the writes, and a process's own when it only
\* counts hits or looks up neighbours.  Its history only grows, and it notices
\* who writes the index.
Untouched(q) ==
    /\ backend' = backend
    /\ pc'[q] = pc[q] \/ (Formed(q) /\ Formed(q)')
    /\ req'[q] = req[q] /\ scopes'[q] = scopes[q]
    /\ todo'[q] = todo[q] /\ copying'[q] = copying[q] /\ batch'[q] = batch[q]
    /\ found'[q] = found[q] /\ scored'[q] = scored[q] /\ top'[q] = top[q]
    /\ \A i \in Range(related'[q]) : i \in Range(related[q]) \/ ShowableOnce(q, i, "")
    /\ outcome'[q] = outcome[q]
    /\ \A i \in Items : since[q][i] \subseteq since'[q][i]
    /\ pc[q] # "idle" => \A i \in Items : rows'[i] \in since'[q][i]
    /\ crossed[q] => crossed'[q]
    /\ ~crossed'[q] /\ pc[q] # "idle" => UNCHANGED <<docs, exists>>

LEMMA UntouchedKeeps ==
  ASSUME TypeOK, TypeOK', NEW q \in Pods, Untouched(q), PodOK(q)
  PROVE  PodOK(q)'
<1>0. pc'[q] = pc[q] \/ (pc[q] \in {"count", "relate"} /\ pc'[q] \in {"count", "relate"})
  BY DEF Untouched, Formed
<1>1. /\ req'[q] = req[q] /\ scopes'[q] = scopes[q]
      /\ todo'[q] = todo[q] /\ copying'[q] = copying[q] /\ batch'[q] = batch[q]
      /\ found'[q] = found[q] /\ scored'[q] = scored[q] /\ top'[q] = top[q]
      /\ outcome'[q] = outcome[q] /\ backend' = backend
  BY DEF Untouched
<1>2. /\ \A i \in Items : since[q][i] \subseteq since'[q][i]
      /\ pc[q] # "idle" => \A i \in Items : rows'[i] \in since'[q][i]
      /\ crossed[q] => crossed'[q]
      /\ ~crossed'[q] /\ pc[q] # "idle" => docs' = docs /\ exists' = exists
  BY DEF Untouched
<1>3. \A x \in DOMAIN scored[q] : scored[q][x].item \in Items
  <2>1. \A x \in DOMAIN scored[q] : scored[q][x] \in Scored
    BY SMTT(30) DEF TypeOK
  <2> QED
    BY <2>1 DEF Scored
<1>4. pc[q] # "idle" => \A i \in Items : rows[i] \in since[q][i]
  BY DEF PodOK, FlowOK
<1>5. FlowOK(q)'
  <2>1. /\ pc[q] # "idle" => scopes[q] # << >> /\ (pc[q] \in {"create", "bulk"} => copying[q] \in Kinds)
        /\ pc[q] = "bulk" => \A i \in ItemsOf(copying[q]) : batch[q][i] \in since[q][i]
    BY DEF PodOK, FlowOK
  <2>2. pc[q] = "bulk" => \A i \in ItemsOf(copying[q]) : batch[q][i] \in since'[q][i]
    BY <1>2, <2>1, ItemFacts
  <2> QED
    <3>1. pc[q] # "idle" => scopes[q] # << >> /\ \A i \in Items : rows'[i] \in since'[q][i]
      BY <1>2, <2>1
    <3>2. pc[q] \in {"create", "bulk"} => pc[q] # "idle"
      OBVIOUS
    <3>3. pc'[q] = "bulk" => \A i \in ItemsOf(copying'[q]) : batch'[q][i] \in since'[q][i]
      BY <1>0, <1>1, <2>2
    <3>4. pc'[q] # "idle" => scopes'[q] # << >> /\ \A i \in Items : rows'[i] \in since'[q][i]
      BY <1>0, <1>1, <3>1
    <3>5. pc'[q] # "idle" => (pc'[q] \in {"create", "bulk"} => copying'[q] \in Kinds)
      BY <1>0, <1>1, <2>1
    <3> QED
      BY <3>3, <3>4, <3>5 DEF FlowOK
<1>6. RacesOK(q)'
  BY <1>0, <1>1, <1>2 DEF PodOK, RacesOK
<1>7. CopiesOK(q)'
  <2> SUFFICES ASSUME backend = "index", ~crossed'[q], pc[q] \in {"sync", "create", "bulk"},
                      NEW i \in Items, KindOf[i] \notin todo[q],
                      pc[q] \in {"create", "bulk"} => KindOf[i] # copying[q],
                      NEW row \in since'[q][i], since'[q][i] = {row}, IsRow(row)
               PROVE  docs'[i] = row.text
    BY <1>0, <1>1 DEF CopiesOK, Copied
  <2>1. since[q][i] = {row}
    BY <1>2, <1>4
  <2>2. Copied(q, i)
    BY <1>2 DEF PodOK, CopiesOK
  <2> QED
    BY <1>2, <2>1, <2>2 DEF Copied
<1>8. \A i, project : i \in Items => (ShowableOnce(q, i, project) => ShowableOnce(q, i, project)')
  BY <1>0, <1>1, <1>2 DEF ShowableOnce
<1>9. \A i \in Items : NeverFailing(q, i)' => NeverFailing(q, i)
  BY <1>2 DEF NeverFailing
<1>10. HitsOK(q)'
  <2>1. \A x \in DOMAIN scored[q] : InBlock(q) =>
           /\ scored[q][x].item \in ItemsOf(Kind(q))
           /\ ShowableOnce(q, scored[q][x].item, Project(q))
    BY DEF PodOK, HitsOK
  <2>2. \A x \in DOMAIN scored[q] :
           ShowableOnce(q, scored[q][x].item, Project(q)) =>
             \E row \in since'[q][scored[q][x].item] :
               /\ IsRow(row) /\ ~(row.status = "recalled")
               /\ row.status # "active" => req[q].archived
               /\ Project(q) \in {"", Traits[scored[q][x].item].project}
                  \/ Traits[scored[q][x].item].project = ""
    BY <1>2, <1>3 DEF ShowableOnce
  <2>3. Kind(q)' = Kind(q) /\ Project(q)' = Project(q) /\ InBlock(q)' = InBlock(q)
    BY <1>0, <1>1 DEF Kind, Project, InBlock
  <2>4. InBlock(q)' => \A x \in DOMAIN scored'[q] :
          /\ scored'[q][x].item \in ItemsOf(Kind(q)')
          /\ ShowableOnce(q, scored[q][x].item, Project(q))'
    BY <1>0, <1>1, <2>1, <2>2, <2>3 DEF ShowableOnce
  <2> QED
    BY <1>0, <1>1, <2>3, <2>4 DEF PodOK, HitsOK, Formed
<1>11. ScoresOK(q)'
  <2> SUFFICES ASSUME InBlock(q), NEW x \in DOMAIN scored[q]
               PROVE  (LET e == scored[q][x] IN
                      /\ e.relevance = 1000 /\ ~Traits[e.item].expired /\ NeverFailing(q, e.item)
                            => e.composite >= 2000
                      /\ e.relevance = 0 /\ ~Traits[e.item].pinned => e.composite < 2000)'
    BY <1>0, <1>1 DEF ScoresOK, InBlock
  <2>1. NeverFailing(q, scored[q][x].item)' => NeverFailing(q, scored[q][x].item)
    BY <1>0, <1>1, <1>2, <1>3 DEF NeverFailing
  <2> QED
    BY <1>0, <1>1, <2>1 DEF PodOK, ScoresOK
<1>12. ShownOK(q)'
  <2>1. Formed(q)' = Formed(q)
    BY <1>0, <1>1 DEF Formed
  <2>2. \A i \in Range(related'[q]) : i \in Items
    <3>1. related'[q] \in Seq(Items)
      BY DEF TypeOK
    <3> QED
      BY <3>1 DEF Range
  <2>3. Formed(q) => \A i \in Range(related'[q]) : ShowableOnce(q, i, "")
    BY DEF Untouched, PodOK, ShownOK
  <2> QED
    BY <1>0, <1>1, <1>8, <2>1, <2>2, <2>3 DEF PodOK, ShownOK
<1>13. CompleteOK(q)'
  <2> SUFFICES ASSUME InBlock(q), ~crossed'[q], Cardinality(Candidates(q)') <= 3 * Limit,
                      NEW i \in ItemsOf(Kind(q)), Good(q, i)'
               PROVE  \/ pc[q] = "format" /\ \E x \in DOMAIN found[q] :
                           found[q][x].item = i /\ found[q][x].score # 1
                      \/ \E x \in DOMAIN scored[q] : scored[q][x].item = i
    BY <1>0, <1>1 DEF CompleteOK, InBlock, Kind
  <2>1. pc[q] # "idle" /\ docs' = docs
    BY <1>2 DEF InBlock
  <2>2. Candidates(q) \subseteq Candidates(q)'
    BY <1>0, <1>1, <1>2, <2>1, ItemFacts DEF Candidates, Kind
  <2>3. Cardinality(Candidates(q)) <= Cardinality(Candidates(q)')
    <3>1. IsFiniteSet(Candidates(q)')
      <4>1. Candidates(q)' \subseteq Items
        BY ItemFacts DEF Candidates
      <4> QED
        BY <4>1, ItemFacts, FS_Subset
    <3> QED
      BY <2>2, <3>1, FS_Subset
  <2>4. Cardinality(Candidates(q)) <= 3 * Limit
    <3>1. IsFiniteSet(Candidates(q)) /\ IsFiniteSet(Candidates(q)')
      <4>1. Candidates(q) \subseteq Items /\ Candidates(q)' \subseteq Items
        BY ItemFacts DEF Candidates
      <4> QED
        BY <4>1, ItemFacts, FS_Subset
    <3>2. Cardinality(Candidates(q)) \in Nat /\ Cardinality(Candidates(q)') \in Nat
      BY <3>1, FS_CardinalityType
    <3> QED
      BY <2>3, <3>2, SearchBoundAssumption
  <2>5. Good(q, i)
    <3>1. PICK row \in since'[q][i] :
             /\ since'[q][i] = {row} /\ IsRow(row) /\ row.text \in {3, 4}
             /\ row.status # "recalled" /\ (row.status # "active" => req'[q].archived)
             /\ Project(q)' \in {"", Traits[i].project} \/ Traits[i].project = ""
      BY DEF Good, ShowableOnce, Project
    <3>2. i \in Items /\ rows[i] \in since[q][i]
      BY <1>4, <2>1, ItemFacts
    <3>3. since[q][i] = {row}
      BY <1>2, <3>1, <3>2
    <3> QED
      BY <1>0, <1>1, <3>1, <3>3 DEF Good, ShowableOnce, Project, Kind
  <2> QED
    BY <1>2, <2>4, <2>5 DEF PodOK, CompleteOK
<1> QED
  BY <1>5, <1>6, <1>7, <1>10, <1>11, <1>12, <1>13 DEF PodOK

LEMMA WriterUntouched ==
  ASSUME TypeOK, WriterShape, NEW q \in Pods, PodOK(q)
  PROVE  Untouched(q)
<1>1. UNCHANGED <<backend, index, pc, req, scopes, sync, block, outcome, crossed>>
  BY DEF WriterShape
<1>2. /\ \A i \in Items : since[q][i] \subseteq since'[q][i]
      /\ pc[q] # "idle" => \A i \in Items : rows'[i] \in since'[q][i]
  <2>1. pc[q] # "idle" => \A i \in Items : rows[i] \in since[q][i]
    BY DEF PodOK, FlowOK
  <2>2. CASE UNCHANGED <<rows, since>>
    BY <2>1, <2>2
  <2>3. ASSUME NEW j \in Items, NEW row \in Row, Write(j, row)
        PROVE  /\ \A i \in Items : since[q][i] \subseteq since'[q][i]
               /\ pc[q] # "idle" => \A i \in Items : rows'[i] \in since'[q][i]
    <3>1. rows' = [rows EXCEPT ![j] = row] /\ rows \in [Items -> Row]
      BY <2>3 DEF Write, TypeOK
    <3>2. since[q] \in [Items -> SUBSET Row]
      BY DEF TypeOK
    <3>3. since'[q] = IF pc[q] = "idle" THEN since[q]
                      ELSE [since[q] EXCEPT ![j] = @ \cup {row}]
      BY <2>3 DEF Write
    <3> QED
      BY <2>1, <3>1, <3>2, <3>3
  <2> QED
    BY <2>2, <2>3 DEF WriterShape
<1>3. /\ backend' = backend /\ pc' = pc /\ req' = req /\ scopes' = scopes /\ todo' = todo
      /\ copying' = copying /\ batch' = batch /\ found' = found /\ scored' = scored
      /\ top' = top /\ related' = related /\ outcome' = outcome /\ crossed' = crossed
      /\ docs' = docs /\ exists' = exists
  BY <1>1 DEF index, sync, block
<1>4. \A i \in Range(related'[q]) : i \in Range(related[q]) \/ ShowableOnce(q, i, "")
  BY <1>3
<1> QED
  BY <1>2, <1>3, <1>4 DEF Untouched

LEMMA OtherUntouched ==
  ASSUME NEW p \in Pods, Frame(p), NEW q \in Pods \ {p}, PodOK(q)
  PROVE  Untouched(q)
<1>1. \A i \in Range(related'[q]) : i \in Range(related[q]) \/ ShowableOnce(q, i, "")
  <2>1. related'[q] = related[q]
    BY DEF Frame
  <2> QED
    BY <2>1
<1>2. pc[q] # "idle" => \A i \in Items : rows'[i] \in since'[q][i]
  BY DEF Frame, PodOK, FlowOK
<1> QED
  BY <1>1, <1>2 DEF Frame, Untouched

\* Counting hits and looking up neighbours.
LEMMA CountUntouched ==
  ASSUME TypeOK, NEW p \in Pods, PodOK(p),
         CountHit(p) \/ CountFails(p) \/ Spread(p) \/ Relate(p)
  PROVE  Untouched(p)
<1>1. Formed(p) /\ pc[p] # "idle"
  BY DEF CountHit, CountFails, Spread, Relate, At, Formed
<1>2. Formed(p)'
  BY DEF CountHit, CountFails, Spread, Relate, At, Formed, Goto, TypeOK
<1>3. UNCHANGED <<backend, rows, docs, exists, req, scopes, todo, copying, batch,
                  found, scored, top, outcome, since, crossed>>
  BY DEF CountHit, CountFails, Spread, Relate, store, index, sync
<1>4. \A i \in Items : rows[i] \in since[p][i]
  BY <1>1 DEF PodOK, FlowOK
<1>5. \A i \in Range(related'[p]) : i \in Range(related[p]) \/ ShowableOnce(p, i, "")
  <2>1. CASE CountHit(p) \/ CountFails(p) \/ Spread(p)
    BY <2>1 DEF CountHit, CountFails, Spread
  <2>2. CASE Relate(p)
    <3> DEFINE i == Head(near[p])
    <3>1. i \in Items
      BY <2>2 DEF Relate, TypeOK
    <3>2. related' = IF Kept(p, i) THEN [related EXCEPT ![p] = Append(@, i)] ELSE related
      BY <2>2 DEF Relate
    <3>3. related \in [Pods -> Seq(Items)]
      BY DEF TypeOK
    <3>4. Kept(p, i) => ShowableOnce(p, i, "")
      <4>1. rows[i] \in since[p][i]
        BY <1>4, <3>1
      <4>2. rows[i] \in Row
        BY <3>1 DEF TypeOK
      <4> QED
        BY <4>1, <4>2 DEF Kept, Hidden, ShowableOnce, IsRow, Status
    <3>5. CASE ~Kept(p, i)
      BY <3>2, <3>5
    <3>6. CASE Kept(p, i)
      <4>1. related'[p] = Append(related[p], i) /\ related[p] \in Seq(Items)
        BY <3>2, <3>3, <3>6
      <4>2. \A j \in Range(Append(related[p], i)) : j \in Range(related[p]) \/ j = i
        BY <3>1, <4>1 DEF Range
      <4> QED
        BY <3>4, <3>6, <4>1, <4>2
    <3> QED
      BY <3>5, <3>6
  <2> QED
    BY <2>1, <2>2
<1> QED
  BY <1>1, <1>2, <1>3, <1>4, <1>5 DEF Untouched

----------------------------------------------------------------------------
(* Outside of a scope's block: the copy into the index.                    *)

LEMMA OutsideBlock ==
  ASSUME NEW p \in Pods, ~InBlock(p)'
  PROVE  HitsOK(p)' /\ ScoresOK(p)' /\ ShownOK(p)' /\ CompleteOK(p)'
BY DEF InBlock, HitsOK, ScoresOK, ShownOK, CompleteOK, Formed

\* A scope begins: nothing has been copied for it yet, if it is to be.
LEMMA BeginScopeKeeps ==
  ASSUME TypeOK, TypeOK', NEW p \in Pods, BeginScope(p), backend' = backend,
         scopes'[p] # << >>, \A i \in Items : rows'[i] \in since'[p][i],
         outcome'[p] = "failed" => crossed'[p]
  PROVE  PodOK(p)'
<1>1. pc'[p] = "sync" /\ todo'[p] = IF backend = "index" THEN Kinds ELSE {}
  BY DEF BeginScope, Goto, TypeOK
<1>2. ~InBlock(p)'
  BY <1>1 DEF InBlock
<1>3. FlowOK(p)' /\ RacesOK(p)'
  BY <1>1 DEF FlowOK, RacesOK
<1>4. CopiesOK(p)'
  BY <1>1, ItemFacts DEF CopiesOK
<1> QED
  BY <1>2, <1>3, <1>4, OutsideBlock DEF PodOK

LEMMA BeginKeeps ==
  ASSUME TypeOK, TypeOK', NEW p \in Pods, Begin(p)
  PROVE  PodOK(p)'
<1>1. PICK r \in Requests : scopes' = [scopes EXCEPT ![p] = r.scopes]
  BY DEF Begin
<1>2. scopes'[p] # << >>
  BY <1>1, RequestAssumption DEF TypeOK
<1>3. /\ BeginScope(p) /\ backend' = backend /\ rows' = rows
      /\ outcome' = [outcome EXCEPT ![p] = "none"]
      /\ since' = [since EXCEPT ![p] = [i \in Items |-> {rows[i]}]]
  BY DEF Begin, store
<1>4. \A i \in Items : rows'[i] \in since'[p][i]
  BY <1>3 DEF TypeOK
<1>5. outcome'[p] # "failed"
  BY <1>3 DEF TypeOK
<1> QED
  BY <1>2, <1>3, <1>4, <1>5, BeginScopeKeeps

LEMMA SyncKindKeeps ==
  ASSUME TypeOK, TypeOK', NEW p \in Pods, PodOK(p), SyncKind(p)
  PROVE  PodOK(p)'
<1>1. PICK k \in todo[p] :
         /\ todo' = [todo EXCEPT ![p] = @ \ {k}]
         /\ copying' = [copying EXCEPT ![p] = k]
         /\ IF k \in exists THEN ReadRows(p, k) /\ Goto(p, "bulk")
            ELSE Goto(p, "create") /\ UNCHANGED batch
  BY DEF SyncKind
<1>2. /\ UNCHANGED <<backend, rows, docs, exists, scopes, outcome, since, crossed>>
      /\ pc[p] = "sync"
  BY DEF SyncKind, At, store, index
<1>3. /\ todo'[p] = todo[p] \ {k} /\ copying'[p] = k /\ k \in Kinds
      /\ pc'[p] = IF k \in exists THEN "bulk" ELSE "create"
  BY SMTT(30), <1>1 DEF Goto, TypeOK
<1>4. ~InBlock(p)'
  BY <1>3 DEF InBlock
<1>5. FlowOK(p)'
  <2>1. scopes[p] # << >> /\ \A i \in Items : rows[i] \in since[p][i]
    BY <1>2 DEF PodOK, FlowOK
  <2>2. k \in exists => batch'[p] = [i \in ItemsOf(k) |-> rows[i]]
    BY <1>1 DEF ReadRows, TypeOK
  <2>3. k \in exists => \A i \in ItemsOf(k) : batch'[p][i] \in since[p][i]
    BY <2>1, <2>2, ItemFacts
  <2> QED
    BY <1>2, <1>3, <2>1, <2>3 DEF FlowOK
<1>6. RacesOK(p)'
  BY <1>2, <1>3 DEF PodOK, RacesOK
<1>7. CopiesOK(p)'
  BY <1>2, <1>3 DEF PodOK, CopiesOK, Copied
<1> QED
  BY <1>4, <1>5, <1>6, <1>7, OutsideBlock DEF PodOK

\* A search that has ended has nothing in hand.
LEMMA IdleKeeps ==
  ASSUME NEW p \in Pods, pc'[p] = "idle", outcome'[p] = "failed" => crossed'[p]
  PROVE  PodOK(p)'
<1>1. ~InBlock(p)'
  BY DEF InBlock
<1>2. FlowOK(p)' /\ RacesOK(p)' /\ CopiesOK(p)'
  BY DEF FlowOK, RacesOK, CopiesOK
<1> QED
  BY <1>1, <1>2, OutsideBlock DEF PodOK

LEMMA CreateIndexKeeps ==
  ASSUME TypeOK, TypeOK', NEW p \in Pods, PodOK(p), CreateIndex(p)
  PROVE  PodOK(p)'
<1>1. /\ UNCHANGED <<backend, rows, docs, scopes, todo, copying>> /\ pc[p] = "create"
  BY DEF CreateIndex, At, store
<1>2. CASE copying[p] \in exists
  <2>1. pc'[p] = "idle" /\ crossed' = crossed
    BY <1>2 DEF CreateIndex, Fail, Goto, TypeOK
  <2>2. crossed[p]
    BY <1>1, <1>2 DEF PodOK, RacesOK
  <2> QED
    BY <2>1, <2>2, IdleKeeps
<1>3. CASE copying[p] \notin exists
  <2>1. /\ Cross(p) /\ ReadRows(p, copying[p]) /\ Goto(p, "bulk")
        /\ UNCHANGED <<outcome, since>>
    BY <1>3 DEF CreateIndex
  <2>2. /\ pc'[p] = "bulk" /\ batch'[p] = [i \in ItemsOf(copying[p]) |-> rows[i]]
        /\ crossed'[p] = crossed[p]
    BY <2>1 DEF Cross, ReadRows, Goto, TypeOK
  <2>3. ~InBlock(p)'
    BY <2>2 DEF InBlock
  <2>4. /\ scopes[p] # << >> /\ \A i \in Items : rows[i] \in since[p][i]
        /\ copying[p] \in Kinds
    BY <1>1 DEF PodOK, FlowOK
  <2>5. \A i \in ItemsOf(copying[p]) : batch'[p][i] \in since[p][i]
    BY <2>2, <2>4, ItemFacts
  <2>6. FlowOK(p)'
    BY <1>1, <2>1, <2>2, <2>4, <2>5 DEF FlowOK
  <2>7. RacesOK(p)'
    BY <1>1, <2>1, <2>2 DEF PodOK, RacesOK
  <2>8. CopiesOK(p)'
    BY <1>1, <2>1, <2>2 DEF PodOK, CopiesOK, Copied
  <2> QED
    BY <2>3, <2>6, <2>7, <2>8, OutsideBlock DEF PodOK
<1> QED
  BY <1>2, <1>3

LEMMA BulkKeeps ==
  ASSUME TypeOK, TypeOK', NEW p \in Pods, PodOK(p), Bulk(p)
  PROVE  PodOK(p)'
<1>1. /\ UNCHANGED <<backend, rows, exists, scopes, todo, outcome, since>> /\ pc[p] = "bulk"
      /\ copying' = [copying EXCEPT ![p] = "none"]
  BY DEF Bulk, At, store
<1>2. pc'[p] = "sync" /\ crossed'[p] = crossed[p]
  BY DEF Bulk, Cross, Goto, TypeOK
<1>3. ~InBlock(p)'
  BY <1>2 DEF InBlock
<1>4. FlowOK(p)'
  BY <1>1, <1>2 DEF PodOK, FlowOK
<1>5. RacesOK(p)'
  BY <1>1, <1>2 DEF PodOK, RacesOK
<1>6. CopiesOK(p)'
  <2> SUFFICES ASSUME backend = "index", ~crossed[p], NEW i \in Items, KindOf[i] \notin todo[p],
                      NEW row \in since[p][i], since[p][i] = {row}, IsRow(row)
               PROVE  docs'[i] = row.text
    BY <1>1, <1>2 DEF CopiesOK, Copied
  <2>1. DOMAIN batch[p] = ItemsOf(copying[p]) /\ copying[p] \in Kinds
    BY <1>1 DEF TypeOK, PodOK, FlowOK
  <2>2. docs'[i] = IF i \notin DOMAIN batch[p] THEN docs[i]
                   ELSE IF \A j \in DOMAIN batch[p] : ~IsRow(batch[p][j]) THEN None
                   ELSE Upsert(batch[p], i)
    BY DEF Bulk
  <2>3. CASE KindOf[i] = copying[p]
    <3>1. i \in DOMAIN batch[p]
      BY <2>1, <2>3 DEF ItemsOf
    <3>2. batch[p][i] = row
      BY <1>1, <2>1, <3>1 DEF PodOK, FlowOK
    <3> QED
      BY <2>2, <3>1, <3>2 DEF Upsert
  <2>4. CASE KindOf[i] # copying[p]
    <3>1. i \notin DOMAIN batch[p]
      BY <2>1, <2>4 DEF ItemsOf
    <3>2. Copied(p, i)
      BY <1>1, <2>4 DEF PodOK, CopiesOK
    <3> QED
      BY <2>2, <3>1, <3>2 DEF Copied
  <2> QED
    BY <2>3, <2>4
<1> QED
  BY <1>3, <1>4, <1>5, <1>6, OutsideBlock DEF PodOK

LEMMA NextScopeKeeps ==
  ASSUME TypeOK, TypeOK', NEW p \in Pods, PodOK(p), NextScope(p)
  PROVE  PodOK(p)'
<1>1. /\ UNCHANGED <<backend, rows>> /\ pc[p] = "relate"
      /\ scopes' = [scopes EXCEPT ![p] = Tail(@)]
  BY DEF NextScope, At, store
<1>2. CASE Len(scopes[p]) > 1
  <2>1. BeginScope(p) /\ UNCHANGED <<outcome, since, crossed>>
    BY <1>2 DEF NextScope
  <2>2. scopes[p] \in Seq(Kinds) /\ scopes'[p] = Tail(scopes[p])
    BY <1>1 DEF TypeOK
  <2>3. scopes'[p] # << >>
    <3>1. Len(Tail(scopes[p])) = Len(scopes[p]) - 1 /\ Len(scopes[p]) \in Nat
      BY <1>2, <2>2
    <3>2. Len(scopes'[p]) > 0
      BY <1>2, <2>2, <3>1
    <3>3. Len(<< >>) = 0
      OBVIOUS
    <3> QED
      BY <3>2, <3>3
  <2>4. \A i \in Items : rows'[i] \in since'[p][i]
    BY <1>1, <2>1 DEF PodOK, FlowOK
  <2>5. outcome'[p] = "failed" => crossed'[p]
    BY <2>1 DEF PodOK, RacesOK
  <2> QED
    BY <1>1, <2>1, <2>3, <2>4, <2>5, BeginScopeKeeps
<1>3. CASE ~(Len(scopes[p]) > 1)
  <2>1. pc'[p] = "idle" /\ outcome'[p] = "answered"
    BY <1>3 DEF NextScope, Goto, TypeOK
  <2> QED
    BY <2>1, IdleKeeps
<1> QED
  BY <1>2, <1>3

----------------------------------------------------------------------------
(* Inside of a scope's block: its hits.                                    *)

\* What the steps of a block leave as it is.
Reads(p) ==
    /\ UNCHANGED <<backend, rows, docs, exists>>
    /\ req'[p] = req[p] /\ scopes'[p] = scopes[p] /\ since'[p] = since[p]
    /\ outcome'[p] = outcome[p]
    /\ crossed[p] => crossed'[p]
    /\ pc[p] # "idle" /\ InBlock(p)'

LEMMA ReadsKeep ==
  ASSUME NEW p \in Pods, PodOK(p), Reads(p)
  PROVE  /\ FlowOK(p)' /\ RacesOK(p)' /\ CopiesOK(p)'
         /\ Kind(p)' = Kind(p) /\ Project(p)' = Project(p)
         /\ \A i, project : ShowableOnce(p, i, project)' <=> ShowableOnce(p, i, project)
         /\ \A i : Good(p, i)' <=> Good(p, i)
         /\ \A i : NeverFailing(p, i)' <=> NeverFailing(p, i)
         /\ Candidates(p)' = Candidates(p)
<1>1. /\ backend' = backend /\ rows' = rows /\ docs' = docs /\ exists' = exists
      /\ req'[p] = req[p] /\ scopes'[p] = scopes[p] /\ since'[p] = since[p]
      /\ outcome'[p] = outcome[p] /\ (crossed[p] => crossed'[p])
      /\ pc[p] # "idle" /\ pc'[p] \in {"format", "count", "relate"}
  BY DEF Reads, InBlock
<1>2. FlowOK(p)' /\ RacesOK(p)' /\ CopiesOK(p)'
  BY <1>1 DEF PodOK, FlowOK, RacesOK, CopiesOK
<1>3. Kind(p)' = Kind(p) /\ Project(p)' = Project(p)
  BY <1>1 DEF Kind, Project
<1>4. \A i, project : ShowableOnce(p, i, project)' <=> ShowableOnce(p, i, project)
  BY <1>1 DEF ShowableOnce
<1>5. \A i : Good(p, i)' <=> Good(p, i)
  BY <1>1 DEF Good, ShowableOnce, Kind
<1>6. \A i : NeverFailing(p, i)' <=> NeverFailing(p, i)
  BY <1>1 DEF NeverFailing
<1>7. Candidates(p)' = Candidates(p)
  BY <1>1 DEF Candidates, Kind
<1> QED
  BY <1>2, <1>3, <1>4, <1>5, <1>6, <1>7

LEMMA QueryKeeps ==
  ASSUME TypeOK, TypeOK', NEW p \in Pods, PodOK(p), Query(p)
  PROVE  PodOK(p)'
<1>1. PICK answer \in Answers(Kind(p)) : found' = [found EXCEPT ![p] = answer]
  BY DEF Query, Kind
<1>2. /\ UNCHANGED <<backend, rows, docs, exists, req, scopes, outcome, since, crossed>>
      /\ pc[p] = "sync" /\ todo[p] = {}
  BY DEF Query, At, store, index
<1>3. found'[p] = answer /\ scored'[p] = << >> /\ pc'[p] = "format"
  BY <1>1 DEF Query, Goto, TypeOK
<1>4. Reads(p)
  BY <1>2, <1>3 DEF Reads, InBlock
<1>5. /\ answer \in Seq(Hit)
      /\ \A x \in DOMAIN answer : answer[x].item \in ItemsOf(Kind(p))
      /\ \A x, y \in DOMAIN answer : answer[x].item = answer[y].item => x = y
      /\ Cardinality(Matchable(Kind(p))) <= Window =>
            \A i \in ItemsOf(Kind(p)) : TextOf(i) \in {3, 4} =>
               \E x \in DOMAIN answer : answer[x].item = i /\ answer[x].score # 1
  <2>1. PICK k : k = Kind(p)
    OBVIOUS
  <2>2. answer \in Answers(k)
    BY <2>1
  <2>3. /\ answer \in Seq(Hit)
        /\ \A x \in DOMAIN answer : answer[x].item \in ItemsOf(k)
        /\ \A x, y \in DOMAIN answer : answer[x].item = answer[y].item => x = y
        /\ Cardinality(Matchable(k)) <= Window =>
              \A i \in ItemsOf(k) : TextOf(i) \in {3, 4} =>
                 \E x \in DOMAIN answer : answer[x].item = i /\ answer[x].score # 1
    BY <2>2, AnswerFacts
  <2> QED
    BY <2>1, <2>3
<1>6. DOMAIN scored'[p] = {} /\ ~Formed(p)'
  BY <1>3 DEF Formed
<1>7. HitsOK(p)'
  <2>1. /\ \A x \in DOMAIN found'[p] : found'[p][x].item \in ItemsOf(Kind(p)')
        /\ \A x, y \in DOMAIN found'[p] : found'[p][x].item = found'[p][y].item => x = y
    BY <1>3, <1>4, <1>5, ReadsKeep
  <2> QED
    BY <1>6, <2>1 DEF HitsOK
<1>8. ScoresOK(p)' /\ ShownOK(p)'
  <2>1. ScoresOK(p)'
    BY <1>6 DEF ScoresOK
  <2>2. ShownOK(p)'
    BY <1>6 DEF ShownOK
  <2> QED
    BY <2>1, <2>2
<1>9. CompleteOK(p)'
  <2> SUFFICES ASSUME ~crossed[p], Cardinality(Candidates(p)) <= 3 * Limit,
                      NEW i \in ItemsOf(Kind(p)), Good(p, i)
               PROVE  \E x \in DOMAIN answer : answer[x].item = i /\ answer[x].score # 1
    BY <1>2, <1>3, <1>4, ReadsKeep DEF CompleteOK
  <2> DEFINE matching == Matchable(Kind(p))
  <2>1. \A j \in Items : rows[j] \in since[p][j]
    BY <1>2 DEF PodOK, FlowOK
  <2>2. matching \subseteq Candidates(p)
    <3> SUFFICES ASSUME NEW j \in ItemsOf(Kind(p)), TextOf(j) > 0
                 PROVE  docs[j] > 0 \/ \E row \in since[p][j] : IsRow(row) /\ row.text > 0
      BY DEF Candidates, Matchable
    <3>1. j \in Items /\ rows[j] \in since[p][j]
      BY <2>1, ItemFacts
    <3> QED
      BY <3>1 DEF TextOf, None
  <2>3. Cardinality(matching) <= Window
    <3>1. Candidates(p) \subseteq Items
      BY ItemFacts DEF Candidates
    <3>2. IsFiniteSet(Candidates(p)) /\ IsFiniteSet(matching)
      BY <2>2, <3>1, ItemFacts, FS_Subset
    <3>3. /\ Cardinality(matching) <= Cardinality(Candidates(p))
          /\ Cardinality(matching) \in Nat /\ Cardinality(Candidates(p)) \in Nat
      BY <2>2, <3>2, FS_Subset, FS_CardinalityType
    <3> QED
      BY <3>3, SearchBoundAssumption DEF Window
  <2>4. PICK row \in since[p][i] : since[p][i] = {row} /\ IsRow(row) /\ row.text \in {3, 4}
    BY DEF Good
  <2>5. i \in Items /\ KindOf[i] \in Kinds /\ rows[i] = row
    BY <2>1, <2>4, ItemFacts
  <2>6. TextOf(i) \in {3, 4}
    <3>1. CASE backend = "index"
      <4>1. Copied(p, i)
        BY <1>2, <2>5, <3>1 DEF PodOK, CopiesOK
      <4> QED
        BY <2>4, <3>1, <4>1 DEF Copied, TextOf
    <3>2. CASE backend # "index"
      BY <2>4, <2>5, <3>2 DEF TextOf
    <3> QED
      BY <3>1, <3>2
  <2> QED
    BY <1>5, <2>3, <2>6
<1> QED
  BY <1>4, <1>7, <1>8, <1>9, ReadsKeep DEF PodOK

LEMMA QueryFailsKeeps ==
  ASSUME TypeOK, TypeOK', NEW p \in Pods, PodOK(p), QueryFails(p)
  PROVE  PodOK(p)'
<1>1. UNCHANGED <<backend, rows, docs, exists, req, scopes, outcome, since>> /\ pc[p] = "sync"
  BY DEF QueryFails, At, store, index
<1>2. found'[p] = << >> /\ scored'[p] = << >> /\ pc'[p] = "format" /\ crossed'[p]
  BY DEF QueryFails, Goto, TypeOK
<1>3. Reads(p)
  BY <1>1, <1>2 DEF Reads, InBlock
<1>4. DOMAIN found'[p] = {} /\ DOMAIN scored'[p] = {} /\ ~Formed(p)'
  BY <1>2 DEF Formed
<1>5. HitsOK(p)'
  BY <1>4 DEF HitsOK
<1>6. ScoresOK(p)' /\ ShownOK(p)' /\ CompleteOK(p)'
  <2>1. ScoresOK(p)'
    BY <1>4 DEF ScoresOK
  <2>2. ShownOK(p)'
    BY <1>4 DEF ShownOK
  <2>3. CompleteOK(p)'
    BY <1>2 DEF CompleteOK
  <2> QED
    BY <2>1, <2>2, <2>3
<1> QED
  BY <1>3, <1>5, <1>6, ReadsKeep DEF PodOK

LEMMA RankKeeps ==
  ASSUME TypeOK, TypeOK', NEW p \in Pods, PodOK(p), Rank(p)
  PROVE  PodOK(p)'
<1>1. PICK shown \in Ranked(scored[p]) : top' = [top EXCEPT ![p] = shown]
  BY DEF Rank
<1>2. /\ UNCHANGED <<backend, rows, docs, exists, req, scopes, found, scored, outcome, since, crossed>>
      /\ pc[p] = "format" /\ found[p] = << >>
  BY DEF Rank, At, store, index
<1>3. top'[p] = shown /\ related'[p] = << >> /\ pc'[p] = "count"
  BY <1>1 DEF Rank, Goto, TypeOK
<1>4. Reads(p)
  BY <1>2, <1>3 DEF Reads, InBlock
<1>5. InBlock(p) /\ InBlock(p)' /\ Formed(p)'
  BY <1>2, <1>3 DEF InBlock, Formed
<1>6. scored[p] \in Seq(Scored)
  BY DEF TypeOK
<1>7. \A x, y \in DOMAIN scored[p] : scored[p][x].item = scored[p][y].item => x = y
  BY <1>5 DEF PodOK, HitsOK
<1>8. /\ \A i \in Range(shown) : \E x \in DOMAIN scored[p] : scored[p][x].item = i
      /\ Len(shown) < Limit => \A x \in DOMAIN scored[p] : scored[p][x].item \in Range(shown)
      /\ \A x, y \in DOMAIN scored[p] :
            scored[p][x].composite > scored[p][y].composite /\ scored[p][y].item \in Range(shown)
               => scored[p][x].item \in Range(shown)
  BY <1>6, <1>7, RankedFacts
<1>9. ShownOK(p)'
  <2>1. Range(related'[p]) = {}
    BY <1>3 DEF Range
  <2> QED
    BY <1>2, <1>3, <1>8, <2>1 DEF ShownOK
<1>10. HitsOK(p)'
  BY <1>2, <1>3, <1>4, <1>5, ReadsKeep DEF PodOK, HitsOK, ShowableOnce
<1>11. ScoresOK(p)'
  BY <1>2, <1>5 DEF PodOK, ScoresOK, NeverFailing
<1>12. CompleteOK(p)'
  BY <1>2, <1>3, <1>4, <1>5, ReadsKeep DEF PodOK, CompleteOK
<1> QED
  BY <1>4, <1>9, <1>10, <1>11, <1>12, ReadsKeep DEF PodOK

LEMMA FormatHitKeeps ==
  ASSUME TypeOK, TypeOK', NEW p \in Pods, PodOK(p), FormatHit(p)
  PROVE  PodOK(p)'
<1>1. /\ UNCHANGED <<backend, rows, hits, docs, exists, pc, req, scopes, outcome, since, crossed>>
      /\ pc[p] = "format" /\ found[p] # << >>
  BY DEF FormatHit, At, store, index
<1>2. Reads(p)
  BY <1>1 DEF Reads, InBlock
<1>3. InBlock(p) /\ InBlock(p)' /\ ~Formed(p)'
  BY <1>1 DEF InBlock, Formed
<1> DEFINE h == Head(found[p])
           i == h.item
           entry == [item |-> i, relevance |-> h.relevance,
                     composite |-> Composite(i, rows[i], h.relevance)]
           looked == ~Gated(p, h) /\ Kept(p, i)
<1>4. /\ found[p] \in Seq(Hit) /\ found'[p] = Tail(found[p])
      /\ h \in Hit /\ h = found[p][1] /\ 1 \in DOMAIN found[p]
  <2>1. found[p] \in Seq(Hit) /\ found'[p] = Tail(found[p])
    BY DEF TypeOK, FormatHit
  <2> QED
    BY <1>1, <2>1
<1>5. /\ scored[p] \in Seq(Scored)
      /\ ~looked => scored'[p] = scored[p]
      /\ looked => scored'[p] = Append(scored[p], entry)
  <2>1. scored' = IF looked THEN [scored EXCEPT ![p] = Append(@, entry)] ELSE scored
    BY DEF FormatHit
  <2>2. scored \in [Pods -> Seq(Scored)]
    BY DEF TypeOK
  <2> HIDE DEF looked, entry
  <2> QED
    BY <2>1, <2>2
<1>6. i \in Items /\ h.relevance \in 0..1000
  BY ZenonT(60), <1>4 DEF Hit
<1>7. /\ \A x \in DOMAIN found'[p] : x + 1 \in DOMAIN found[p] /\ x + 1 # 1
                                     /\ found'[p][x] = found[p][x + 1]
      /\ \A x \in DOMAIN found[p] : x # 1 => \E y \in DOMAIN found'[p] : found'[p][y] = found[p][x]
  <2>1. DOMAIN found'[p] = 1 .. Len(found[p]) - 1 /\ DOMAIN found[p] = 1 .. Len(found[p])
        /\ Len(found[p]) \in Nat
    BY <1>1, <1>4
  <2>2. \A x \in DOMAIN found'[p] : found'[p][x] = found[p][x + 1]
    BY <1>1, <1>4, <2>1
  <2>3. \A x \in DOMAIN found[p] : x # 1 => x - 1 \in DOMAIN found'[p] /\ (x - 1) + 1 = x
    BY <2>1
  <2> QED
    BY <2>1, <2>2, <2>3
<1>8. /\ DOMAIN scored[p] \subseteq DOMAIN scored'[p]
      /\ \A x \in DOMAIN scored[p] : scored'[p][x] = scored[p][x]
      /\ ~looked => DOMAIN scored'[p] = DOMAIN scored[p]
      /\ looked => \E n \in DOMAIN scored'[p] :
                      DOMAIN scored'[p] = DOMAIN scored[p] \cup {n} /\ scored'[p][n] = entry
  <2>1. CASE ~looked
    BY <1>5, <2>1
  <2>2. CASE looked
    <3> HIDE DEF looked, entry
    <3> DEFINE n == Len(scored[p]) + 1
    <3>1. /\ DOMAIN scored[p] = 1 .. Len(scored[p]) /\ DOMAIN scored'[p] = 1 .. n
          /\ Len(scored[p]) \in Nat
          /\ scored'[p][n] = entry /\ \A x \in DOMAIN scored[p] : scored'[p][x] = scored[p][x]
      BY <1>5, <2>2
    <3>2. n \in DOMAIN scored'[p] /\ DOMAIN scored'[p] = DOMAIN scored[p] \cup {n}
      BY <3>1
    <3> QED
      BY <2>2, <3>1, <3>2
  <2> QED
    BY <2>1, <2>2
<1>9. \A x \in DOMAIN scored'[p] :
         \/ x \in DOMAIN scored[p] /\ scored'[p][x] = scored[p][x]
         \/ x \notin DOMAIN scored[p] /\ looked /\ scored'[p][x] = entry
            /\ \A y \in DOMAIN scored'[p] \ DOMAIN scored[p] : y = x
  <2> HIDE DEF looked, entry
  <2> QED
    BY <1>8
<1>10. rows[i] \in since[p][i] /\ rows[i] \in Row
  BY <1>1, <1>6 DEF PodOK, FlowOK, TypeOK
<1>11. i \in ItemsOf(Kind(p)) /\ entry.item = i /\ entry.relevance = h.relevance
       /\ entry.composite = Composite(i, rows[i], h.relevance)
  BY <1>1, <1>4 DEF PodOK, HitsOK
<1>12. looked => ShowableOnce(p, i, Project(p))
  <2> SUFFICES ASSUME Kept(p, i) PROVE ShowableOnce(p, i, Project(p))
    OBVIOUS
  <2>1. /\ IsRow(rows[i]) /\ ~Hidden(i, rows[i], req[p].archived)
        /\ ProjectMatch(i, req[p].project)
    BY DEF Kept
  <2>2. rows[i].status # "recalled" /\ (rows[i].status # "active" => req[p].archived)
    BY <2>1 DEF Hidden, IsRow, Status
  <2>3. Project(p) \in {"", Traits[i].project} \/ Traits[i].project = ""
    BY <1>11, <2>1 DEF ProjectMatch, Project, ItemsOf
  <2> QED
    BY <1>10, <2>1, <2>2, <2>3 DEF ShowableOnce
<1> HIDE DEF looked, entry, i, h
<1>13. HitsOK(p)'
  <2>1. /\ \A x \in DOMAIN found[p] : found[p][x].item \in ItemsOf(Kind(p))
        /\ \A x, y \in DOMAIN found[p] : found[p][x].item = found[p][y].item => x = y
        /\ \A x \in DOMAIN found[p], y \in DOMAIN scored[p] :
              found[p][x].item # scored[p][y].item
        /\ \A x, y \in DOMAIN scored[p] : scored[p][x].item = scored[p][y].item => x = y
        /\ \A x \in DOMAIN scored[p] :
              /\ scored[p][x].item \in ItemsOf(Kind(p))
              /\ ShowableOnce(p, scored[p][x].item, Project(p))
    BY <1>1, <1>3 DEF PodOK, HitsOK
  <2>2. \A x, y \in DOMAIN found'[p] : found'[p][x].item = found'[p][y].item => x = y
    <3> SUFFICES ASSUME NEW x \in DOMAIN found'[p], NEW y \in DOMAIN found'[p],
                        found'[p][x].item = found'[p][y].item
                 PROVE  x = y
      OBVIOUS
    <3>1. x + 1 = y + 1
      BY <1>7, <2>1
    <3>2. x \in Nat /\ y \in Nat
      BY <1>4
    <3> QED
      BY <3>1, <3>2
  <2>3. \A x \in DOMAIN found'[p] : found'[p][x].item \in ItemsOf(Kind(p)) /\ found'[p][x].item # i
    BY <1>4, <1>7, <2>1 DEF i
  <2>4. \A x \in DOMAIN found[p] : found[p][x].item = i => x = 1
    BY <1>4, <2>1 DEF i
  <2>5. \A x \in DOMAIN scored[p] : scored[p][x].item # i
    BY <1>4, <2>1 DEF i
  <2>6. \A x \in DOMAIN found'[p], y \in DOMAIN scored'[p] :
           found'[p][x].item # scored'[p][y].item
    BY <1>7, <1>9, <1>11, <2>1, <2>3
  <2>7. \A x, y \in DOMAIN scored'[p] : scored'[p][x].item = scored'[p][y].item => x = y
    BY <1>9, <1>11, <2>1, <2>5
  <2>8. \A x \in DOMAIN scored'[p] : \E j : /\ scored'[p][x].item = j /\ j \in ItemsOf(Kind(p))
                                            /\ ShowableOnce(p, j, Project(p))
    BY <1>9, <1>11, <1>12, <2>1
  <2>9. Kind(p)' = Kind(p) /\ Project(p)' = Project(p) /\ req'[p] = req[p] /\ since'[p] = since[p]
    BY <1>1, <1>2, ReadsKeep
  <2>10. \A x \in DOMAIN scored'[p] : ShowableOnce(p, scored[p][x].item, Project(p))'
    BY <2>8, <2>9 DEF ShowableOnce
  <2>11. \A x \in DOMAIN scored'[p] : scored'[p][x].item \in ItemsOf(Kind(p)')
    BY <2>8, <2>9
  <2> QED
    BY <1>3, <2>2, <2>3, <2>6, <2>7, <2>9, <2>10, <2>11 DEF HitsOK
<1>14. ScoresOK(p)'
  <2>1. /\ Composite(i, rows[i], h.relevance) \in Int
        /\ h.relevance = 1000 /\ ~Traits[i].expired /\ rows[i].net >= 0 =>
              Composite(i, rows[i], h.relevance) >= 2000
        /\ h.relevance = 0 /\ ~Traits[i].pinned => Composite(i, rows[i], h.relevance) < 2000
    <3>1. hits \in [Items -> Nat]
      BY DEF TypeOK
    <3>2. PICK j \in Items, row \in Row, relevance \in 0..1000 :
             j = i /\ row = rows[i] /\ relevance = h.relevance
      BY <1>6, <1>10
    <3>3. /\ Composite(j, row, relevance) \in Int
          /\ relevance = 1000 /\ ~Traits[j].expired /\ row.net >= 0 =>
                Composite(j, row, relevance) >= 2000
          /\ relevance = 0 /\ ~Traits[j].pinned => Composite(j, row, relevance) < 2000
      BY SMTT(30), <3>1, CompositeBound
    <3> QED
      BY <3>2, <3>3
  <2>2. looked => IsRow(rows[i])
    BY DEF looked, Kept
  <2>3. looked /\ NeverFailing(p, i) => rows[i].net >= 0
    BY <1>10, <2>2 DEF NeverFailing
  <2>4. \A x \in DOMAIN scored[p] :
           /\ scored[p][x].relevance = 1000 /\ ~Traits[scored[p][x].item].expired
              /\ NeverFailing(p, scored[p][x].item) => scored[p][x].composite >= 2000
           /\ scored[p][x].relevance = 0 /\ ~Traits[scored[p][x].item].pinned
                => scored[p][x].composite < 2000
    BY <1>3 DEF PodOK, ScoresOK
  <2>5. ASSUME NEW x \in DOMAIN scored'[p]
        PROVE  (LET e == scored[p][x] IN
                /\ e.relevance = 1000 /\ ~Traits[e.item].expired /\ NeverFailing(p, e.item)
                      => e.composite >= 2000
                /\ e.relevance = 0 /\ ~Traits[e.item].pinned => e.composite < 2000)'
    <3>1. NeverFailing(p, scored[p][x].item)' => \A j : j = scored'[p][x].item => NeverFailing(p, j)
      BY <1>1 DEF NeverFailing
    <3>2. CASE x \in DOMAIN scored[p] /\ scored'[p][x] = scored[p][x]
      BY <2>4, <3>1, <3>2
    <3>3. CASE looked /\ scored'[p][x] = entry
      BY <1>11, <2>1, <2>3, <3>1, <3>3
    <3> QED
      BY <1>9, <3>2, <3>3
  <2> QED
    BY <2>5 DEF ScoresOK
<1>15. ShownOK(p)'
  BY <1>3 DEF ShownOK
<1>16. CompleteOK(p)'
  <2> SUFFICES ASSUME ~crossed[p], Cardinality(Candidates(p)) <= 3 * Limit,
                      NEW j \in ItemsOf(Kind(p)), Good(p, j)
               PROVE  \/ \E x \in DOMAIN found'[p] :
                            found'[p][x].item = j /\ found'[p][x].score # 1
                      \/ \E x \in DOMAIN scored'[p] : scored'[p][x].item = j
    BY <1>1, <1>2, ReadsKeep DEF CompleteOK
  <2>1. \/ \E x \in DOMAIN found[p] : found[p][x].item = j /\ found[p][x].score # 1
        \/ \E x \in DOMAIN scored[p] : scored[p][x].item = j
    BY <1>1, <1>3 DEF PodOK, CompleteOK
  <2>2. CASE \E x \in DOMAIN scored[p] : scored[p][x].item = j
    BY <1>8, <2>2
  <2>3. CASE \E x \in DOMAIN found[p] : x # 1 /\ found[p][x].item = j /\ found[p][x].score # 1
    BY <1>7, <2>3
  <2>4. CASE found[p][1].item = j /\ found[p][1].score # 1
    <3>1. j = i /\ h.score # 1
      BY <1>4, <2>4 DEF i
    <3>2. PICK row \in since[p][i] :
             /\ since[p][i] = {row}
             /\ IsRow(row) /\ ShowableOnce(p, i, Project(p))
      BY <3>1 DEF Good, Project
    <3>3. rows[i] = row
      BY <1>10, <3>2
    <3>4. Kept(p, i)
      <4>1. /\ row.status # "recalled" /\ (row.status # "active" => req[p].archived)
            /\ Project(p) \in {"", Traits[i].project} \/ Traits[i].project = ""
        BY <3>2 DEF ShowableOnce
      <4>2. ProjectMatch(i, req[p].project)
        BY <1>11, <4>1 DEF ProjectMatch, Project, ItemsOf
      <4>3. ~Hidden(i, row, req[p].archived)
        BY <4>1 DEF Hidden
      <4> QED
        BY <3>2, <3>3, <4>2, <4>3 DEF Kept
    <3>5. looked
      BY <3>1, <3>4 DEF looked, Gated
    <3> QED
      BY <1>8, <1>11, <3>1, <3>5
  <2> QED
    BY <2>1, <2>2, <2>3, <2>4
<1> QED
  BY <1>2, <1>13, <1>14, <1>15, <1>16, ReadsKeep DEF PodOK

----------------------------------------------------------------------------
(* The invariant.                                                          *)

LEMMA InvInit == Init => IInv
<1> SUFFICES ASSUME Init PROVE IInv
  OBVIOUS
<1>1. TypeOK
  BY TypeInit
<1>2. ASSUME NEW p \in Pods PROVE PodOK(p)
  <2>1. pc[p] = "idle" /\ outcome[p] = "none"
    BY <1>2 DEF Init
  <2>2. FlowOK(p) /\ RacesOK(p) /\ CopiesOK(p) /\ HitsOK(p)
    BY <2>1 DEF FlowOK, RacesOK, CopiesOK, HitsOK, InBlock, Formed
  <2>3. ScoresOK(p) /\ ShownOK(p) /\ CompleteOK(p)
    BY <2>1 DEF ScoresOK, ShownOK, CompleteOK, InBlock, Formed
  <2> QED
    BY <2>2, <2>3 DEF PodOK
<1> QED
  BY <1>1, <1>2 DEF IInv

LEMMA OwnStep ==
  ASSUME TypeOK, TypeOK', NEW p \in Pods, PodOK(p), Step(p)
  PROVE  PodOK(p)'
<1>1. CASE Begin(p)
  BY <1>1, BeginKeeps
<1>2. CASE SyncKind(p)
  BY <1>2, SyncKindKeeps
<1>3. CASE CreateIndex(p)
  BY <1>3, CreateIndexKeeps
<1>4. CASE Bulk(p)
  BY <1>4, BulkKeeps
<1>5. CASE Query(p)
  BY <1>5, QueryKeeps
<1>6. CASE QueryFails(p)
  BY <1>6, QueryFailsKeeps
<1>7. CASE FormatHit(p)
  BY <1>7, FormatHitKeeps
<1>8. CASE Rank(p)
  BY <1>8, RankKeeps
<1>9. CASE CountHit(p) \/ CountFails(p) \/ Spread(p) \/ Relate(p)
  BY <1>9, CountUntouched, UntouchedKeeps
<1>10. CASE NextScope(p)
  BY <1>10, NextScopeKeeps
<1> QED
  BY <1>1, <1>2, <1>3, <1>4, <1>5, <1>6, <1>7, <1>8, <1>9, <1>10 DEF Step, Search

LEMMA InvStep == IInv /\ [Next]_vars => IInv'
<1> SUFFICES ASSUME IInv, [Next]_vars PROVE IInv'
  OBVIOUS
<1>0. TypeOK /\ \A q \in Pods : PodOK(q)
  BY DEF IInv
<1>1. CASE Writer
  <2>1. WriterShape /\ TypeOK'
    BY <1>0, <1>1, WriterSteps, WriterTypes
  <2>2. \A q \in Pods : PodOK(q)'
    BY <1>0, <2>1, WriterUntouched, UntouchedKeeps
  <2> QED
    BY <2>1, <2>2 DEF IInv
<1>2. ASSUME NEW p \in Pods, Step(p) PROVE IInv'
  <2>1. TypeOK' /\ Frame(p)
    BY <1>0, <1>2, TypeStep, FrameStep DEF PodOK
  <2>2. PodOK(p)'
    BY <1>0, <1>2, <2>1, OwnStep
  <2>3. \A q \in Pods \ {p} : PodOK(q)'
    BY <1>0, <2>1, OtherUntouched, UntouchedKeeps
  <2> QED
    BY <2>1, <2>2, <2>3 DEF IInv
<1>3. CASE UNCHANGED vars
  <2>1. /\ UNCHANGED <<backend, hits, index, pc, req, scopes, sync, block, outcome, crossed,
                       searches>>
        /\ UNCHANGED <<rows, since>> /\ writes' = writes /\ links' = links
    BY <1>3 DEF vars, store
  <2>2. WriterShape
    BY <1>0, <2>1 DEF WriterShape, TypeOK
  <2>3. TypeOK'
    BY <1>0, <2>2, WriterTypes
  <2>4. \A q \in Pods : PodOK(q)'
    BY <1>0, <2>2, <2>3, WriterUntouched, UntouchedKeeps
  <2> QED
    BY <2>3, <2>4 DEF IInv
<1> QED
  BY <1>1, <1>2, <1>3 DEF Next, Step

----------------------------------------------------------------------------
(* The theorems.                                                           *)

(* Every state of every search satisfies the inductive invariant: types,   *)
(* what has been copied into the index, and what the hits at hand are      *)
(* (tools/search.py, OpenSearchSearch).                                    *)
THEOREM Invariant == Spec => []IInv
<1>1. Init => IInv
  BY InvInit
<1>2. IInv /\ [Next]_vars => IInv'
  BY InvStep
<1> QED
  BY <1>1, <1>2, PTL DEF Spec

LEMMA ShownFacts ==
  ASSUME IInv, NEW p \in Pods, Formed(p)
  PROVE  InBlock(p) /\ HitsOK(p) /\ ScoresOK(p) /\ ShownOK(p) /\ CompleteOK(p)
         /\ \A i \in Range(top[p]) : ShowableOnce(p, i, Project(p))
<1>1. InBlock(p) /\ PodOK(p)
  BY DEF IInv, Formed, InBlock
<1>2. ASSUME NEW i \in Range(top[p]) PROVE ShowableOnce(p, i, Project(p))
  <2>1. PICK x \in DOMAIN scored[p] : scored[p][x].item = i
    BY <1>1, <1>2 DEF PodOK, ShownOK
  <2>2. ShowableOnce(p, scored[p][x].item, Project(p))
    BY <1>1 DEF PodOK, HitsOK
  <2> QED
    BY <2>1, <2>2
<1> QED
  BY <1>1, <1>2 DEF PodOK

(* No search shows a row that has not been stored, visible and of its      *)
(* project at some moment since it began, whatever the index still holds   *)
(* (tools/search.py _scope_block, policies.hidden).                        *)
THEOREM HiddenStaysHidden == Spec => []NothingHiddenIsShown
<1>1. IInv => NothingHiddenIsShown
  <2> SUFFICES ASSUME IInv, NEW p \in Pods, Formed(p)
               PROVE  /\ \A i \in Range(top[p]) :
                            ShowableOnce(p, i, IF Kind(p) = "rule" THEN "" ELSE req[p].project)
                      /\ \A i \in Range(related[p]) : ShowableOnce(p, i, "")
    BY DEF NothingHiddenIsShown
  <2>1. \A i \in Range(top[p]) : ShowableOnce(p, i, Project(p))
    BY ShownFacts
  <2>2. \A i \in Range(related[p]) : ShowableOnce(p, i, "")
    BY ShownFacts DEF ShownOK
  <2> QED
    BY <2>1, <2>2 DEF Project
<1> QED
  BY <1>1, Invariant, PTL

(* A scope with room to spare shows every row that matched throughout,     *)
(* unless another process wrote the index meanwhile: the hits dropped      *)
(* after the query never cost it one (_scope_block, reindex).              *)
THEOREM QuietIsComplete == Spec => []QuietSearchIsComplete
<1>1. IInv => QuietSearchIsComplete
  <2> SUFFICES ASSUME IInv, NEW p \in Pods, Formed(p), ~crossed[p],
                      Cardinality(Candidates(p)) <= 3 * Limit, Len(top[p]) < Limit,
                      NEW i \in ItemsOf(Kind(p)), Good(p, i)
               PROVE  i \in Range(top[p])
    BY DEF QuietSearchIsComplete
  <2>1. pc[p] # "format"
    BY DEF Formed
  <2>2. \E x \in DOMAIN scored[p] : scored[p][x].item = i
    BY <2>1, ShownFacts DEF CompleteOK
  <2> QED
    BY <2>2, ShownFacts DEF ShownOK
<1> QED
  BY <1>1, Invariant, PTL

(* No counter, age or importance lifts an unpinned worst match above a best *)
(* match that nothing speaks against: the weights of scoring.py, for any   *)
(* values of the counters.                                                 *)
THEOREM BestMatchStays == Spec => []BestMatchIsNotOutvoted
<1>1. IInv => BestMatchIsNotOutvoted
  <2> SUFFICES ASSUME IInv, NEW p \in Pods, Formed(p),
                      NEW m \in DOMAIN scored[p], NEW n \in DOMAIN scored[p],
                      scored[p][m].relevance = 1000, scored[p][n].relevance = 0,
                      ~Traits[scored[p][m].item].expired,
                      NeverFailing(p, scored[p][m].item),
                      ~Traits[scored[p][n].item].pinned,
                      scored[p][n].item \in Range(top[p])
               PROVE  scored[p][m].item \in Range(top[p])
    BY DEF BestMatchIsNotOutvoted, Range
  <2>1. scored[p][m].composite >= 2000 /\ scored[p][n].composite < 2000
    BY ShownFacts DEF ScoresOK
  <2>2. scored[p][m].composite \in Int /\ scored[p][n].composite \in Int
    <3>1. scored[p] \in Seq(Scored)
      BY DEF IInv, TypeOK
    <3>2. scored[p][m] \in Scored /\ scored[p][n] \in Scored
      BY <3>1
    <3> QED
      BY <3>2 DEF Scored
  <2>3. scored[p][m].composite > scored[p][n].composite
    BY <2>1, <2>2
  <2>4. \A x, y \in DOMAIN scored[p] :
           scored[p][x].composite > scored[p][y].composite
           /\ scored[p][y].item \in Range(top[p]) => scored[p][x].item \in Range(top[p])
    <3>1. ShownOK(p)
      BY ShownFacts
    <3> QED
      BY <3>1 DEF ShownOK
  <2> QED
    BY <2>3, <2>4
<1> QED
  BY <1>1, Invariant, PTL

(* A search fails for one reason only: another process created an index    *)
(* between its look for it and its own attempt (_scope_block,              *)
(* OpenSearchSearch.reindex).                                              *)
THEOREM OnlyRacesFail == Spec => []OnlyCreationRacesFail
<1>1. IInv => OnlyCreationRacesFail
  BY DEF IInv, PodOK, RacesOK, OnlyCreationRacesFail
<1> QED
  BY <1>1, Invariant, PTL
=============================================================================
