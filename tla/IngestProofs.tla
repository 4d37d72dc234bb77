---------------------------- MODULE IngestProofs ----------------------------
(***************************************************************************)
(* Proofs about the two ways rules are ingested: RuleIngest, for any       *)
(* spans, stored rules, appliers, files and crashes, and RemoteIngest, for *)
(* any clients, sources, batch sizes, numbers of attempts and faults.      *)
(***************************************************************************)
EXTENDS RuleIngest, RemoteIngest, FiniteSetTheorems, FunctionTheorems,
        SequenceTheorems, TLAPS

\* The counts of the processes are numbers.
Counts ==
    /\ apc \in [Appliers -> {"idle", "next", "write", "event"}]
    /\ report \in [Appliers -> Report]
    /\ made \in [Appliers -> Nat]

\* The rules are a sequence of records; which texts they have does not matter.
RuleOf(T) == [text : T, status : {"active", "superseded"}, by : Nat,
              how : {"stored", "add", "refine"}, count : Nat, events : Nat]
RulesTyped == \E T : rules \in Seq(RuleOf(T))

\* IsDuplicate, of the rules table.
Duplicate(v, table) ==
    /\ v.action = "add"
    /\ \E i \in DOMAIN table : table[i].status = "active" /\ table[i].text = v.text

\* A process about to write an added rule has just seen that no active rule has
\* its text, and unless two were about to write at once it is the only one.
LookedFor ==
    ~crossed =>
        /\ \A a, b \in Appliers : apc[a] = "write" /\ apc[b] = "write" => a = b
        /\ \A a \in Appliers :
              apc[a] = "write" => ~Duplicate(Head(verdicts[a]), rules)

\* Every process has verdicts and a step.
Placed ==
    /\ verdicts = [a \in Appliers |-> verdicts[a]]
    /\ apc = [a \in Appliers |-> apc[a]]

RulesInv == Placed /\ RulesTyped /\ LookedFor /\ AddsAreIdempotent

----------------------------------------------------------------------------
(* The report.                                                             *)

LEMMA HonestStep ==
  Counts /\ ReportIsHonest /\ [Next]_vars => Counts' /\ ReportIsHonest'
<1> SUFFICES ASSUME Counts, ReportIsHonest, [Next]_vars
             PROVE  Counts' /\ ReportIsHonest'
  OBVIOUS
<1>1. \A a \in Appliers :
        /\ report[a] \in Report /\ made[a] \in Nat
        /\ report[a].created \in Nat /\ report[a].errors \in Nat
        /\ made[a] <= report[a].created
        /\ report[a].created <= made[a] + report[a].errors
  BY DEF Counts, ReportIsHonest, Report
<1>2. ASSUME NEW a \in Appliers,
             report' \in [Appliers -> Report], made' \in [Appliers -> Nat],
             \A b \in Appliers \ {a} : report'[b] = report[b] /\ made'[b] = made[b],
             made'[a] <= report'[a].created,
             report'[a].created <= made'[a] + report'[a].errors,
             apc' \in [Appliers -> {"idle", "next", "write", "event"}]
      PROVE  Counts' /\ ReportIsHonest'
  BY <1>1, <1>2 DEF Counts, ReportIsHonest
<1>3. ASSUME NEW a \in Appliers, NEW label \in {"idle", "next", "write", "event"},
             Step(a, label), UNCHANGED <<report, made>>
      PROVE  Counts' /\ ReportIsHonest'
  BY <1>3 DEF Counts, Step, ReportIsHonest
<1> DEFINE Steps == apc' \in [Appliers -> {"idle", "next", "write", "event"}]
<1>0. ASSUME NEW a \in Appliers, NEW label \in {"idle", "next", "write", "event"},
             Step(a, label)
      PROVE  Steps
  BY <1>0 DEF Counts, Step
<1>4. CASE AgentJudges
  BY <1>4 DEF AgentJudges, Counts, ReportIsHonest
<1>5. ASSUME NEW a \in Appliers, ApplyRules(a) \/ IngestAuto(a)
      PROVE  Counts' /\ ReportIsHonest'
  BY <1>3, <1>5 DEF ApplyRules, IngestAuto, Begin
<1>6. ASSUME NEW a \in Appliers, Look(a) PROVE Counts' /\ ReportIsHonest'
  <2>1. CASE IsDuplicate(Current(a))
    <3> DEFINE r == [report[a] EXCEPT !.duplicate = report[a].duplicate + 1]
    <3>1. /\ r \in Report /\ r.created = report[a].created
          /\ r.errors = report[a].errors
      BY <1>1 DEF Report
    <3>2. report' = [report EXCEPT ![a] = r] /\ Steps /\ made' = made
      BY <1>0, <1>6, <2>1 DEF Look, Drop, Count
    <3> HIDE DEF r
    <3>3. report' \in [Appliers -> Report] /\ made' \in [Appliers -> Nat]
      BY <1>1, <3>1, <3>2 DEF Counts
    <3>4. /\ \A b \in Appliers \ {a} : report'[b] = report[b] /\ made'[b] = made[b]
          /\ made'[a] <= report'[a].created
          /\ report'[a].created <= made'[a] + report'[a].errors
      BY <1>1, <3>1, <3>2 DEF Counts
    <3> QED
      BY <1>2, <3>2, <3>3, <3>4
  <2>2. CASE ~IsDuplicate(Current(a))
    BY <1>3, <1>6, <2>2 DEF Look
  <2> QED
    BY <2>1, <2>2
<1>7. ASSUME NEW a \in Appliers, Insert(a) PROVE Counts' /\ ReportIsHonest'
  <2> DEFINE r == [report[a] EXCEPT !.created = report[a].created + 1]
  <2>1. /\ r \in Report /\ r.created = report[a].created + 1
        /\ r.errors = report[a].errors
    BY <1>1 DEF Report
  <2>2. /\ report' = [report EXCEPT ![a] = r] /\ Steps
        /\ made' = [made EXCEPT ![a] = made[a] + 1]
    BY <1>0, <1>7 DEF Insert, Drop, Count
  <2> HIDE DEF r
  <2> QED
    <3>1. report' \in [Appliers -> Report] /\ made' \in [Appliers -> Nat]
      BY <1>1, <2>1, <2>2 DEF Counts
    <3>2. /\ \A b \in Appliers \ {a} : report'[b] = report[b] /\ made'[b] = made[b]
          /\ made'[a] <= report'[a].created
          /\ report'[a].created <= made'[a] + report'[a].errors
      BY <1>1, <2>1, <2>2 DEF Counts
    <3> QED
      BY <1>2, <3>1, <3>2, <2>1, <2>2
<1>8. ASSUME NEW a \in Appliers, Reinforce(a) \/ Event(a)
      PROVE  Counts' /\ ReportIsHonest'
  <2> DEFINE r == [report[a] EXCEPT !.reinforced = report[a].reinforced + 1]
  <2>1. /\ r \in Report /\ r.created = report[a].created
        /\ r.errors = report[a].errors
    BY <1>1 DEF Report
  <2>2. /\ made' = made
        /\ \/ Step(a, "event") /\ report' = report
           \/ Steps /\ report' = [report EXCEPT ![a] = r]
    BY <1>0, <1>8 DEF Reinforce, Event, Drop, Count
  <2> HIDE DEF r
  <2> QED
    <3>1. CASE Step(a, "event") /\ report' = report
      BY <1>3, <2>2, <3>1
    <3>2. CASE Steps /\ report' = [report EXCEPT ![a] = r]
      <4>1. report' \in [Appliers -> Report] /\ made' \in [Appliers -> Nat]
        BY <1>1, <2>1, <2>2, <3>2 DEF Counts
      <4>2. /\ \A b \in Appliers \ {a} : report'[b] = report[b] /\ made'[b] = made[b]
            /\ made'[a] <= report'[a].created
            /\ report'[a].created <= made'[a] + report'[a].errors
        BY <1>1, <2>1, <2>2, <3>2 DEF Counts
      <4> QED
        BY <1>2, <3>2, <4>1, <4>2
    <3> QED
      BY <2>2, <3>1, <3>2
<1>9. ASSUME NEW a \in Appliers, VerdictFails(a) PROVE Counts' /\ ReportIsHonest'
  <2>1. PICK r \in Failures(report[a], Current(a)) :
           report' = [report EXCEPT ![a] = r]
    BY <1>9 DEF VerdictFails, Count
  <2>2. /\ r \in Report /\ r.errors = report[a].errors + 1
        /\ \/ r.created = report[a].created
           \/ r.created = report[a].created + 1
    <3> DEFINE x == [report[a] EXCEPT !.errors = report[a].errors + 1]
               y == [x EXCEPT !.reinforced = x.reinforced + 1]
               z == [x EXCEPT !.created = x.created + 1]
    <3>1. r = x \/ r = y \/ r = z
      BY <1>1, <2>1 DEF Failures, Report
    <3>2. /\ x \in Report /\ x.errors = report[a].errors + 1
          /\ x.created = report[a].created
      BY <1>1 DEF Report
    <3> HIDE DEF x
    <3>3. /\ y \in Report /\ y.errors = x.errors /\ y.created = x.created
      BY <3>2 DEF Report
    <3>4. /\ z \in Report /\ z.errors = x.errors /\ z.created = x.created + 1
      BY <3>2 DEF Report
    <3> HIDE DEF y, z
    <3> QED
      BY <3>1, <3>2, <3>3, <3>4
  <2>3. Steps /\ made' = made
    BY <1>0, <1>9 DEF VerdictFails, Drop
  <2> QED
    <3>1. report' \in [Appliers -> Report] /\ made' \in [Appliers -> Nat]
      BY <1>1, <2>1, <2>2, <2>3 DEF Counts
    <3>2. /\ \A b \in Appliers \ {a} : report'[b] = report[b] /\ made'[b] = made[b]
          /\ made'[a] <= report'[a].created
          /\ report'[a].created <= made'[a] + report'[a].errors
      BY <1>1, <2>1, <2>2, <2>3 DEF Counts
    <3> QED
      BY <1>2, <3>1, <3>2, <2>1, <2>2, <2>3
<1>10. ASSUME NEW a \in Appliers, Ends(a) PROVE Counts' /\ ReportIsHonest'
  <2>1. /\ NoReport \in Report /\ NoReport.created = 0 /\ NoReport.errors = 0
    BY DEF NoReport, Report
  <2>2. /\ report' = [report EXCEPT ![a] = NoReport]
        /\ made' = [made EXCEPT ![a] = 0] /\ Steps
    BY <1>0, <1>10 DEF Ends, Count
  <2> QED
    <3>1. report' \in [Appliers -> Report] /\ made' \in [Appliers -> Nat]
      BY <1>1, <2>1, <2>2 DEF Counts
    <3>2. /\ \A b \in Appliers \ {a} : report'[b] = report[b] /\ made'[b] = made[b]
          /\ made'[a] <= report'[a].created
          /\ report'[a].created <= made'[a] + report'[a].errors
      BY <1>1, <2>1, <2>2 DEF Counts
    <3> QED
      BY <1>2, <3>1, <3>2, <2>1, <2>2
<1>11. CASE UNCHANGED vars
  BY <1>11 DEF vars, Counts, ReportIsHonest
<1> QED
  BY <1>4, <1>5, <1>6, <1>7, <1>8, <1>9, <1>10, <1>11
     DEF Next, Commit, QueueForReview, ApplierKilled

\* What a process reports of the rules it made is what it made, but for a
\* commit that failed after it was counted (adjudicate.py, commit_verdicts).
THEOREM ReportsAreHonest == Spec => []ReportIsHonest
<1>1. Init => Counts /\ ReportIsHonest
  BY DEF Init, Counts, ReportIsHonest, NoReport, Report
<1> QED
  BY <1>1, HonestStep, PTL DEF Spec

----------------------------------------------------------------------------
(* The rules.                                                              *)

\* A table that has no other rules than R and no other active ones.
Settles(R, Q) ==
    /\ DOMAIN Q = DOMAIN R
    /\ \A i \in DOMAIN R :
          /\ Q[i].text = R[i].text /\ Q[i].how = R[i].how
          /\ Q[i].status = "active" => R[i].status = "active"

LEMMA Change ==
  ASSUME NEW S, NEW R \in Seq(S), NEW i, NEW y, i \in DOMAIN R => y \in S
  PROVE  /\ [R EXCEPT ![i] = y] \in Seq(S)
         /\ DOMAIN [R EXCEPT ![i] = y] = DOMAIN R
<1>1. CASE i \in DOMAIN R
  <2>1. i \in 1..Len(R) /\ y \in S
    BY <1>1
  <2> QED
    BY <2>1, ExceptSeq
<1>2. CASE i \notin DOMAIN R
  <2>1. [R EXCEPT ![i] = y] = R
    BY <1>2
  <2> QED
    BY <2>1
<1> QED
  BY <1>1, <1>2

\* Changing one field of one rule.
LEMMA ChangeField ==
  ASSUME NEW T, NEW R \in Seq(RuleOf(T)), NEW i
  PROVE  /\ LET Q == [R EXCEPT ![i].count = @ + 1]
            IN  Q \in Seq(RuleOf(T)) /\ Settles(R, Q)
         /\ LET Q == [R EXCEPT ![i].events = @ + 1]
            IN  Q \in Seq(RuleOf(T)) /\ Settles(R, Q)
         /\ LET Q == [R EXCEPT ![i].status = "superseded"]
            IN  Q \in Seq(RuleOf(T)) /\ Settles(R, Q)
         /\ \A n \in Nat :
              LET Q == [R EXCEPT ![i].by = n]
              IN  Q \in Seq(RuleOf(T)) /\ Settles(R, Q)
<1>1. i \in DOMAIN R => R[i] \in RuleOf(T)
  OBVIOUS
<1>2. ASSUME NEW y, i \in DOMAIN R =>
                       /\ y \in RuleOf(T) /\ y.text = R[i].text /\ y.how = R[i].how
                       /\ y.status = "active" => R[i].status = "active"
      PROVE  LET Q == [R EXCEPT ![i] = y] IN Q \in Seq(RuleOf(T)) /\ Settles(R, Q)
  <2> DEFINE Q == [R EXCEPT ![i] = y]
  <2>1. Q \in Seq(RuleOf(T)) /\ DOMAIN Q = DOMAIN R
    BY <1>2, Change
  <2>2. \A j \in DOMAIN R : Q[j] = IF j = i THEN y ELSE R[j]
    OBVIOUS
  <2> HIDE DEF Q
  <2>3. Settles(R, Q)
    BY <1>2, <2>1, <2>2 DEF Settles
  <2> QED
    BY <2>1, <2>3 DEF Q
<1>3. LET y == [R[i] EXCEPT !.count = R[i].count + 1] IN
      i \in DOMAIN R =>
         /\ y \in RuleOf(T) /\ y.text = R[i].text /\ y.how = R[i].how
         /\ y.status = "active" => R[i].status = "active"
  <2>1. i \in DOMAIN R => R[i].count + 1 \in Nat
    BY <1>1 DEF RuleOf
  <2> DEFINE n == R[i].count + 1
  <2> HIDE DEF n
  <2>2. i \in DOMAIN R => n \in Nat
    BY <2>1 DEF n
  <2>3. LET y == [R[i] EXCEPT !.count = n] IN
        i \in DOMAIN R =>
           /\ y \in RuleOf(T) /\ y.text = R[i].text /\ y.how = R[i].how
           /\ y.status = "active" => R[i].status = "active"
    BY <1>1, <2>2 DEF RuleOf
  <2> QED
    BY <2>3 DEF n
<1>4. LET y == [R[i] EXCEPT !.events = R[i].events + 1] IN
      i \in DOMAIN R =>
         /\ y \in RuleOf(T) /\ y.text = R[i].text /\ y.how = R[i].how
         /\ y.status = "active" => R[i].status = "active"
  <2>1. i \in DOMAIN R => R[i].events + 1 \in Nat
    BY <1>1 DEF RuleOf
  <2> DEFINE n == R[i].events + 1
  <2> HIDE DEF n
  <2>2. i \in DOMAIN R => n \in Nat
    BY <2>1 DEF n
  <2>3. LET y == [R[i] EXCEPT !.events = n] IN
        i \in DOMAIN R =>
           /\ y \in RuleOf(T) /\ y.text = R[i].text /\ y.how = R[i].how
           /\ y.status = "active" => R[i].status = "active"
    BY <1>1, <2>2 DEF RuleOf
  <2> QED
    BY <2>3 DEF n
<1>5. LET y == [R[i] EXCEPT !.status = "superseded"] IN
      i \in DOMAIN R =>
         /\ y \in RuleOf(T) /\ y.text = R[i].text /\ y.how = R[i].how
         /\ y.status = "active" => R[i].status = "active"
  BY <1>1 DEF RuleOf
<1>6. ASSUME NEW n \in Nat
      PROVE  LET y == [R[i] EXCEPT !.by = n] IN
             i \in DOMAIN R =>
                /\ y \in RuleOf(T) /\ y.text = R[i].text /\ y.how = R[i].how
                /\ y.status = "active" => R[i].status = "active"
  BY <1>1 DEF RuleOf
<1> QED
  BY <1>2, <1>3, <1>4, <1>5, <1>6

LEMMA SettlesTwice ==
  ASSUME NEW R, NEW Q, NEW P, Settles(R, Q), Settles(Q, P)
  PROVE  Settles(R, P)
BY DEF Settles

LEMMA SettlesSame == \A R : Settles(R, R)
BY DEF Settles

LEMMA SettledNoDuplicate ==
  ASSUME NEW R, NEW Q, Settles(R, Q), NEW v, ~Duplicate(v, R)
  PROVE  ~Duplicate(v, Q)
BY DEF Duplicate, Settles

LEMMA SettledIdempotent ==
  ASSUME AddsAreIdempotent, Settles(rules, rules'), crossed' = crossed
  PROVE  AddsAreIdempotent'
BY DEF AddsAreIdempotent, Settles

\* A process that goes to a step other than the writing one, while the rules
\* settle.
LEMMA QuietStep ==
  ASSUME RulesInv, NEW a \in Appliers, NEW label, label # "write",
         Step(a, label), NEW w, verdicts' = [verdicts EXCEPT ![a] = w],
         RulesTyped', Settles(rules, rules'), crossed' = crossed
  PROVE  RulesInv'
<1>1. Placed'
  BY DEF RulesInv, Placed, Step
<1>2. \A b \in Appliers \ {a} : apc'[b] = apc[b] /\ verdicts'[b] = verdicts[b]
  BY DEF RulesInv, Placed, Step
<1>3. apc'[a] # "write"
  BY DEF RulesInv, Placed, Step
<1>4. LookedFor'
  <2> SUFFICES ASSUME ~crossed, NEW b \in Appliers, apc'[b] = "write"
               PROVE  /\ ~Duplicate(Head(verdicts'[b]), rules')
                      /\ \A d \in Appliers : apc'[d] = "write" => b = d
    BY DEF LookedFor
  <2>1. b # a /\ apc[b] = "write" /\ verdicts'[b] = verdicts[b]
    BY <1>2, <1>3
  <2>2. ~Duplicate(Head(verdicts[b]), rules)
    BY <2>1 DEF RulesInv, LookedFor
  <2>3. ~Duplicate(Head(verdicts'[b]), rules')
    BY <2>1, <2>2, SettledNoDuplicate
  <2>4. ASSUME NEW d \in Appliers, apc'[d] = "write" PROVE b = d
    <3>1. d # a /\ apc[d] = "write"
      BY <1>2, <1>3, <2>4
    <3> QED
      BY <2>1, <3>1 DEF RulesInv, LookedFor
  <2> QED
    BY <2>3, <2>4
<1>5. AddsAreIdempotent'
  BY SettledIdempotent DEF RulesInv
<1> QED
  BY <1>1, <1>4, <1>5 DEF RulesInv

LEMMA LookStep ==
  ASSUME RulesInv, NEW a \in Appliers, Look(a)
  PROVE  RulesInv'
<1>1. RulesTyped' /\ Settles(rules, rules')
  <2>1. rules' = rules
    BY DEF Look
  <2> QED
    BY <2>1, SettlesSame DEF RulesInv, RulesTyped
<1>2. CASE IsDuplicate(Current(a))
  <2>1. /\ verdicts' = [verdicts EXCEPT ![a] = Tail(verdicts[a])]
        /\ Step(a, "next") /\ crossed' = crossed
    BY <1>2 DEF Look, Drop
  <2> QED
    BY <1>1, <2>1, QuietStep
<1>3. CASE ~IsDuplicate(Current(a))
  <2>1. /\ apc' = [apc EXCEPT ![a] = "write"] /\ verdicts' = verdicts
        /\ crossed' = (crossed \/ \E b \in Appliers \ {a} : apc[b] = "write")
        /\ rules' = rules
    BY <1>3 DEF Look, Step
  <2>2. ~Duplicate(Head(verdicts[a]), rules)
    BY <1>3 DEF IsDuplicate, Duplicate, Current
  <2>3. Placed'
    BY <2>1 DEF RulesInv, Placed
  <2>4. \A b \in Appliers \ {a} : apc'[b] = apc[b]
    BY <2>1 DEF RulesInv, Placed
  <2>5. LookedFor'
    <3> SUFFICES ASSUME ~crossed'
                 PROVE  /\ \A b, d \in Appliers :
                              apc'[b] = "write" /\ apc'[d] = "write" => b = d
                        /\ \A b \in Appliers : apc'[b] = "write" =>
                              ~Duplicate(Head(verdicts'[b]), rules')
      BY DEF LookedFor
    <3>1. \A b \in Appliers \ {a} : apc'[b] # "write"
      BY <2>1, <2>4
    <3> QED
      BY <2>1, <2>2, <3>1
  <2>6. AddsAreIdempotent'
    BY <2>1 DEF RulesInv, AddsAreIdempotent
  <2> QED
    BY <1>1, <2>3, <2>5, <2>6 DEF RulesInv
<1> QED
  BY <1>2, <1>3

LEMMA InsertStep ==
  ASSUME RulesInv, NEW a \in Appliers, Insert(a)
  PROVE  RulesInv'
<1> DEFINE v == Head(verdicts[a])
           id == Len(rules) + 1
           half == [rules EXCEPT ![v.rule].status = "superseded"]
           demoted == IF v.action = "refine"
                      THEN [half EXCEPT ![v.rule].by = id] ELSE rules
           new == NewRule(v.text, v.action)
<1>1. /\ apc[a] = "write" /\ v.action \in {"add", "refine"}
      /\ rules' = Append(demoted, new)
      /\ verdicts' = [verdicts EXCEPT ![a] = Tail(verdicts[a])]
      /\ apc' = [apc EXCEPT ![a] = "next"] /\ crossed' = crossed
  BY DEF Insert, Current, Drop, Step
<1>2. PICK S : rules \in Seq(RuleOf(S))
  BY DEF RulesInv, RulesTyped
<1> DEFINE T == S \cup {v.text}
<1>3. rules \in Seq(RuleOf(T))
  BY <1>2, SeqMonotonic DEF RuleOf
<1>4. id \in Nat
  BY <1>3
<1>5. demoted \in Seq(RuleOf(T)) /\ Settles(rules, demoted)
  <2> HIDE DEF v, id, T
  <2>1. half \in Seq(RuleOf(T)) /\ Settles(rules, half)
    BY <1>3, ChangeField
  <2>2. LET Q == [half EXCEPT ![v.rule].by = id]
        IN  Q \in Seq(RuleOf(T)) /\ Settles(half, Q)
    <3> HIDE DEF half
    <3> QED  BY <1>4, <2>1, ChangeField
  <2> HIDE DEF half
  <2> QED
    BY <1>3, <2>1, <2>2, SettlesTwice, SettlesSame
<1>6. new \in RuleOf(T) /\ new.text = v.text /\ new.how = v.action
  BY <1>1 DEF NewRule, RuleOf
<1> HIDE DEF demoted, half, new, T
<1>7. /\ rules' \in Seq(RuleOf(T)) /\ Len(rules') = Len(demoted) + 1
      /\ \A i \in 1..Len(demoted) : rules'[i] = demoted[i]
      /\ rules'[Len(demoted) + 1] = new
  BY <1>1, <1>5, <1>6, AppendProperties
<1>8. Len(demoted) = Len(rules) /\ DOMAIN rules = 1..Len(rules)
      /\ DOMAIN rules' = 1..(Len(rules) + 1) /\ Len(rules) \in Nat
  BY <1>3, <1>5, <1>7 DEF Settles
<1>9. Placed'
  BY <1>1 DEF RulesInv, Placed
<1>10. LookedFor'
  <2> SUFFICES ASSUME ~crossed PROVE \A b \in Appliers : apc'[b] # "write"
    BY <1>1 DEF LookedFor
  <2> QED
    BY <1>1 DEF RulesInv, Placed, LookedFor
<1>11. AddsAreIdempotent'
  <2> SUFFICES ASSUME ~crossed, NEW i \in DOMAIN rules', NEW j \in DOMAIN rules',
                      i < j, rules'[j].how = "add", rules'[i].text = rules'[j].text,
                      rules'[i].status = "active"
               PROVE  FALSE
    BY <1>1 DEF AddsAreIdempotent
  <2>1. i \in 1..Len(rules) /\ rules'[i] = demoted[i]
    BY <1>7, <1>8
  <2>2. /\ rules[i].text = rules'[i].text /\ rules[i].status = "active"
    BY <1>5, <1>8, <2>1 DEF Settles
  <2>3. CASE j \in 1..Len(rules)
    <3>1. rules[j].how = "add" /\ rules[j].text = rules'[j].text
      BY <1>5, <1>7, <1>8, <2>3 DEF Settles
    <3> QED
      BY <1>8, <2>1, <2>2, <2>3, <3>1 DEF RulesInv, AddsAreIdempotent
  <2>4. CASE j = Len(rules) + 1
    <3>1. v.action = "add" /\ rules[i].text = v.text
      BY <1>6, <1>7, <1>8, <2>2, <2>4
    <3>2. Duplicate(v, rules)
      BY <1>8, <2>1, <2>2, <3>1 DEF Duplicate
    <3> QED
      BY <1>1, <3>2 DEF RulesInv, LookedFor
  <2> QED
    BY <1>8, <2>3, <2>4
<1> QED
  BY <1>7, <1>9, <1>10, <1>11 DEF RulesInv, RulesTyped

LEMMA ReinforceStep ==
  ASSUME RulesInv, NEW a \in Appliers, Reinforce(a) \/ Event(a)
  PROVE  RulesInv'
<1> DEFINE k == Head(verdicts[a]).rule
           counted == [rules EXCEPT ![k].count = @ + 1]
<1>1. PICK T : rules \in Seq(RuleOf(T))
  BY DEF RulesInv, RulesTyped
<1>2. counted \in Seq(RuleOf(T)) /\ Settles(rules, counted)
  <2> HIDE DEF k
  <2> QED  BY <1>1, ChangeField
<1>3. LET Q == [counted EXCEPT ![k].events = @ + 1]
      IN  Q \in Seq(RuleOf(T)) /\ Settles(counted, Q)
  <2> HIDE DEF k, counted
  <2> QED  BY <1>2, ChangeField
<1>4. LET Q == [rules EXCEPT ![k].events = @ + 1]
      IN  Q \in Seq(RuleOf(T)) /\ Settles(rules, Q)
  <2> HIDE DEF k
  <2> QED  BY <1>1, ChangeField
<1>5. \/ rules' = counted
      \/ rules' = [counted EXCEPT ![k].events = @ + 1]
      \/ rules' = [rules EXCEPT ![k].events = @ + 1]
  <2>1. CASE Event(a)
    BY <2>1 DEF Event, Current
  <2>2. CASE Reinforce(a)
    <3>1. \/ rules' = counted
          \/ rules' = [rules EXCEPT ![k].count = @ + 1, ![k].events = @ + 1]
      BY <2>2, Zenon DEF Reinforce, Current
    <3>2. [rules EXCEPT ![k].count = @ + 1, ![k].events = @ + 1]
             = [counted EXCEPT ![k].events = @ + 1]
      OBVIOUS
    <3> QED
      BY <3>1, <3>2, Zenon
  <2> QED
    BY <2>1, <2>2
<1>6. RulesTyped' /\ Settles(rules, rules')
  <2> DEFINE both == [counted EXCEPT ![k].events = @ + 1]
             event == [rules EXCEPT ![k].events = @ + 1]
  <2>1. both \in Seq(RuleOf(T)) /\ Settles(counted, both)
    BY <1>3
  <2>2. event \in Seq(RuleOf(T)) /\ Settles(rules, event)
    BY <1>4
  <2>3. rules' = counted \/ rules' = both \/ rules' = event
    BY <1>5
  <2> HIDE DEF k, counted, both, event
  <2>4. Settles(rules, both)
    BY <1>2, <2>1, SettlesTwice
  <2> QED
    BY <1>2, <2>1, <2>2, <2>3, <2>4 DEF RulesTyped
<1>7. /\ crossed' = crossed
      /\ Step(a, "event") \/ Step(a, "next")
      /\ verdicts' = verdicts \/ verdicts' = [verdicts EXCEPT ![a] = Tail(verdicts[a])]
  BY DEF Reinforce, Event, Drop
<1>8. \E w : verdicts' = [verdicts EXCEPT ![a] = w]
  <2>1. verdicts = [verdicts EXCEPT ![a] = verdicts[a]]
    BY DEF RulesInv, Placed
  <2> QED
    BY <1>7, <2>1
<1> QED
  BY <1>6, <1>7, <1>8, QuietStep

LEMMA RulesStep == RulesInv /\ [Next]_vars => RulesInv'
<1> SUFFICES ASSUME RulesInv, [Next]_vars PROVE RulesInv'
  OBVIOUS
<1>1. ASSUME UNCHANGED <<rules, apc, verdicts, crossed>> PROVE RulesInv'
  BY <1>1 DEF RulesInv, Placed, RulesTyped, LookedFor, AddsAreIdempotent
<1>2. rules' = rules => RulesTyped' /\ Settles(rules, rules')
  BY SettlesSame DEF RulesInv, RulesTyped
<1>3. ASSUME NEW a \in Appliers, ApplyRules(a) \/ IngestAuto(a) PROVE RulesInv'
  <2>1. PICK w, q : Begin(a, w, q)
    BY <1>3 DEF ApplyRules, IngestAuto
  <2>2. /\ Step(a, "next") /\ verdicts' = [verdicts EXCEPT ![a] = w]
        /\ rules' = rules /\ crossed' = crossed
    BY <2>1 DEF Begin
  <2> QED
    BY <1>2, <2>2, QuietStep
<1>4. ASSUME NEW a \in Appliers, VerdictFails(a) PROVE RulesInv'
  <2>1. /\ Step(a, "next") /\ verdicts' = [verdicts EXCEPT ![a] = Tail(verdicts[a])]
        /\ rules' = rules /\ crossed' = crossed
    BY <1>4 DEF VerdictFails, Drop
  <2> QED
    BY <1>2, <2>1, QuietStep
<1>5. ASSUME NEW a \in Appliers, QueueForReview(a) \/ ApplierKilled(a) PROVE RulesInv'
  <2>1. /\ Step(a, "idle") /\ verdicts' = [verdicts EXCEPT ![a] = << >>]
        /\ rules' = rules /\ crossed' = crossed
    BY <1>5 DEF QueueForReview, ApplierKilled, Ends
  <2> QED
    BY <1>2, <2>1, QuietStep
<1>6. CASE AgentJudges \/ UNCHANGED vars
  BY <1>1, <1>6 DEF AgentJudges, vars
<1> QED
  BY <1>3, <1>4, <1>5, <1>6, LookStep, InsertStep, ReinforceStep DEF Next, Commit

\* Unless two processes were about to write at once, applying verdicts again
\* adds no rule again, however often they are applied or were interrupted
\* (adjudicate.py, commit_verdicts).
THEOREM AddsHappenOnce == Spec => []AddsAreIdempotent
<1>1. Init => RulesInv
  <2> SUFFICES ASSUME Init PROVE RulesInv
    OBVIOUS
  <2>1. /\ rules = [i \in DOMAIN Stored |-> NewRule(Stored[i], "stored")]
        /\ verdicts = [a \in Appliers |-> << >>]
        /\ apc = [a \in Appliers |-> "idle"]
    BY DEF Init
  <2>2. Placed /\ LookedFor
    BY <2>1 DEF Placed, LookedFor
  <2>3. \A i \in DOMAIN Stored : rules[i] \in RuleOf(Texts) /\ rules[i].how = "stored"
    BY <2>1, SpanAssumption DEF NewRule, RuleOf
  <2>4. RulesTyped
    <3>1. Len(Stored) \in Nat /\ DOMAIN Stored = 1..Len(Stored)
      BY SpanAssumption
    <3>2. rules \in [1..Len(Stored) -> RuleOf(Texts)]
      BY <2>1, <2>3, <3>1
    <3>3. rules \in Seq(RuleOf(Texts))
      BY <3>1, <3>2, IsASeq
    <3> QED
      BY <3>3 DEF RulesTyped
  <2>5. AddsAreIdempotent
    BY <2>1, <2>3 DEF AddsAreIdempotent
  <2> QED
    BY <2>2, <2>4, <2>5 DEF RulesInv
<1>2. RulesInv => AddsAreIdempotent
  BY DEF RulesInv
<1> QED
  BY <1>1, <1>2, RulesStep, PTL DEF Spec

----------------------------------------------------------------------------
(* Remote ingest: the invariant.                                           *)

\* The steps between an answer and its printing: the batch is in hand.
InHand == {"save", "write", "print"}

\* The types.
RemoteTypeOK ==
    /\ file \in [source : Sources \cup {NoSource}, done : SUBSET Hashes]
    /\ pc \in [Clients -> {"idle", "call", "lastsave", "lastwrite"} \cup InHand]
    /\ source \in [Clients -> Sources \cup {NoSource}]
    /\ stack \in [Clients -> Seq(Seq(Hashes))]
    /\ attempt \in [Clients -> 1..Attempts]
    /\ done \in [Clients -> SUBSET Hashes]
    /\ failed \in [Clients -> BOOLEAN]
    /\ outcome \in [Sources -> {"none", "failed", "killed", "ok"}]
    /\ printed \in [Sources -> [Hashes -> Nat]]
    /\ disturbed \in [Sources -> BOOLEAN]
    /\ {started, kills, faults} \subseteq Nat

\* A client that runs: every span of its source is done or in a batch still to
\* send unless some were given up, the batches are of the source and no longer
\* than a batch may be, and the batch in hand is done.
ClientFits(step, x, st, dn, given) ==
    /\ step = "idle" <=> x = NoSource
    /\ step = "idle" => dn = {} /\ st = << >> /\ given = FALSE
    /\ step # "idle" =>
          /\ dn \subseteq SetOf(SpansOf[x])
          /\ \A k \in DOMAIN st :
                Len(st[k]) \in 1..BatchSize /\ SetOf(st[k]) \subseteq SetOf(SpansOf[x])
          /\ given = FALSE => \A s \in SetOf(SpansOf[x]) :
                                 s \in dn \/ \E k \in DOMAIN st : s \in SetOf(st[k])
    /\ step \in InHand => st # << >> /\ SetOf(st[Len(st)]) \subseteq dn
    /\ step \in {"lastsave", "lastwrite"} => given = TRUE /\ st = << >>
ClientOK(c) == ClientFits(pc[c], source[c], stack[c], done[c], failed[c])

\* The file holds spans of its source.
FileOK == file.source \in Sources => file.done \subseteq SetOf(SpansOf[file.source])

\* A span that no run will send again, as far as one can see now: it is in the
\* file, in the memory of a client, or its source is finished.
IsNoted(x, s) ==
    \/ s \in Loaded(x) \/ outcome[x] = "ok"
    \/ \E c \in Clients : source[c] = x /\ s \in done[c]
IsInHand(x, s) ==
    \E c \in Clients : source[c] = x /\ pc[c] \in InHand /\ s \in SetOf(Batch(c))

\* The answer of such a span was never printed and nobody is about to.  That
\* happens to the batch in hand of a client that is killed, and to no other.
Lost(x) == {s \in SetOf(SpansOf[x]) :
               IsNoted(x, s) /\ printed[x][s] = 0 /\ ~IsInHand(x, s)}

FewLost == \A x \in Sources : Cardinality(Lost(x)) <= BatchSize * kills

\* Unless a source has been disturbed, its client runs alone.
Alone == \A c \in Clients :
    pc[c] # "idle" /\ ~disturbed[source[c]] => Running = {c}

\* A file that is about to be written has been truncated: if it holds something,
\* another client wrote it in between.
Emptied == \A c \in Clients :
    pc[c] \in {"write", "lastwrite"} /\ file.source # NoSource => disturbed[file.source]

\* How often a span stands in its source, and where in the batches of a stack.
Times(x, s) == Cardinality({i \in DOMAIN SpansOf[x] : SpansOf[x][i] = s})

Places(st, s) ==
    {p \in (DOMAIN st) \X (1..BatchSize) : p[2] \in DOMAIN st[p[1]] /\ st[p[1]][p[2]] = s}

\* What has been printed of a span and what a client still holds of it: every
\* kill allows for one more round of the source, and unless the span is noted
\* as done the round of this run has not been printed.
ClientLedger(x, s, c) ==
    /\ printed[x][s] + Cardinality(Places(stack[c], s)) <= (1 + kills) * Times(x, s)
    /\ s \notin done[c] => printed[x][s] <= kills * Times(x, s)
    /\ pc[c] \in {"call", "save", "print", "lastsave"} /\ s \notin Loaded(x)
          => printed[x][s] <= kills * Times(x, s)
    /\ pc[c] = "print" /\ s \in SetOf(Batch(c)) => s \in Loaded(x)

Ledger(x, s) ==
    /\ printed[x][s] <= (1 + kills) * Times(x, s)
    /\ (\A c \in Clients : source[c] # x) /\ outcome[x] # "ok" /\ s \notin Loaded(x)
          => printed[x][s] <= kills * Times(x, s)
    /\ \A c \in Clients : source[c] = x => ClientLedger(x, s, c)

Ledgers == \A x \in Sources : ~disturbed[x] => \A s \in SetOf(SpansOf[x]) : Ledger(x, s)

Clear == \A c \in Clients : ClientOK(c)

----------------------------------------------------------------------------
(* Arithmetic and sequences.                                               *)

LEMMA Products ==
    ASSUME NEW a \in Nat, NEW b \in Nat, NEW m \in Nat
    PROVE  /\ a * m \in Nat /\ (a + 1) * m = a * m + m
           /\ a <= b => a * m <= b * m
           /\ a < b => a * m + m <= b * m
<1>1. a * m \in Nat /\ (a + 1) * m = a * m + m
  OBVIOUS
<1>2. ASSUME a <= b PROVE a * m <= b * m
  <2>1. PICK d \in Nat : b = a + d
    <3>1. b - a \in Nat /\ b = a + (b - a)
      BY <1>2
    <3> QED BY <3>1
  <2>2. b * m = a * m + d * m /\ d * m \in Nat
    BY <2>1
  <2> QED BY <2>2, <1>1
<1>3. ASSUME a < b PROVE a * m + m <= b * m
  <2>1. PICK d \in Nat : b = (a + 1) + d
    <3>1. b - (a + 1) \in Nat /\ b = (a + 1) + (b - (a + 1))
      BY <1>3
    <3> QED BY <3>1
  <2>2. b * m = (a + 1) * m + d * m /\ d * m \in Nat
    BY <2>1
  <2> QED BY <2>2, <1>1
<1> QED BY <1>1, <1>2, <1>3

\* The quotient and how far it is from the dividend.
LEMMA Division ==
    ASSUME NEW a \in Nat, NEW m \in Nat \ {0}
    PROVE  /\ a \div m \in Nat
           /\ (a \div m) * m <= a /\ a < (a \div m) * m + m
<1>1. m * (a \div m) <= a /\ a < m * (a \div m) + m /\ a \div m >= 0 /\ a \div m \in Int
  <2>1. m \in Nat /\ m > 0
    OBVIOUS
  <2>2. m * (a \div m) <= a
    BY <2>1, SMTT(30)
  <2>3. a < m * (a \div m) + m
    BY <2>1, SMTT(30)
  <2>4. a \div m >= 0 /\ a \div m \in Int
    BY <2>1, SMTT(30)
  <2> QED BY <2>2, <2>3, <2>4
<1>2. m * (a \div m) = (a \div m) * m
  BY <1>1
<1> QED BY <1>1, <1>2

\* The k-th member of a set of positions is the one with k of them up to it, and
\* every member is the k-th one for some k.
LEMMA Ranks ==
    ASSUME NEW n \in Nat, NEW S \in SUBSET (1..n)
    PROVE  /\ IsFiniteSet(S) /\ Cardinality(S) \in Nat
           /\ \A k \in 1..Cardinality(S) :
                 Nth(S, k) \in S /\ Cardinality({j \in S : j <= Nth(S, k)}) = k
           /\ \A i \in S : \E k \in 1..Cardinality(S) : Nth(S, k) = i
<1> DEFINE Upto(i) == {j \in S : j <= i}
           rank == [i \in S |-> Cardinality(Upto(i))]
<1>1. IsFiniteSet(S) /\ Cardinality(S) \in Nat
  <2>1. IsFiniteSet(1..n)
    BY FS_Interval
  <2>2. IsFiniteSet(S)
    BY <2>1, FS_Subset
  <2> QED BY <2>2, FS_CardinalityType
<1>2. \A i \in S : IsFiniteSet(Upto(i)) /\ Cardinality(Upto(i)) \in 1..Cardinality(S)
  <2> SUFFICES ASSUME NEW i \in S
               PROVE  IsFiniteSet(Upto(i)) /\ Cardinality(Upto(i)) \in 1..Cardinality(S)
    OBVIOUS
  <2>1. Upto(i) \in SUBSET S /\ i \in Upto(i)
    OBVIOUS
  <2>2. IsFiniteSet(Upto(i)) /\ Cardinality(Upto(i)) <= Cardinality(S)
    BY <1>1, <2>1, FS_Subset
  <2>3. Cardinality(Upto(i)) \in Nat /\ Cardinality(Upto(i)) # 0
    BY <2>1, <2>2, FS_CardinalityType, FS_EmptySet
  <2> HIDE DEF Upto
  <2> QED BY <1>1, <2>2, <2>3
<1>3. \A i, j \in S : i < j => Cardinality(Upto(i)) < Cardinality(Upto(j))
  <2> SUFFICES ASSUME NEW i \in S, NEW j \in S, i < j
               PROVE  Cardinality(Upto(i)) < Cardinality(Upto(j))
    OBVIOUS
  <2>1. Upto(i) \in SUBSET Upto(j)
    <3>1. \A k \in S : k \in Nat
      OBVIOUS
    <3>2. \A k \in S : k <= i => k <= j
      BY <3>1
    <3> QED BY <3>2
  <2>2. j \in Upto(j) /\ j \notin Upto(i)
    OBVIOUS
  <2>3. Cardinality(Upto(i)) <= Cardinality(Upto(j))
        /\ Cardinality(Upto(i)) # Cardinality(Upto(j))
    <3> HIDE DEF Upto
    <3> QED BY <1>2, <2>1, <2>2, FS_Subset
  <2> HIDE DEF Upto
  <2> QED BY <1>2, <2>3, <1>1
<1>4. \A i, j \in S : Cardinality(Upto(i)) = Cardinality(Upto(j)) => i = j
  <2> SUFFICES ASSUME NEW i \in S, NEW j \in S, i # j
               PROVE  Cardinality(Upto(i)) # Cardinality(Upto(j))
    OBVIOUS
  <2>1. i < j \/ j < i
    OBVIOUS
  <2> HIDE DEF Upto
  <2> QED BY <1>1, <1>2, <1>3, <2>1
<1>5. rank \in Injection(S, 1..Cardinality(S))
  <2> HIDE DEF Upto
  <2> QED BY <1>2, <1>4 DEF Injection, IsInjective
<1>6. rank \in Surjection(S, 1..Cardinality(S))
  <2>1. IsFiniteSet(1..Cardinality(S)) /\ Cardinality(1..Cardinality(S)) = Cardinality(S)
    BY <1>1, FS_Interval
  <2> HIDE DEF rank
  <2> QED BY <1>5, <2>1, FS_Injection
<1>7. ASSUME NEW k \in 1..Cardinality(S)
      PROVE  Nth(S, k) \in S /\ Cardinality(Upto(Nth(S, k))) = k
  <2>1. PICK i \in S : Cardinality(Upto(i)) = k
    <3> HIDE DEF Upto
    <3> QED BY <1>6 DEF Surjection
  <2> QED BY <2>1 DEF Nth
<1>8. ASSUME NEW i \in S PROVE \E k \in 1..Cardinality(S) : Nth(S, k) = i
  <2> DEFINE k == Cardinality(Upto(i))
  <2>1. k \in 1..Cardinality(S)
    BY <1>2
  <2>2. Nth(S, k) \in S /\ Cardinality(Upto(Nth(S, k))) = k
    <3> HIDE DEF Upto, k
    <3> QED BY <2>1, <1>7
  <2> HIDE DEF Upto
  <2> QED BY <1>4, <2>1, <2>2
<1> QED BY <1>1, <1>7, <1>8

\* The pending spans are those of the source that are not loaded.
LEMMA PendingSpans ==
    ASSUME NEW x \in Sources
    PROVE  /\ Cardinality(Left(x)) \in Nat
           /\ Pending(x) \in Seq(Hashes) /\ Len(Pending(x)) = Cardinality(Left(x))
           /\ \A k \in 1..Len(Pending(x)) :
                 /\ Nth(Left(x), k) \in DOMAIN SpansOf[x]
                 /\ Pending(x)[k] = SpansOf[x][Nth(Left(x), k)]
                 /\ Pending(x)[k] \notin Loaded(x)
           /\ \A k, l \in 1..Len(Pending(x)) :
                 Nth(Left(x), k) = Nth(Left(x), l) => k = l
           /\ \A s \in SetOf(SpansOf[x]) :
                 s \in Loaded(x) \/ \E k \in 1..Len(Pending(x)) : Pending(x)[k] = s
<1>1. SpansOf[x] \in Seq(Hashes) /\ DOMAIN SpansOf[x] = 1..Len(SpansOf[x])
      /\ Len(SpansOf[x]) \in Nat
  BY SourceAssumption DEF Sources
<1>2. Left(x) \in SUBSET (1..Len(SpansOf[x]))
  BY <1>1 DEF Left
<1> DEFINE S == Left(x)
           n == Cardinality(S)
<1>3. /\ n \in Nat
      /\ \A k \in 1..n : Nth(S, k) \in S /\ Cardinality({j \in S : j <= Nth(S, k)}) = k
      /\ \A i \in S : \E k \in 1..n : Nth(S, k) = i
  BY <1>1, <1>2, Ranks
<1>4. \A i \in S : i \in DOMAIN SpansOf[x] /\ SpansOf[x][i] \notin Loaded(x)
                   /\ SpansOf[x][i] \in Hashes
  BY <1>1 DEF Left
<1>5. Pending(x) = [k \in 1..n |-> SpansOf[x][Nth(S, k)]]
  BY DEF Pending
<1> HIDE DEF S, n
<1>6. Pending(x) \in Seq(Hashes) /\ Len(Pending(x)) = n
  <2>1. \A k \in 1..n : SpansOf[x][Nth(S, k)] \in Hashes
    BY <1>3, <1>4
  <2> QED BY <2>1, <1>3, <1>5
<1>7. \A k, l \in 1..n : Nth(S, k) = Nth(S, l) => k = l
  BY <1>3
<1>8. ASSUME NEW s \in SetOf(SpansOf[x]), s \notin Loaded(x)
      PROVE  \E k \in 1..n : Pending(x)[k] = s
  <2>1. PICK i \in DOMAIN SpansOf[x] : SpansOf[x][i] = s
    BY DEF SetOf
  <2>2. i \in S
    BY <2>1, <1>8 DEF S, Left
  <2> QED BY <2>1, <2>2, <1>3, <1>5
<1> QED BY <1>3, <1>4, <1>5, <1>6, <1>7, <1>8 DEF S, n

PlaceOf(st, k, i) == (Len(st) - k) * BatchSize + i

\* The batches of a sequence: none is empty or too long, their members are its
\* members, and a place in a batch is a place of the sequence.
LEMMA ChunkSpans ==
    ASSUME NEW pending \in Seq(Hashes)
    PROVE  LET st == Chunks(pending)
               n == Len(st)
           IN  /\ st \in Seq(Seq(Hashes)) /\ n \in Nat
               /\ \A k \in 1..n :
                     /\ Len(st[k]) \in 1..BatchSize
                     /\ \A i \in 1..Len(st[k]) :
                           /\ PlaceOf(st, k, i) \in 1..Len(pending)
                           /\ st[k][i] = pending[PlaceOf(st, k, i)]
               /\ \A k, l \in 1..n : \A i \in 1..Len(st[k]), j \in 1..Len(st[l]) :
                     PlaceOf(st, k, i) = PlaceOf(st, l, j) => k = l /\ i = j
               /\ \A p \in 1..Len(pending) : \E k \in 1..n : \E i \in 1..Len(st[k]) :
                     st[k][i] = pending[p]
<1> DEFINE L == Len(pending)
           B == BatchSize
           n == (L + B - 1) \div B
           st == Chunks(pending)
<1>1. L \in Nat /\ B \in Nat /\ B > 0 /\ B \in Nat \ {0}
  BY RemoteBoundAssumption
<1>2. n \in Nat /\ n * B <= L + B - 1 /\ L + B - 1 < n * B + B
  <2>1. L + B - 1 \in Nat
    BY <1>1
  <2> HIDE DEF L, B
  <2> QED BY <1>1, <2>1, Division
<1>3. st = [k \in 1..n |-> SubSeq(pending, (n - k) * B + 1, Least((n - k + 1) * B, L))]
  BY DEF Chunks
<1> HIDE DEF n, st
<1>4. ASSUME NEW k \in 1..n
      PROVE  /\ n - k \in Nat /\ (n - k) * B \in Nat
             /\ Least((n - k + 1) * B, L) - (n - k) * B \in 1..B
             /\ Least((n - k + 1) * B, L) \in Nat /\ Least((n - k + 1) * B, L) <= L
  <2> DEFINE m == n - k
  <2>1. m \in Nat /\ m + 1 <= n
    BY <1>2
  <2> HIDE DEF m
  <2>2. (m + 1) * B = m * B + B /\ (m + 1) * B <= n * B /\ m * B \in Nat /\ n * B \in Nat
    <3>1. m + 1 \in Nat
      BY <2>1
    <3> QED BY <1>1, <1>2, <2>1, <3>1, Products
  <2>3. m * B + B <= L + B - 1
    BY <1>1, <1>2, <2>2
  <2>4. m * B + 1 <= L
    BY <1>1, <2>2, <2>3
  <2>5. Least((m + 1) * B, L) - m * B \in 1..B /\ Least((m + 1) * B, L) \in Nat
        /\ Least((m + 1) * B, L) <= L
    BY <1>1, <2>2, <2>4 DEF Least
  <2> QED BY <2>1, <2>2, <2>5 DEF m
<1>5. ASSUME NEW k \in 1..n
      PROVE  /\ st[k] \in Seq(Hashes) /\ Len(st[k]) \in 1..B
             /\ Len(st[k]) = Least((n - k + 1) * B, L) - (n - k) * B
             /\ \A i \in 1..Len(st[k]) :
                   (n - k) * B + i \in 1..L /\ st[k][i] = pending[(n - k) * B + i]
  <2> DEFINE a == (n - k) * B
             b == Least((n - k + 1) * B, L)
  <2>1. a \in Nat /\ b \in Nat /\ b <= L /\ b - a \in 1..B
    BY <1>4
  <2>2. st[k] = SubSeq(pending, a + 1, b)
    BY <1>3
  <2> HIDE DEF a, b
  <2>3. st[k] \in Seq(Hashes) /\ Len(st[k]) = b - a
    BY <1>1, <2>1, <2>2 DEF L
  <2>4. \A i \in 1..Len(st[k]) : a + i \in 1..L /\ st[k][i] = pending[a + i]
    BY <1>1, <2>1, <2>2, <2>3 DEF L
  <2> QED BY <2>1, <2>3, <2>4 DEF a, b
<1>6. st \in Seq(Seq(Hashes)) /\ Len(st) = n
  BY <1>2, <1>3, <1>5
<1>7. ASSUME NEW k \in 1..n, NEW l \in 1..n,
             NEW i \in 1..Len(st[k]), NEW j \in 1..Len(st[l]),
             (n - k) * B + i = (n - l) * B + j
      PROVE  k = l /\ i = j
  <2> DEFINE m == n - k
             q == n - l
  <2>1. m \in Nat /\ q \in Nat /\ (m = q => k = l)
    BY <1>2
  <2>2. i \in 1..B /\ j \in 1..B
    BY <1>1, <1>5
  <2>3. m * B + i = q * B + j
    BY <1>7
  <2> HIDE DEF m, q
  <2>4. m * B \in Nat /\ q * B \in Nat /\ (m < q => m * B + B <= q * B)
        /\ (q < m => q * B + B <= m * B)
    BY <1>1, <2>1, Products
  <2>5. ~(m < q) /\ ~(q < m)
    BY <1>1, <2>2, <2>3, <2>4
  <2>6. m = q
    BY <2>1, <2>5
  <2>7. i = j
    BY <2>3, <2>6, <2>4, <2>2, <1>1
  <2> QED BY <2>1, <2>6, <2>7
<1>8. ASSUME NEW p \in 1..L
      PROVE  \E k \in 1..n : \E i \in 1..Len(st[k]) : st[k][i] = pending[p]
  <2> DEFINE m == (p - 1) \div B
  <2>1. m \in Nat /\ m * B <= p - 1 /\ p - 1 < m * B + B
    <3>1. p - 1 \in Nat
      BY <1>1
    <3> HIDE DEF B, L
    <3> QED BY <1>1, <3>1, Division
  <2> HIDE DEF m
  <2>2. m * B \in Nat /\ (m + 1) * B = m * B + B /\ n * B \in Nat
        /\ (n <= m => n * B <= m * B)
    BY <1>1, <1>2, <2>1, Products
  <2>3. m < n
    BY <1>1, <1>2, <2>1, <2>2
  <2>4. n - m \in 1..n /\ n - (n - m) = m
    BY <1>2, <2>1, <2>3
  <2> DEFINE k == n - m
             i == p - m * B
  <2>5. Len(st[k]) = Least((m + 1) * B, L) - m * B
    BY <1>5, <2>4
  <2>6. i \in 1..Len(st[k])
    BY <1>1, <2>1, <2>2, <2>5 DEF Least
  <2>7. m * B + i = p
    BY <2>2, <1>1
  <2>8. st[k][i] = pending[p]
    BY <1>5, <2>4, <2>6, <2>7
  <2> QED BY <2>4, <2>6, <2>8
<1>9. Chunks(pending) = st /\ Len(Chunks(pending)) = n
  BY <1>6 DEF st
<1> DEFINE chunks == Chunks(pending)
<1>10. chunks \in Seq(Seq(Hashes)) /\ Len(chunks) \in Nat
  BY <1>2, <1>6, <1>9
<1>11. \A k \in 1..Len(chunks) :
          /\ Len(chunks[k]) \in 1..BatchSize
          /\ \A i \in 1..Len(chunks[k]) :
                /\ PlaceOf(chunks, k, i) \in 1..Len(pending)
                /\ chunks[k][i] = pending[PlaceOf(chunks, k, i)]
  BY <1>5, <1>9 DEF B, L, PlaceOf
<1>12. \A k, l \in 1..Len(chunks) : \A i \in 1..Len(chunks[k]), j \in 1..Len(chunks[l]) :
          PlaceOf(chunks, k, i) = PlaceOf(chunks, l, j) => k = l /\ i = j
  BY <1>7, <1>9 DEF B, PlaceOf
<1>13. \A p \in 1..Len(pending) : \E k \in 1..Len(chunks) : \E i \in 1..Len(chunks[k]) :
          chunks[k][i] = pending[p]
  BY <1>8, <1>9 DEF L
<1> QED
  BY <1>10, <1>11, <1>12, <1>13

LEMMA Members ==
    ASSUME NEW q \in Seq(Hashes)
    PROVE  /\ DOMAIN q = 1..Len(q) /\ Len(q) \in Nat
           /\ SetOf(q) = {q[i] : i \in 1..Len(q)}
           /\ \A i \in 1..Len(q) : q[i] \in SetOf(q)
  BY DEF SetOf

LEMMA PlacesFinite ==
    ASSUME NEW st \in Seq(Seq(Hashes)), NEW s
    PROVE  IsFiniteSet(Places(st, s)) /\ Cardinality(Places(st, s)) \in Nat
<1>1. IsFiniteSet(DOMAIN st) /\ IsFiniteSet(1..BatchSize)
  <2>1. DOMAIN st = 1..Len(st) /\ Len(st) \in Int /\ BatchSize \in Int
    BY RemoteBoundAssumption
  <2> QED BY <2>1, FS_Interval
<1>2. IsFiniteSet((DOMAIN st) \X (1..BatchSize))
  BY <1>1, FS_Product
<1>3. Places(st, s) \in SUBSET ((DOMAIN st) \X (1..BatchSize))
  BY DEF Places
<1>4. IsFiniteSet(Places(st, s))
  BY <1>2, <1>3, FS_Subset
<1> QED BY <1>4, FS_CardinalityType

LEMMA TimesNat ==
    ASSUME NEW x \in Sources, NEW s
    PROVE  IsFiniteSet({i \in DOMAIN SpansOf[x] : SpansOf[x][i] = s}) /\ Times(x, s) \in Nat
<1>1. DOMAIN SpansOf[x] = 1..Len(SpansOf[x]) /\ Len(SpansOf[x]) \in Int
  BY SourceAssumption
<1>2. IsFiniteSet(1..Len(SpansOf[x]))
  BY <1>1, FS_Interval
<1>3. {i \in DOMAIN SpansOf[x] : SpansOf[x][i] = s} \in SUBSET (1..Len(SpansOf[x]))
  BY <1>1
<1>4. IsFiniteSet({i \in DOMAIN SpansOf[x] : SpansOf[x][i] = s})
  BY <1>2, <1>3, FS_Subset
<1> QED BY <1>4, FS_CardinalityType DEF Times

\* The batches of a run that starts.
LEMMA FreshStack ==
    ASSUME NEW x \in Sources
    PROVE  LET st == Chunks(Pending(x))
           IN  /\ st \in Seq(Seq(Hashes))
               /\ \A k \in DOMAIN st :
                     /\ Len(st[k]) \in 1..BatchSize
                     /\ SetOf(st[k]) \subseteq SetOf(SpansOf[x]) \ Loaded(x)
               /\ \A s \in SetOf(SpansOf[x]) :
                     s \in Loaded(x) \/ \E k \in DOMAIN st : s \in SetOf(st[k])
<1> DEFINE st == Chunks(Pending(x))
           n == Len(st)
           pending == Pending(x)
<1>1. pending \in Seq(Hashes)
  BY PendingSpans
<1>2. st \in Seq(Seq(Hashes)) /\ n \in Nat /\ DOMAIN st = 1..n
  BY <1>1, ChunkSpans
<1>3. /\ \A k \in 1..n :
            /\ Len(st[k]) \in 1..BatchSize
            /\ \A i \in 1..Len(st[k]) :
                  /\ PlaceOf(st, k, i) \in 1..Len(pending)
                  /\ st[k][i] = pending[PlaceOf(st, k, i)]
      /\ \A p \in 1..Len(pending) : \E k \in 1..n : \E i \in 1..Len(st[k]) :
            st[k][i] = pending[p]
  BY <1>1, ChunkSpans
<1>3a. /\ \A p \in 1..Len(pending) : pending[p] \in SetOf(SpansOf[x]) \ Loaded(x)
       /\ \A s \in SetOf(SpansOf[x]) :
             s \in Loaded(x) \/ \E p \in 1..Len(pending) : pending[p] = s
  BY PendingSpans DEF SetOf
<1> HIDE DEF st, n, pending
<1>4. ASSUME NEW k \in 1..n, NEW i \in 1..Len(st[k])
      PROVE  st[k][i] \in SetOf(SpansOf[x]) \ Loaded(x)
  <2>1. PICK p \in 1..Len(pending) : st[k][i] = pending[p]
    BY <1>3
  <2> QED BY <2>1, <1>3a
<1>5. ASSUME NEW s \in SetOf(SpansOf[x]), s \notin Loaded(x)
      PROVE  \E k \in 1..n : \E i \in 1..Len(st[k]) : s = st[k][i]
  <2>1. PICK p \in 1..Len(pending) : pending[p] = s
    BY <1>5, <1>3a
  <2> QED BY <2>1, <1>3
<1>6. \A k \in 1..n : st[k] \in Seq(Hashes) /\ DOMAIN st[k] = 1..Len(st[k])
  BY <1>2
<1>7. \A k \in DOMAIN st : SetOf(st[k]) \subseteq SetOf(SpansOf[x]) \ Loaded(x)
  BY <1>2, <1>4, <1>6 DEF SetOf
<1>8. \A s \in SetOf(SpansOf[x]) :
         s \in Loaded(x) \/ \E k \in DOMAIN st : s \in SetOf(st[k])
  BY <1>2, <1>5, <1>6 DEF SetOf
<1> QED BY <1>2, <1>3, <1>7, <1>8 DEF st

\* A run that starts holds a span no more often than it stands in its source.
LEMMA FreshStackPlaces ==
    ASSUME NEW x \in Sources, NEW s
    PROVE  Cardinality(Places(Chunks(Pending(x)), s)) <= Times(x, s)
<1> DEFINE st == Chunks(Pending(x))
           n == Len(st)
           pending == Pending(x)
           P == Places(st, s)
           T == {i \in DOMAIN SpansOf[x] : SpansOf[x][i] = s}
           place(p) == PlaceOf(st, p[1], p[2])
           f == [p \in P |-> Nth(Left(x), place(p))]
<1>1. pending \in Seq(Hashes)
  BY PendingSpans
<1>2. st \in Seq(Seq(Hashes)) /\ DOMAIN st = 1..n
  BY <1>1, ChunkSpans
<1>2a. \A k \in 1..n :
          /\ Len(st[k]) \in 1..BatchSize
          /\ \A i \in 1..Len(st[k]) :
                /\ PlaceOf(st, k, i) \in 1..Len(pending)
                /\ st[k][i] = pending[PlaceOf(st, k, i)]
  BY <1>1, ChunkSpans
<1>2b. \A k, l \in 1..n : \A i \in 1..Len(st[k]), j \in 1..Len(st[l]) :
          PlaceOf(st, k, i) = PlaceOf(st, l, j) => k = l /\ i = j
  BY <1>1, ChunkSpans
<1> HIDE DEF st, n, pending
<1>3. ASSUME NEW p \in P
      PROVE  /\ p = <<p[1], p[2]>> /\ p[1] \in 1..n /\ p[2] \in 1..Len(st[p[1]])
             /\ st[p[1]][p[2]] = s
  BY <1>2 DEF Places
<1>4. ASSUME NEW p \in P
      PROVE  place(p) \in 1..Len(pending) /\ pending[place(p)] = s
  <2>1. /\ place(p) \in 1..Len(pending)
        /\ st[p[1]][p[2]] = pending[place(p)]
    BY <1>2a, <1>3
  <2> QED BY <1>3, <2>1
<1>5. ASSUME NEW p \in P, NEW q \in P, place(p) = place(q)
      PROVE  p = q
  <2>1. p[1] = q[1] /\ p[2] = q[2]
    <3>1. /\ p[1] \in 1..n /\ p[2] \in 1..Len(st[p[1]])
          /\ q[1] \in 1..n /\ q[2] \in 1..Len(st[q[1]])
      BY <1>3
    <3> QED BY <1>2b, <1>5, <3>1
  <2> QED BY <1>3, <2>1
<1> HIDE DEF place, P
<1>6. \A p \in P : f[p] \in T
  BY <1>4, PendingSpans DEF pending
<1>7. \A p, q \in P : f[p] = f[q] => p = q
  <2>1. ASSUME NEW p \in P, NEW q \in P, f[p] = f[q] PROVE place(p) = place(q)
    BY <1>4, <2>1, PendingSpans DEF pending
  <2> QED BY <2>1, <1>5
<1>8. f \in Injection(P, T)
  <2> HIDE DEF T
  <2> QED BY <1>6, <1>7 DEF Injection, IsInjective
<1>9. IsFiniteSet(T) /\ Times(x, s) = Cardinality(T)
  BY TimesNat DEF Times
<1> HIDE DEF f, T
<1> QED BY <1>8, <1>9, FS_Injection DEF P, st

\* Without the batch in hand.
LEMMA RestPlaces ==
    ASSUME NEW st \in Seq(Seq(Hashes)), st # << >>, NEW s,
           \A k \in DOMAIN st : Len(st[k]) \in 1..BatchSize
    PROVE  LET rest == SubSeq(st, 1, Len(st) - 1)
           IN  /\ rest \in Seq(Seq(Hashes)) /\ Len(rest) = Len(st) - 1
               /\ \A k \in DOMAIN rest : k \in DOMAIN st /\ rest[k] = st[k]
               /\ \A k \in DOMAIN st : k = Len(st) \/ k \in DOMAIN rest
               /\ Cardinality(Places(rest, s)) <= Cardinality(Places(st, s))
               /\ s \in SetOf(st[Len(st)]) =>
                     Cardinality(Places(rest, s)) + 1 <= Cardinality(Places(st, s))
<1> DEFINE n == Len(st)
           rest == SubSeq(st, 1, n - 1)
<1>1. n \in Nat /\ n > 0 /\ DOMAIN st = 1..n
  BY EmptySeq
<1>2. rest \in Seq(Seq(Hashes)) /\ Len(rest) = n - 1 /\ DOMAIN rest = 1..(n - 1)
      /\ \A k \in 1..(n - 1) : rest[k] = st[k]
  BY <1>1
<1> HIDE DEF rest, n
<1>3. Places(rest, s) \in SUBSET Places(st, s)
  BY <1>1, <1>2 DEF Places
<1>4. /\ IsFiniteSet(Places(st, s)) /\ Cardinality(Places(st, s)) \in Nat
      /\ Cardinality(Places(rest, s)) \in Nat
  BY <1>2, PlacesFinite
<1>5. /\ Cardinality(Places(rest, s)) <= Cardinality(Places(st, s))
      /\ Cardinality(Places(st, s)) = Cardinality(Places(rest, s))
            => Places(st, s) = Places(rest, s)
  BY <1>3, <1>4, FS_Subset
<1>6. ASSUME s \in SetOf(st[n])
      PROVE  Places(st, s) # Places(rest, s)
  <2>1. st[n] \in Seq(Hashes) /\ Len(st[n]) \in 1..BatchSize
    BY <1>1
  <2>2. PICK i \in 1..Len(st[n]) : st[n][i] = s
    BY <1>6, <2>1, Members
  <2>3. <<n, i>> \in Places(st, s)
    BY <1>1, <2>1, <2>2, RemoteBoundAssumption DEF Places
  <2>4. <<n, i>> \notin Places(rest, s)
    BY <1>1, <1>2 DEF Places
  <2> QED BY <2>3, <2>4
<1>7. s \in SetOf(st[n]) => Cardinality(Places(rest, s)) + 1 <= Cardinality(Places(st, s))
  BY <1>4, <1>5, <1>6
<1>8. \A k \in DOMAIN rest : k \in DOMAIN st /\ rest[k] = st[k]
  BY <1>1, <1>2
<1>9. \A k \in DOMAIN st : k = n \/ k \in DOMAIN rest
  BY <1>1, <1>2
<1> QED BY <1>2, <1>5, <1>7, <1>8, <1>9 DEF rest, n

\* Halving the batch in hand neither loses a span nor makes one longer or twice.
LEMMA SplitPlaces ==
    ASSUME NEW st \in Seq(Seq(Hashes)), st # << >>, NEW s,
           \A k \in DOMAIN st : Len(st[k]) \in 1..BatchSize,
           Len(st[Len(st)]) > 1
    PROVE  LET new == SubSeq(st, 1, Len(st) - 1) \o Halves(st[Len(st)])
           IN  /\ new \in Seq(Seq(Hashes))
               /\ \A k \in DOMAIN new :
                     /\ Len(new[k]) \in 1..BatchSize
                     /\ \E l \in DOMAIN st : SetOf(new[k]) \subseteq SetOf(st[l])
               /\ \A k \in DOMAIN st : \A t \in SetOf(st[k]) :
                     \E l \in DOMAIN new : t \in SetOf(new[l])
               /\ Cardinality(Places(new, s)) <= Cardinality(Places(st, s))
<1> DEFINE n == Len(st)
           b == st[n]
           mid == Len(b) \div 2
           new == SubSeq(st, 1, n - 1) \o Halves(b)
<1>1. n \in Nat /\ n > 0 /\ DOMAIN st = 1..n
  BY EmptySeq
<1>2. b \in Seq(Hashes) /\ Len(b) \in 1..BatchSize /\ Len(b) > 1
  BY <1>1
<1> HIDE DEF b
<1>3. mid \in 1..(Len(b) - 1)
  <2>1. \A m \in Nat : m > 1 => m \div 2 \in 1..(m - 1)
    OBVIOUS
  <2>2. Len(b) \in Nat
    BY <1>2, RemoteBoundAssumption
  <2> QED BY <1>2, <2>1, <2>2
<1>4. Halves(b) = <<SubSeq(b, mid + 1, Len(b)), SubSeq(b, 1, mid)>>
  BY DEF Halves
<1> HIDE DEF mid
<1> DEFINE c == SubSeq(b, mid + 1, Len(b))
           d == SubSeq(b, 1, mid)
<1>5. /\ c \in Seq(Hashes) /\ Len(c) = Len(b) - mid
      /\ \A i \in 1..Len(c) : mid + i \in 1..Len(b) /\ c[i] = b[mid + i]
  BY <1>2, <1>3
<1>6. /\ d \in Seq(Hashes) /\ Len(d) = mid
      /\ \A i \in 1..Len(d) : i \in 1..Len(b) /\ d[i] = b[i]
  BY <1>2, <1>3
<1> HIDE DEF c, d
<1>7. /\ SubSeq(st, 1, n - 1) \in Seq(Seq(Hashes)) /\ Len(SubSeq(st, 1, n - 1)) = n - 1
      /\ \A k \in 1..(n - 1) : SubSeq(st, 1, n - 1)[k] = st[k]
  BY <1>1
<1>8. Halves(b) = <<c, d>>
  BY <1>4 DEF c, d
<1> HIDE DEF n
<1>9. /\ new \in Seq(Seq(Hashes)) /\ Len(new) = n + 1 /\ DOMAIN new = 1..(n + 1)
      /\ \A k \in 1..(n - 1) : new[k] = st[k]
      /\ new[n] = c /\ new[n + 1] = d
  BY <1>1, <1>5, <1>6, <1>7, <1>8
<1> HIDE DEF new
<1>10. SetOf(c) \subseteq SetOf(b) /\ SetOf(d) \subseteq SetOf(b)
  <2>1. SetOf(b) = {b[i] : i \in 1..Len(b)}
    BY <1>2, Members
  <2>2. SetOf(c) = {c[i] : i \in 1..Len(c)}
    BY <1>5, Members
  <2>3. SetOf(d) = {d[i] : i \in 1..Len(d)}
    BY <1>6, Members
  <2> QED BY <1>5, <1>6, <2>1, <2>2, <2>3
<1>11. Len(c) \in 1..BatchSize /\ Len(d) \in 1..BatchSize
  BY <1>2, <1>3, <1>5, <1>6, RemoteBoundAssumption
<1>12. ASSUME NEW k \in DOMAIN new
       PROVE  /\ Len(new[k]) \in 1..BatchSize
              /\ \E l \in DOMAIN st : SetOf(new[k]) \subseteq SetOf(st[l])
  <2>1. k \in 1..(n - 1) \/ k = n \/ k = n + 1
    BY <1>1, <1>9
  <2>2. n \in DOMAIN st /\ SetOf(st[n]) = SetOf(b)
    BY <1>1 DEF b
  <2>3. CASE k \in 1..(n - 1)
    BY <1>1, <1>9, <2>3
  <2>4. CASE k = n
    BY <1>9, <1>10, <1>11, <2>2, <2>4
  <2>5. CASE k = n + 1
    BY <1>9, <1>10, <1>11, <2>2, <2>5
  <2> QED BY <2>1, <2>3, <2>4, <2>5
<1>13. ASSUME NEW k \in DOMAIN st, NEW t \in SetOf(st[k])
       PROVE  \E l \in DOMAIN new : t \in SetOf(new[l])
  <2>1. CASE k \in 1..(n - 1)
    <3>1. k \in DOMAIN new /\ new[k] = st[k]
      BY <1>1, <1>9, <2>1
    <3> QED BY <3>1, <1>13
  <2>2. CASE k = n
    <3>1. PICK i \in 1..Len(b) : t = b[i]
      BY <1>2, <2>2, Members DEF b
    <3>2. CASE i <= mid
      <4>1. i \in 1..Len(d) /\ d[i] = t
        BY <1>2, <1>3, <1>6, <3>1, <3>2
      <4>2. t \in SetOf(d)
        BY <4>1, <1>6, Members
      <4>3. n + 1 \in DOMAIN new
        BY <1>1, <1>9
      <4> QED BY <4>2, <4>3, <1>9
    <3>3. CASE i > mid
      <4>1. i - mid \in 1..Len(c) /\ c[i - mid] = t
        BY <1>2, <1>3, <1>5, <3>1, <3>3
      <4>2. t \in SetOf(c)
        BY <4>1, <1>5, Members
      <4>3. n \in DOMAIN new
        BY <1>1, <1>9
      <4> QED BY <4>2, <4>3, <1>9
    <3> QED BY <1>2, <1>3, <3>2, <3>3
  <2> QED BY <1>1, <2>1, <2>2
<1> DEFINE P == Places(st, s)
           Q == Places(new, s)
           g(p) == IF p[1] <= n - 1 THEN p
                   ELSE IF p[1] = n THEN <<n, mid + p[2]>> ELSE <<n, p[2]>>
           f == [p \in Q |-> g(p)]
<1>14. ASSUME NEW p \in Q
       PROVE  /\ p = <<p[1], p[2]>> /\ p[1] \in 1..(n + 1) /\ p[2] \in 1..Len(new[p[1]])
              /\ new[p[1]][p[2]] = s
  <2>1. p = <<p[1], p[2]>> /\ p[1] \in 1..(n + 1) /\ p[2] \in DOMAIN new[p[1]]
        /\ new[p[1]][p[2]] = s
    BY <1>9 DEF Places
  <2>2. new[p[1]] \in Seq(Hashes)
    BY <1>9, <2>1
  <2> QED BY <2>1, <2>2
<1>15. ASSUME NEW k \in 1..n, NEW i \in 1..Len(st[k]), st[k][i] = s
       PROVE  <<k, i>> \in P
  <2>1. st[k] \in Seq(Hashes) /\ Len(st[k]) \in 1..BatchSize
    <3>1. k \in DOMAIN st
      BY <1>1
    <3> QED BY <3>1
  <2> QED BY <1>1, <1>15, <2>1, RemoteBoundAssumption DEF Places
<1>16. ASSUME NEW p \in Q
       PROVE  g(p) \in P
  <2> HIDE DEF P, Q
  <2>1. CASE p[1] <= n - 1
    <3>1. p[1] \in 1..(n - 1) /\ new[p[1]] = st[p[1]]
      BY <1>1, <1>9, <1>14, <2>1
    <3>2. p[1] \in 1..n /\ p[2] \in 1..Len(st[p[1]]) /\ st[p[1]][p[2]] = s
      BY <1>1, <1>14, <3>1
    <3>3. <<p[1], p[2]>> \in P
      BY <3>2, <1>15
    <3> QED BY <2>1, <3>3, <1>14
  <2>2. CASE p[1] = n
    <3>1. p[2] \in 1..Len(c) /\ c[p[2]] = s
      BY <1>9, <1>14, <2>2
    <3>2. mid + p[2] \in 1..Len(st[n]) /\ st[n][mid + p[2]] = s
      BY <1>5, <3>1 DEF b
    <3>3. <<n, mid + p[2]>> \in P
      BY <3>2, <1>15, <1>1
    <3> QED BY <2>2, <3>3, <1>1
  <2>3. CASE p[1] = n + 1
    <3>1. p[2] \in 1..Len(d) /\ d[p[2]] = s
      BY <1>9, <1>14, <2>3
    <3>2. p[2] \in 1..Len(st[n]) /\ st[n][p[2]] = s
      BY <1>6, <3>1 DEF b
    <3>3. <<n, p[2]>> \in P
      BY <3>2, <1>15, <1>1
    <3> QED BY <2>3, <3>3, <1>1
  <2> QED BY <1>1, <1>14, <2>1, <2>2, <2>3
<1>17. ASSUME NEW p \in Q, NEW q \in Q, g(p) = g(q)
       PROVE  p = q
  <2>1. /\ p = <<p[1], p[2]>> /\ q = <<q[1], q[2]>>
        /\ p[1] \in 1..(n + 1) /\ q[1] \in 1..(n + 1)
        /\ p[2] \in Int /\ q[2] \in Int
        /\ p[1] = n => p[2] >= 1
        /\ q[1] = n => q[2] >= 1
        /\ p[1] = n + 1 => p[2] <= mid
        /\ q[1] = n + 1 => q[2] <= mid
    BY <1>14, <1>9, <1>6
  <2> HIDE DEF P, Q
  <2>2. /\ g(p) = <<IF p[1] <= n - 1 THEN p[1] ELSE n,
                      IF p[1] = n THEN mid + p[2] ELSE p[2]>>
        /\ g(q) = <<IF q[1] <= n - 1 THEN q[1] ELSE n,
                      IF q[1] = n THEN mid + q[2] ELSE q[2]>>
    BY <1>1, <2>1
  <2>3. mid \in Nat
    BY <1>2, <1>3, RemoteBoundAssumption
  <2>4. /\ (IF p[1] <= n - 1 THEN p[1] ELSE n) = (IF q[1] <= n - 1 THEN q[1] ELSE n)
        /\ (IF p[1] = n THEN mid + p[2] ELSE p[2]) = (IF q[1] = n THEN mid + q[2] ELSE q[2])
    BY <1>17, <2>2
  <2>5. CASE p[1] <= n - 1
    <3>1. q[1] <= n - 1 /\ p[1] = q[1]
      BY <1>1, <2>1, <2>4, <2>5
    <3>2. p[2] = q[2]
      BY <1>1, <2>1, <2>4, <2>5, <3>1
    <3> QED BY <2>1, <3>1, <3>2
  <2>6. CASE p[1] = n
    <3>1. q[1] \in {n, n + 1} /\ mid + p[2] = IF q[1] = n THEN mid + q[2] ELSE q[2]
      BY <1>1, <2>1, <2>4, <2>6
    <3>2. q[1] # n + 1
      BY <1>1, <2>1, <2>3, <2>6, <3>1
    <3>3. p[2] = q[2]
      BY <2>1, <2>3, <3>1, <3>2
    <3> QED BY <2>1, <2>6, <3>1, <3>2, <3>3
  <2>7. CASE p[1] = n + 1
    <3>1. q[1] \in {n, n + 1} /\ p[2] = IF q[1] = n THEN mid + q[2] ELSE q[2]
      BY <1>1, <2>1, <2>4, <2>7
    <3>2. q[1] # n
      BY <1>1, <2>1, <2>3, <2>7, <3>1
    <3>3. p[2] = q[2]
      BY <2>1, <2>3, <3>1, <3>2, <1>1
    <3> QED BY <2>1, <2>7, <3>1, <3>2, <3>3
  <2>8. p[1] <= n - 1 \/ p[1] = n \/ p[1] = n + 1
    <3>1. n \in Nat
      BY <1>1
    <3>2. p[1] \in 1..(n + 1)
      BY <2>1
    <3>3. \A i \in 1..(n + 1) : i <= n - 1 \/ i = n \/ i = n + 1
      BY <3>1
    <3> QED BY <3>2, <3>3
  <2> QED BY <2>5, <2>6, <2>7, <2>8
<1> HIDE DEF P, Q, g
<1>18. f \in Injection(Q, P)
  BY <1>16, <1>17 DEF Injection, IsInjective
<1>19. IsFiniteSet(P)
  BY PlacesFinite DEF P
<1> HIDE DEF f
<1>20. Cardinality(Q) <= Cardinality(P)
  BY <1>18, <1>19, FS_Injection
<1> QED
  BY <1>9, <1>12, <1>13, <1>20 DEF P, Q, new, n, b

RemoteTyped == RemoteTypeOK /\ FileOK /\ Clear

----------------------------------------------------------------------------
(* Types and what a client holds, step by step.                            *)

LEMMA FitsStart ==
    ASSUME NEW x \in Sources, Loaded(x) \subseteq SetOf(SpansOf[x])
    PROVE  ClientFits("call", x, Chunks(Pending(x)), Loaded(x), FALSE)
<1>1. x # NoSource
  BY SourceAssumption
<1> QED BY <1>1, FreshStack DEF ClientFits, InHand

LEMMA FitsRest ==
    ASSUME NEW x \in Sources, NEW st \in Seq(Seq(Hashes)), st # << >>, NEW dn, NEW given,
           NEW step \in {"call", "print"}, ClientFits(step, x, st, dn, given)
    PROVE  LET rest == SubSeq(st, 1, Len(st) - 1)
           IN  /\ ClientFits("call", x, rest, dn, TRUE)
               /\ step = "print" => ClientFits("call", x, rest, dn, given)
<1> DEFINE rest == SubSeq(st, 1, Len(st) - 1)
<1>1. x # NoSource
  BY SourceAssumption
<1>2. /\ dn \subseteq SetOf(SpansOf[x])
      /\ \A k \in DOMAIN st :
            Len(st[k]) \in 1..BatchSize /\ SetOf(st[k]) \subseteq SetOf(SpansOf[x])
      /\ given = FALSE => \A s \in SetOf(SpansOf[x]) :
            s \in dn \/ \E k \in DOMAIN st : s \in SetOf(st[k])
      /\ step = "print" => SetOf(st[Len(st)]) \subseteq dn
  BY DEF ClientFits, InHand
<1>3. /\ \A k \in DOMAIN rest : k \in DOMAIN st /\ rest[k] = st[k]
      /\ \A k \in DOMAIN st : k = Len(st) \/ k \in DOMAIN rest
  BY <1>2, RestPlaces
<1> HIDE DEF rest
<1>4. \A k \in DOMAIN rest :
         Len(rest[k]) \in 1..BatchSize /\ SetOf(rest[k]) \subseteq SetOf(SpansOf[x])
  BY <1>2, <1>3
<1>5. step = "print" /\ given = FALSE => \A s \in SetOf(SpansOf[x]) :
         s \in dn \/ \E k \in DOMAIN rest : s \in SetOf(rest[k])
  BY <1>2, <1>3
<1>6. ClientFits("call", x, rest, dn, TRUE)
  BY <1>1, <1>2, <1>4 DEF ClientFits, InHand
<1>7. step = "print" => ClientFits("call", x, rest, dn, given)
  BY <1>1, <1>2, <1>4, <1>5 DEF ClientFits, InHand
<1> QED BY <1>6, <1>7 DEF rest

LEMMA FitsSplit ==
    ASSUME NEW x \in Sources, NEW st \in Seq(Seq(Hashes)), st # << >>, NEW dn, NEW given,
           ClientFits("call", x, st, dn, given), Len(st[Len(st)]) > 1
    PROVE  ClientFits("call", x, SubSeq(st, 1, Len(st) - 1) \o Halves(st[Len(st)]), dn, given)
<1> DEFINE new == SubSeq(st, 1, Len(st) - 1) \o Halves(st[Len(st)])
<1>1. x # NoSource
  BY SourceAssumption
<1>2. /\ dn \subseteq SetOf(SpansOf[x])
      /\ \A k \in DOMAIN st :
            Len(st[k]) \in 1..BatchSize /\ SetOf(st[k]) \subseteq SetOf(SpansOf[x])
      /\ given = FALSE => \A s \in SetOf(SpansOf[x]) :
            s \in dn \/ \E k \in DOMAIN st : s \in SetOf(st[k])
  BY DEF ClientFits
<1>3. /\ \A k \in DOMAIN new :
            /\ Len(new[k]) \in 1..BatchSize
            /\ \E l \in DOMAIN st : SetOf(new[k]) \subseteq SetOf(st[l])
      /\ \A k \in DOMAIN st : \A t \in SetOf(st[k]) :
            \E l \in DOMAIN new : t \in SetOf(new[l])
  BY <1>2, SplitPlaces
<1> HIDE DEF new
<1>4. \A k \in DOMAIN new :
         Len(new[k]) \in 1..BatchSize /\ SetOf(new[k]) \subseteq SetOf(SpansOf[x])
  BY <1>2, <1>3
<1>5. given = FALSE => \A s \in SetOf(SpansOf[x]) :
         s \in dn \/ \E k \in DOMAIN new : s \in SetOf(new[k])
  BY <1>2, <1>3
<1>6. ClientFits("call", x, new, dn, given)
  BY <1>1, <1>2, <1>4, <1>5 DEF ClientFits, InHand
<1> QED BY <1>6 DEF new

LEMMA FitsAnswer ==
    ASSUME NEW x \in Sources, NEW st \in Seq(Seq(Hashes)), st # << >>, NEW dn, NEW given,
           ClientFits("call", x, st, dn, given)
    PROVE  ClientFits("save", x, st, dn \cup SetOf(st[Len(st)]), given)
<1>1. x # NoSource
  BY SourceAssumption
<1>2. Len(st) \in DOMAIN st
  BY EmptySeq
<1> QED BY <1>1, <1>2 DEF ClientFits, InHand

LEMMA FitsMove ==
    ASSUME NEW x \in Sources, NEW st, NEW dn, NEW given,
           NEW step, NEW next, ClientFits(step, x, st, dn, given),
           \/ step \in {"save", "write"} /\ next \in {"write", "print"}
           \/ step = "lastsave" /\ next = "lastwrite"
    PROVE  ClientFits(next, x, st, dn, given)
<1>1. x # NoSource
  BY SourceAssumption
<1> QED BY <1>1 DEF ClientFits, InHand

LEMMA FitsRefused ==
    ASSUME NEW x \in Sources, NEW st, NEW dn, NEW given, ClientFits("call", x, st, dn, given)
    PROVE  ClientFits("lastsave", x, << >>, dn, TRUE)
<1>1. x # NoSource
  BY SourceAssumption
<1> QED BY <1>1 DEF ClientFits, InHand

LEMMA FitsIdle == ClientFits("idle", NoSource, << >>, {}, FALSE)
  BY DEF ClientFits, InHand

LEMMA RemoteTypedInit == RemoteInit => RemoteTyped
<1> SUFFICES ASSUME RemoteInit PROVE RemoteTyped
  OBVIOUS
<1>1. RemoteTypeOK
  BY RemoteBoundAssumption DEF RemoteInit, RemoteTypeOK, InHand, NoProgress, Progress
<1>2. FileOK
  BY SourceAssumption DEF RemoteInit, FileOK, NoProgress, Progress
<1>3. Clear
  BY FitsIdle DEF RemoteInit, Clear, ClientOK
<1> QED BY <1>1, <1>2, <1>3 DEF RemoteTyped

RemoteStep(c) == (\E x \in Sources : StartRun(c, x)) \/ ClientStep(c) \/ Killed(c)

\* A step of one client leaves the memory of the others alone.
LEMMA OthersWait ==
    ASSUME RemoteTypeOK, NEW c \in Clients, RemoteStep(c), NEW d \in Clients, d # c
    PROVE  /\ pc'[d] = pc[d] /\ source'[d] = source[d] /\ stack'[d] = stack[d]
           /\ done'[d] = done[d] /\ failed'[d] = failed[d]
<1> USE DEF RemoteTypeOK, Goto
<1>1. CASE \E x \in Sources : StartRun(c, x)
  BY <1>1 DEF StartRun
<1>2. CASE Answered(c)
  BY <1>2 DEF Answered
<1>3. CASE Transient(c)
  BY <1>3 DEF Transient, GiveUp
<1>4. CASE Fails(c)
  BY <1>4 DEF Fails, GiveUp
<1>5. CASE TimesOut(c)
  BY <1>5 DEF TimesOut, GiveUp
<1>6. CASE AuthFails(c)
  BY <1>6 DEF AuthFails
<1>7. CASE Truncate(c)
  BY <1>7 DEF Truncate, memory
<1>8. CASE CannotOpen(c)
  BY <1>8 DEF CannotOpen, Exit, memory
<1>9. CASE Write(c)
  BY <1>9 DEF Write, memory
<1>10. CASE LastWrite(c)
  BY <1>10 DEF LastWrite, Exit
<1>11. CASE PrintAnswer(c)
  BY <1>11 DEF PrintAnswer
<1>12. CASE Finish(c)
  BY <1>12 DEF Finish, Exit
<1>13. CASE Killed(c)
  BY <1>13 DEF Killed, Exit
<1> QED
  BY <1>1, <1>2, <1>3, <1>4, <1>5, <1>6, <1>7, <1>8, <1>9, <1>10, <1>11, <1>12, <1>13
     DEF RemoteStep, ClientStep

\* What a client that runs has.
LEMMA Working ==
    ASSUME RemoteTyped, NEW c \in Clients, pc[c] # "idle"
    PROVE  /\ source[c] \in Sources /\ stack[c] \in Seq(Seq(Hashes))
           /\ done[c] \in SUBSET Hashes /\ failed[c] \in BOOLEAN
           /\ stack[c] # << >> =>
                 /\ Len(stack[c]) \in DOMAIN stack[c] /\ Batch(c) \in Seq(Hashes)
                 /\ SetOf(Batch(c)) \in SUBSET Hashes
                 /\ SetOf(Batch(c)) \subseteq SetOf(SpansOf[source[c]])
                 /\ Rest(c) \in Seq(Seq(Hashes))
           /\ ClientFits(pc[c], source[c], stack[c], done[c], failed[c])
<1>1. /\ source[c] \in Sources \cup {NoSource} /\ stack[c] \in Seq(Seq(Hashes))
      /\ done[c] \in SUBSET Hashes /\ failed[c] \in BOOLEAN
  BY DEF RemoteTyped, RemoteTypeOK
<1>2. ClientFits(pc[c], source[c], stack[c], done[c], failed[c])
  BY DEF RemoteTyped, Clear, ClientOK
<1>3. source[c] \in Sources
  BY <1>1, <1>2 DEF ClientFits
<1>4. ASSUME stack[c] # << >>
      PROVE  /\ Len(stack[c]) \in DOMAIN stack[c] /\ Batch(c) \in Seq(Hashes)
             /\ Rest(c) \in Seq(Seq(Hashes))
  BY <1>1, <1>4, EmptySeq DEF Batch, Rest
<1>5. ASSUME stack[c] # << >> PROVE SetOf(Batch(c)) \in SUBSET Hashes
  <2>1. SetOf(Batch(c)) = {Batch(c)[i] : i \in 1..Len(Batch(c))}
    BY <1>4, <1>5, Members
  <2> QED BY <2>1, <1>4, <1>5
<1>6. ASSUME stack[c] # << >> PROVE SetOf(Batch(c)) \subseteq SetOf(SpansOf[source[c]])
  BY <1>2, <1>4, <1>6 DEF ClientFits, Batch
<1> QED BY <1>1, <1>2, <1>3, <1>4, <1>5, <1>6

LEMMA FileTyped ==
    ASSUME RemoteTyped, NEW x \in Sources
    PROVE  Loaded(x) \in SUBSET Hashes /\ Loaded(x) \subseteq SetOf(SpansOf[x])
  BY DEF RemoteTyped, RemoteTypeOK, FileOK, Loaded

LEMMA RemoteTypedStep ==
    ASSUME RemoteTyped, NEW c \in Clients, RemoteStep(c)
    PROVE  RemoteTyped'
<1> USE DEF Goto, At, memory, history, counters
<1>0. RemoteTypeOK
  BY DEF RemoteTyped
<1> SUFFICES RemoteTypeOK' /\ FileOK' /\ ClientOK(c)'
  <2>1. ASSUME NEW d \in Clients, d # c PROVE ClientOK(d)'
    <3>1. ClientOK(d)
      BY DEF RemoteTyped, Clear
    <3> QED BY <1>0, <2>1, <3>1, OthersWait DEF ClientOK
  <2> QED BY <2>1 DEF RemoteTyped, Clear

<1>1. ASSUME NEW x \in Sources, StartRun(c, x) PROVE RemoteTypeOK' /\ FileOK' /\ ClientOK(c)'
  <2>1. Chunks(Pending(x)) \in Seq(Seq(Hashes))
    BY FreshStack
  <2>2. Loaded(x) \in SUBSET Hashes /\ Loaded(x) \subseteq SetOf(SpansOf[x])
    BY FileTyped
  <2>3. RemoteTypeOK'
    BY <1>0, <1>1, <2>1, <2>2 DEF StartRun, RemoteTypeOK
  <2>4. /\ pc'[c] = "call" /\ source'[c] = x /\ stack'[c] = Chunks(Pending(x))
        /\ done'[c] = Loaded(x) /\ failed'[c] = failed[c] /\ pc[c] = "idle"
    BY <1>0, <1>1 DEF StartRun, RemoteTypeOK
  <2>5. failed[c] = FALSE
    BY <2>4 DEF RemoteTyped, Clear, ClientOK, ClientFits
  <2>6. ClientOK(c)'
    BY <2>2, <2>4, <2>5, FitsStart DEF ClientOK
  <2>7. FileOK'
    BY <1>1 DEF StartRun, FileOK, RemoteTyped
  <2> QED BY <2>3, <2>6, <2>7
<1>2. CASE Answered(c)
  <2>1. pc[c] = "call" /\ stack[c] # << >>
    BY <1>2 DEF Answered, Calling
  <2>2. RemoteTypeOK'
    <3>1. SetOf(Batch(c)) \in SUBSET Hashes /\ done[c] \in SUBSET Hashes
      BY <2>1, Working
    <3>2. done' \in [Clients -> SUBSET Hashes]
      BY <1>0, <1>2, <3>1 DEF Answered, RemoteTypeOK
    <3>3. 1 \in 1..Attempts
      BY RemoteBoundAssumption
    <3>4. attempt' \in [Clients -> 1..Attempts]
      BY <1>0, <1>2, <3>3 DEF Answered, RemoteTypeOK
    <3> QED BY <1>0, <1>2, <3>2, <3>4 DEF Answered, RemoteTypeOK, InHand
  <2>3. /\ pc'[c] = "save" /\ source'[c] = source[c] /\ stack'[c] = stack[c]
        /\ done'[c] = done[c] \cup SetOf(Batch(c)) /\ failed'[c] = failed[c]
    BY <1>0, <1>2 DEF Answered, RemoteTypeOK
  <2>4. ClientOK(c)'
    <3>1. /\ source[c] \in Sources /\ stack[c] \in Seq(Seq(Hashes))
          /\ ClientFits("call", source[c], stack[c], done[c], failed[c])
      BY <2>1, Working
    <3>2. ClientFits("save", source[c], stack[c], done[c] \cup SetOf(Batch(c)), failed[c])
      BY <2>1, <3>1, FitsAnswer DEF Batch
    <3> QED BY <2>3, <3>2 DEF ClientOK
  <2>5. FileOK'
    BY <1>2 DEF Answered, FileOK, RemoteTyped
  <2> QED BY <2>2, <2>4, <2>5
<1>3. ASSUME Calling(c), GiveUp(c), UNCHANGED <<file, pc, source, history, counters>>
      PROVE  RemoteTypeOK' /\ FileOK' /\ ClientOK(c)'
  <2>1. pc[c] = "call" /\ stack[c] # << >>
    BY <1>3 DEF Calling
  <2>2. RemoteTypeOK'
    BY <1>0, <1>3, <2>1, Working, RemoteBoundAssumption DEF GiveUp, RemoteTypeOK
  <2>3. /\ pc'[c] = "call" /\ source'[c] = source[c] /\ stack'[c] = Rest(c)
        /\ done'[c] = done[c] /\ failed'[c] = TRUE
    BY <1>0, <1>3, <2>1 DEF GiveUp, RemoteTypeOK
  <2>4. ClientOK(c)'
    <3>1. /\ source[c] \in Sources /\ stack[c] \in Seq(Seq(Hashes))
          /\ ClientFits("call", source[c], stack[c], done[c], failed[c])
      BY <2>1, Working
    <3>2. ClientFits("call", source[c], Rest(c), done[c], TRUE)
      BY <2>1, <3>1, FitsRest DEF Rest
    <3> QED BY <2>3, <3>2 DEF ClientOK
  <2>5. FileOK'
    BY <1>3 DEF FileOK, RemoteTyped
  <2> QED BY <2>2, <2>4, <2>5
<1>4. CASE Transient(c)
  <2>1. CASE attempt[c] < Attempts
    <3>1. RemoteTypeOK'
      <4>1. attempt[c] \in 1..Attempts /\ attempt[c] + 1 \in 1..Attempts
        BY <1>0, <2>1, RemoteBoundAssumption DEF RemoteTypeOK
      <4>2. attempt' \in [Clients -> 1..Attempts]
        BY <1>0, <1>4, <2>1, <4>1 DEF Transient, RemoteTypeOK
      <4> QED BY <1>0, <1>4, <2>1, <4>2 DEF Transient, RemoteTypeOK
    <3>2. FileOK'
      BY <1>4 DEF Transient, FileOK, RemoteTyped
    <3>3. ClientOK(c)'
      BY <1>4, <2>1 DEF Transient, ClientOK, RemoteTyped, Clear
    <3> QED BY <3>1, <3>2, <3>3
  <2>2. CASE ~(attempt[c] < Attempts)
    BY <1>3, <1>4, <2>2 DEF Transient
  <2> QED BY <2>1, <2>2
<1>5. CASE Fails(c)
  BY <1>3, <1>5 DEF Fails
<1>6. CASE TimesOut(c)
  <2>1. CASE Len(Batch(c)) > 1
    <3>1. pc[c] = "call" /\ stack[c] # << >>
      BY <1>6 DEF TimesOut, Calling
    <3>2. Rest(c) \o Halves(Batch(c)) \in Seq(Seq(Hashes))
      <4>1. \A k \in DOMAIN stack[c] : Len(stack[c][k]) \in 1..BatchSize
        BY <3>1, Working DEF ClientFits
      <4> QED BY <2>1, <3>1, <4>1, Working, SplitPlaces DEF Rest, Batch
    <3>3. RemoteTypeOK'
      <4>1. 1 \in 1..Attempts
        BY RemoteBoundAssumption
      <4>2. stack' \in [Clients -> Seq(Seq(Hashes))]
        BY <1>0, <1>6, <2>1, <3>2 DEF TimesOut, RemoteTypeOK
      <4>3. attempt' \in [Clients -> 1..Attempts]
        BY <1>0, <1>6, <2>1, <4>1 DEF TimesOut, RemoteTypeOK
      <4> QED BY <1>0, <1>6, <2>1, <4>2, <4>3
              DEF TimesOut, RemoteTypeOK, counters, history
    <3>4. /\ pc'[c] = "call" /\ source'[c] = source[c] /\ done'[c] = done[c]
          /\ stack'[c] = Rest(c) \o Halves(Batch(c)) /\ failed'[c] = failed[c]
      BY <1>0, <1>6, <2>1, <3>1 DEF TimesOut, RemoteTypeOK
    <3>5. ClientOK(c)'
      BY <2>1, <3>1, <3>4, Working, FitsSplit DEF ClientOK, Rest, Batch
    <3>6. FileOK'
      BY <1>6 DEF TimesOut, FileOK, RemoteTyped
    <3> QED BY <3>3, <3>5, <3>6
  <2>2. CASE ~(Len(Batch(c)) > 1)
    BY <1>3, <1>6, <2>2 DEF TimesOut
  <2> QED BY <2>1, <2>2
<1>7. CASE AuthFails(c)
  <2>1. pc[c] = "call"
    BY <1>7 DEF AuthFails, Calling
  <2>2. RemoteTypeOK'
    BY <1>0, <1>7, RemoteBoundAssumption DEF AuthFails, RemoteTypeOK
  <2>3. /\ pc'[c] = "lastsave" /\ source'[c] = source[c] /\ stack'[c] = << >>
        /\ done'[c] = done[c] /\ failed'[c] = TRUE
    BY <1>0, <1>7 DEF AuthFails, RemoteTypeOK
  <2>4. ClientOK(c)'
    <3>1. ClientFits("lastsave", source[c], << >>, done[c], TRUE)
      BY <2>1, Working, FitsRefused
    <3> QED BY <2>3, <3>1 DEF ClientOK
  <2>5. FileOK'
    BY <1>7 DEF AuthFails, FileOK, RemoteTyped
  <2> QED BY <2>2, <2>4, <2>5
<1>8. ASSUME source[c] \in Sources, Removes(c)
      PROVE  /\ file' \in [source : Sources \cup {NoSource}, done : SUBSET Hashes] /\ FileOK'
             /\ disturbed' \in [Sources -> BOOLEAN]
  BY <1>0, <1>8, SourceAssumption
     DEF Removes, FileOK, NoProgress, Progress, RemoteTypeOK
<1>9. CASE Truncate(c)
  <2>1. pc[c] \in {"save", "lastsave"}
    BY <1>9 DEF Truncate
  <2>2. source[c] \in Sources
    BY <2>1, Working
  <2>3. RemoteTypeOK' /\ FileOK'
    BY <1>0, <1>8, <1>9, <2>2 DEF Truncate, RemoteTypeOK, InHand
  <2>4. /\ pc'[c] = IF pc[c] = "save" THEN "write" ELSE "lastwrite"
        /\ source'[c] = source[c] /\ stack'[c] = stack[c]
        /\ done'[c] = done[c] /\ failed'[c] = failed[c]
    BY <1>0, <1>9 DEF Truncate, RemoteTypeOK
  <2>5. ClientOK(c)'
    BY <2>1, <2>4, Working, FitsMove DEF ClientOK
  <2> QED BY <2>3, <2>5
<1>10. ASSUME NEW result \in {"failed", "killed", "ok"}, source[c] \in Sources, Exit(c, result)
       PROVE  /\ pc' \in [Clients -> {"idle", "call", "lastsave", "lastwrite"} \cup InHand]
              /\ source' \in [Clients -> Sources \cup {NoSource}]
              /\ stack' \in [Clients -> Seq(Seq(Hashes))]
              /\ attempt' \in [Clients -> 1..Attempts]
              /\ done' \in [Clients -> SUBSET Hashes]
              /\ failed' \in [Clients -> BOOLEAN]
              /\ outcome' \in [Sources -> {"none", "failed", "killed", "ok"}]
              /\ ClientOK(c)'
  <2>1. /\ pc'[c] = "idle" /\ source'[c] = NoSource /\ stack'[c] = << >>
        /\ done'[c] = {} /\ failed'[c] = FALSE
    BY <1>0, <1>10 DEF Exit, RemoteTypeOK
  <2>2. ClientOK(c)'
    BY <2>1, FitsIdle DEF ClientOK
  <2>3. << >> \in Seq(Seq(Hashes))
    OBVIOUS
  <2> QED BY <1>0, <1>10, <2>2, <2>3, RemoteBoundAssumption DEF Exit, RemoteTypeOK
<1>11. ASSUME source[c] \in Sources, SaveFails(c)
       PROVE  faults' \in Nat /\ disturbed' \in [Sources -> BOOLEAN]
  BY <1>0, <1>11 DEF SaveFails, RemoteTypeOK
<1>12. CASE CannotOpen(c)
  <2>1. pc[c] \in {"save", "lastsave"}
    BY <1>12 DEF CannotOpen
  <2>2. source[c] \in Sources
    BY <2>1, Working
  <2>3. FileOK'
    BY <1>12 DEF CannotOpen, FileOK, RemoteTyped
  <2>4. faults' \in Nat /\ disturbed' \in [Sources -> BOOLEAN]
    BY <1>11, <1>12, <2>2 DEF CannotOpen
  <2>5. CASE pc[c] = "lastsave"
    BY <1>0, <1>10, <1>12, <2>2, <2>3, <2>4, <2>5 DEF CannotOpen, RemoteTypeOK
  <2>6. CASE pc[c] = "save"
    <3>1. RemoteTypeOK'
      BY <1>0, <1>12, <2>4, <2>6 DEF CannotOpen, RemoteTypeOK, InHand
    <3>2. /\ pc'[c] = "print" /\ source'[c] = source[c] /\ stack'[c] = stack[c]
          /\ done'[c] = done[c] /\ failed'[c] = failed[c]
      BY <1>0, <1>12, <2>6 DEF CannotOpen, RemoteTypeOK
    <3>3. ClientOK(c)'
      BY <2>6, <3>2, Working, FitsMove DEF ClientOK
    <3> QED BY <2>3, <3>1, <3>3
  <2> QED BY <2>1, <2>5, <2>6
<1>13. ASSUME source[c] \in Sources, pc[c] # "idle",
              \/ file' = Progress(source[c], done[c]) /\ UNCHANGED <<disturbed, faults>>
              \/ SaveFails(c) /\ UNCHANGED file
       PROVE  /\ file' \in [source : Sources \cup {NoSource}, done : SUBSET Hashes] /\ FileOK'
              /\ disturbed' \in [Sources -> BOOLEAN] /\ faults' \in Nat
  <2>1. done[c] \in SUBSET Hashes /\ done[c] \subseteq SetOf(SpansOf[source[c]])
    BY <1>13, Working DEF ClientFits
  <2>2. CASE file' = Progress(source[c], done[c]) /\ UNCHANGED <<disturbed, faults>>
    BY <1>0, <1>13, <2>1, <2>2 DEF Progress, FileOK, RemoteTypeOK
  <2>3. CASE SaveFails(c) /\ UNCHANGED file
    BY <1>0, <1>11, <1>13, <2>3 DEF FileOK, RemoteTyped, RemoteTypeOK
  <2> QED BY <1>13, <2>2, <2>3
<1>14. CASE Write(c)
  <2>1. pc[c] = "write" /\ source[c] \in Sources
    BY <1>14, Working DEF Write
  <2>2. RemoteTypeOK' /\ FileOK'
    BY <1>0, <1>13, <1>14, <2>1 DEF Write, RemoteTypeOK, InHand, Saved
  <2>3. /\ pc'[c] = "print" /\ source'[c] = source[c] /\ stack'[c] = stack[c]
        /\ done'[c] = done[c] /\ failed'[c] = failed[c]
    BY <1>0, <1>14 DEF Write, RemoteTypeOK
  <2>4. ClientOK(c)'
    BY <2>1, <2>3, Working, FitsMove DEF ClientOK
  <2> QED BY <2>2, <2>4
<1>15. CASE LastWrite(c)
  <2>1. pc[c] = "lastwrite" /\ source[c] \in Sources
    BY <1>15, Working DEF LastWrite
  <2> QED BY <1>0, <1>10, <1>13, <1>15, <2>1 DEF LastWrite, RemoteTypeOK
<1>16. CASE PrintAnswer(c)
  <2>1. pc[c] = "print" /\ source[c] \in Sources
    BY <1>16, Working DEF PrintAnswer
  <2>2. stack[c] # << >>
    BY <2>1, Working DEF ClientFits, InHand
  <2>3. Rest(c) \in Seq(Seq(Hashes))
    BY <2>1, <2>2, Working
  <2>4. printed' \in [Sources -> [Hashes -> Nat]]
    BY <1>0, <1>16, <2>1 DEF PrintAnswer, RemoteTypeOK
  <2>5. RemoteTypeOK'
    BY <1>0, <1>16, <2>3, <2>4 DEF PrintAnswer, RemoteTypeOK
  <2>6. /\ pc'[c] = "call" /\ source'[c] = source[c] /\ stack'[c] = Rest(c)
        /\ done'[c] = done[c] /\ failed'[c] = failed[c]
    BY <1>0, <1>16 DEF PrintAnswer, RemoteTypeOK
  <2>7. ClientOK(c)'
    BY <2>1, <2>2, <2>6, Working, FitsRest DEF ClientOK, Rest
  <2>8. FileOK'
    BY <1>16 DEF PrintAnswer, FileOK, RemoteTyped
  <2> QED BY <2>5, <2>7, <2>8
<1>17. CASE Finish(c)
  <2>1. pc[c] = "call" /\ source[c] \in Sources
    BY <1>17, Working DEF Finish
  <2>2. CASE failed[c]
    <3>1. FileOK'
      BY <1>17, <2>2 DEF Finish, FileOK, RemoteTyped
    <3> QED BY <1>0, <1>10, <1>17, <2>1, <2>2, <3>1 DEF Finish, RemoteTypeOK
  <2>3. CASE ~failed[c]
    BY <1>0, <1>8, <1>10, <1>17, <2>1, <2>3 DEF Finish, RemoteTypeOK
  <2> QED BY <2>2, <2>3
<1>18. CASE Killed(c)
  <2>1. pc[c] # "idle" /\ source[c] \in Sources
    BY <1>18, Working DEF Killed
  <2>2. FileOK'
    BY <1>18 DEF Killed, FileOK, RemoteTyped
  <2> QED BY <1>0, <1>10, <1>18, <2>1, <2>2 DEF Killed, RemoteTypeOK
<1> QED
  BY <1>1, <1>2, <1>4, <1>5, <1>6, <1>7, <1>9, <1>12, <1>14, <1>15, <1>16, <1>17, <1>18
     DEF RemoteStep, ClientStep

\* A step of a client that runs: what it leaves to the sources of others.
LEMMA RunningStep ==
    ASSUME RemoteTyped, NEW c \in Clients, ClientStep(c) \/ Killed(c)
    PROVE  /\ pc[c] # "idle"
           /\ \A x \in Sources : disturbed[x] => disturbed'[x]
           /\ \/ pc'[c] # "idle" /\ source'[c] = source[c] /\ outcome' = outcome
              \/ pc'[c] = "idle" /\ source'[c] = NoSource
           /\ \A x \in Sources : x # source[c] =>
                 printed'[x] = printed[x] /\ outcome'[x] = outcome[x]
           /\ kills' \in Nat /\ kills <= kills'
<1> USE DEF RemoteTyped, RemoteTypeOK, Goto, At, history, counters, memory
<1>0. pc[c] # "idle" => source[c] \in Sources
  BY Working
<1>1. CASE Answered(c)
  BY <1>1 DEF Answered, Calling
<1>2. CASE Transient(c)
  BY <1>2 DEF Transient, Calling
<1>3. CASE Fails(c)
  BY <1>3 DEF Fails, Calling
<1>4. CASE TimesOut(c)
  BY <1>4 DEF TimesOut, Calling
<1>5. CASE AuthFails(c)
  BY <1>5 DEF AuthFails, Calling
<1>6. CASE Truncate(c)
  <2>1. pc[c] # "idle" /\ pc'[c] # "idle" /\ source' = source /\ outcome' = outcome
        /\ printed' = printed /\ kills' = kills
    BY <1>6 DEF Truncate
  <2>2. \A x \in Sources : disturbed[x] => disturbed'[x]
    BY <1>6 DEF Truncate, Removes
  <2> QED BY <2>1, <2>2
<1>7. CASE CannotOpen(c)
  <2>1. pc[c] # "idle" /\ printed' = printed /\ kills' = kills
    BY <1>7 DEF CannotOpen
  <2>2. \A x \in Sources : disturbed[x] => disturbed'[x]
    BY <1>0, <1>7, <2>1 DEF CannotOpen, SaveFails
  <2>3. /\ \/ pc'[c] # "idle" /\ source'[c] = source[c] /\ outcome' = outcome
           \/ pc'[c] = "idle" /\ source'[c] = NoSource
        /\ \A x \in Sources : x # source[c] => outcome'[x] = outcome[x]
    BY <1>0, <1>7, <2>1 DEF CannotOpen, Exit
  <2> QED BY <2>1, <2>2, <2>3
<1>8. CASE Write(c)
  <2>1. pc[c] # "idle" /\ pc'[c] # "idle" /\ source' = source /\ outcome' = outcome
        /\ printed' = printed /\ kills' = kills
    BY <1>8 DEF Write
  <2>2. \A x \in Sources : disturbed[x] => disturbed'[x]
    BY <1>0, <1>8, <2>1 DEF Write, SaveFails
  <2> QED BY <2>1, <2>2
<1>9. CASE LastWrite(c)
  <2>1. pc[c] # "idle" /\ pc'[c] = "idle" /\ source'[c] = NoSource
        /\ printed' = printed /\ kills' = kills
    BY <1>9 DEF LastWrite, Exit
  <2>2. \A x \in Sources : disturbed[x] => disturbed'[x]
    BY <1>0, <1>9, <2>1 DEF LastWrite, SaveFails
  <2>3. \A x \in Sources : x # source[c] => outcome'[x] = outcome[x]
    BY <1>0, <1>9, <2>1 DEF LastWrite, Exit
  <2> QED BY <2>1, <2>2, <2>3
<1>10. CASE PrintAnswer(c)
  <2>1. pc[c] # "idle" /\ pc'[c] # "idle" /\ source' = source /\ outcome' = outcome
        /\ disturbed' = disturbed /\ kills' = kills
    BY <1>10 DEF PrintAnswer
  <2>2. \A x \in Sources : x # source[c] => printed'[x] = printed[x]
    BY <1>0, <1>10, <2>1 DEF PrintAnswer
  <2> QED BY <2>1, <2>2
<1>11. CASE Finish(c)
  <2>1. pc[c] # "idle" /\ pc'[c] = "idle" /\ source'[c] = NoSource
        /\ printed' = printed /\ kills' = kills
    BY <1>11 DEF Finish, Exit
  <2>2. \A x \in Sources : disturbed[x] => disturbed'[x]
    BY <1>11 DEF Finish, Removes
  <2>3. \A x \in Sources : x # source[c] => outcome'[x] = outcome[x]
    BY <1>0, <1>11, <2>1 DEF Finish, Exit
  <2> QED BY <2>1, <2>2, <2>3
<1>12. CASE Killed(c)
  <2>1. pc[c] # "idle" /\ pc'[c] = "idle" /\ source'[c] = NoSource
        /\ printed' = printed /\ disturbed' = disturbed /\ kills' = kills + 1
    BY <1>12 DEF Killed, Exit
  <2>2. \A x \in Sources : x # source[c] => outcome'[x] = outcome[x]
    BY <1>0, <1>12, <2>1 DEF Killed, Exit
  <2> QED BY <2>1, <2>2
<1> QED
  BY <1>1, <1>2, <1>3, <1>4, <1>5, <1>6, <1>7, <1>8, <1>9, <1>10, <1>11, <1>12
     DEF ClientStep

----------------------------------------------------------------------------
(* The file, and who has disturbed whom.                                   *)

LEMMA AloneStep ==
    ASSUME RemoteTyped, Alone, NEW c \in Clients, RemoteStep(c)
    PROVE  Alone'
<1>0. /\ RemoteTypeOK
      /\ \A d \in Clients : d # c => pc'[d] = pc[d] /\ source'[d] = source[d]
  BY OthersWait DEF RemoteTyped
<1>1. CASE ClientStep(c) \/ Killed(c)
  <2> SUFFICES ASSUME NEW d \in Clients, pc'[d] # "idle", ~disturbed'[source'[d]]
               PROVE  Running' = {d}
    BY DEF Alone
  <2>1. pc[c] # "idle" /\ c \in Running
    BY <1>1, RunningStep DEF Running
  <2>2. source'[d] = source[d] /\ pc[d] # "idle"
    BY <1>0, <1>1, RunningStep
  <2>3. ~disturbed[source[d]]
    BY <1>1, <2>2, RunningStep, Working
  <2>4. Running = {d}
    BY <2>2, <2>3 DEF Alone
  <2>5. d = c
    BY <2>1, <2>4
  <2>6. \A e \in Clients : e # c => pc'[e] = "idle"
    BY <1>0, <2>4, <2>5 DEF Running
  <2> QED BY <2>5, <2>6 DEF Running
<1>2. ASSUME NEW x \in Sources, StartRun(c, x)
      PROVE  Alone'
  <2> SUFFICES ASSUME NEW d \in Clients, pc'[d] # "idle", ~disturbed'[source'[d]]
               PROVE  Running' = {d}
    BY DEF Alone
  <2>1. pc[c] = "idle" /\ pc'[c] = "call" /\ source'[c] = x
    BY <1>0, <1>2 DEF StartRun, RemoteTypeOK, Goto, At
  <2>2. \A y \in Sources : Running # {} /\ (y = x \/ \E e \in Running : source[e] = y)
                              => disturbed'[y]
    BY <1>2 DEF StartRun
  <2>3. d = c
    <3> SUFFICES ASSUME d # c PROVE FALSE
      OBVIOUS
    <3>1. d \in Running /\ source'[d] = source[d] /\ source[d] \in Sources
      BY <1>0, Working DEF Running
    <3> QED BY <2>2, <3>1
  <2>4. Running = {}
    BY <2>1, <2>2, <2>3
  <2>5. \A e \in Clients : e # c => pc'[e] = "idle"
    BY <1>0, <2>4 DEF Running
  <2> QED BY <2>3, <2>5 DEF Running
<1> QED BY <1>1, <1>2 DEF RemoteStep

\* The file stays, is emptied, or is written after it was emptied.
LEMMA FileStep ==
    ASSUME RemoteTyped, Emptied, NEW c \in Clients, RemoteStep(c)
    PROVE  \/ file' = file
           \/ pc[c] # "idle" /\ Removes(c)
           \/ /\ pc[c] \in {"write", "lastwrite"} /\ file' = Saved(c)
              /\ file.source # NoSource => disturbed[file.source]
              /\ pc[c] = "write" => pc'[c] = "print"
<1> USE DEF RemoteTyped, RemoteTypeOK, Goto, At, history, counters, memory
<1>1. CASE \E x \in Sources : StartRun(c, x)
  BY <1>1 DEF StartRun
<1>2. CASE Answered(c) \/ Transient(c) \/ Fails(c) \/ TimesOut(c) \/ AuthFails(c)
  BY <1>2 DEF Answered, Transient, Fails, TimesOut, AuthFails
<1>3. CASE Truncate(c)
  BY <1>3 DEF Truncate
<1>4. CASE CannotOpen(c) \/ PrintAnswer(c) \/ Killed(c)
  BY <1>4 DEF CannotOpen, PrintAnswer, Killed
<1>5. CASE Write(c)
  <2>1. file' = file \/ file' = Saved(c)
    BY <1>5 DEF Write
  <2>2. pc[c] = "write" /\ pc'[c] = "print"
    BY <1>5 DEF Write
  <2> QED BY <2>1, <2>2 DEF Emptied
<1>6. CASE LastWrite(c)
  <2>1. file' = file \/ file' = Saved(c)
    BY <1>6 DEF LastWrite, Saved
  <2>2. pc[c] = "lastwrite"
    BY <1>6 DEF LastWrite
  <2> QED BY <2>1, <2>2 DEF Emptied
<1>7. CASE Finish(c)
  BY <1>7 DEF Finish
<1> QED BY <1>1, <1>2, <1>3, <1>4, <1>5, <1>6, <1>7 DEF RemoteStep, ClientStep

LEMMA EmptiedStep ==
    ASSUME RemoteTyped, Alone, Emptied, NEW c \in Clients, RemoteStep(c)
    PROVE  Emptied'
<1>0. /\ RemoteTypeOK
      /\ \A d \in Clients : d # c => pc'[d] = pc[d] /\ source'[d] = source[d]
  BY OthersWait DEF RemoteTyped
<1>1. \A x \in Sources : disturbed[x] => disturbed'[x]
  <2>1. CASE \E x \in Sources : StartRun(c, x)
    BY <2>1 DEF StartRun
  <2> QED BY <2>1, RunningStep DEF RemoteStep
<1>2. file.source \in Sources \cup {NoSource}
  BY <1>0 DEF RemoteTypeOK
<1> SUFFICES ASSUME NEW d \in Clients, pc'[d] \in {"write", "lastwrite"},
                    file'.source # NoSource
             PROVE  disturbed'[file'.source]
  BY DEF Emptied
<1>3. CASE file' = NoProgress
  BY <1>3 DEF NoProgress, Progress
<1>4. CASE file' = file
  <2>1. CASE pc[d] \in {"write", "lastwrite"}
    BY <1>1, <1>2, <1>4, <2>1 DEF Emptied
  <2>2. CASE ~(pc[d] \in {"write", "lastwrite"})
    <3>1. d = c
      BY <1>0, <2>2
    <3>2. Truncate(c)
      <4> USE DEF RemoteTypeOK, Goto, At, history, counters, memory
      <4>1. ~(\E x \in Sources : StartRun(c, x))
        BY <1>0, <3>1 DEF StartRun
      <4>2. ~Answered(c) /\ ~Transient(c) /\ ~Fails(c) /\ ~TimesOut(c) /\ ~AuthFails(c)
        BY <1>0, <2>2, <3>1 DEF Answered, Transient, Fails, TimesOut, AuthFails
      <4>3. ~CannotOpen(c) /\ ~Write(c) /\ ~LastWrite(c) /\ ~PrintAnswer(c)
        BY <1>0, <3>1 DEF CannotOpen, Exit, Write, LastWrite, PrintAnswer
      <4>4. ~Finish(c) /\ ~Killed(c)
        BY <1>0, <3>1 DEF Finish, Exit, Killed
      <4> QED BY <4>1, <4>2, <4>3, <4>4 DEF RemoteStep, ClientStep
    <3>3. file' = NoProgress
      BY <3>2 DEF Truncate, Removes
    <3> QED BY <1>3, <3>3
  <2> QED BY <2>1, <2>2
<1>5. CASE /\ pc[c] \in {"write", "lastwrite"} /\ file' = Saved(c)
           /\ pc[c] = "write" => pc'[c] = "print"
  <2>1. file'.source = source[c] /\ source[c] \in Sources /\ c \in Running
    BY <1>5, Working DEF Saved, Progress, Running
  <2>2. d # c
    <3>1. pc[c] = "lastwrite" => pc'[c] # "lastwrite" /\ pc'[c] # "write"
      <4> USE DEF RemoteTypeOK, Goto, At, history, counters, memory
      <4> SUFFICES ASSUME pc[c] = "lastwrite"
                   PROVE  pc'[c] # "lastwrite" /\ pc'[c] # "write"
        OBVIOUS
      <4>1. ~(\E x \in Sources : StartRun(c, x))
        BY <1>0 DEF StartRun
      <4>2. ~Answered(c) /\ ~Transient(c) /\ ~Fails(c) /\ ~TimesOut(c) /\ ~AuthFails(c)
        BY DEF Answered, Transient, Fails, TimesOut, AuthFails, Calling
      <4>3. ~Truncate(c) /\ ~CannotOpen(c) /\ ~Write(c) /\ ~PrintAnswer(c) /\ ~Finish(c)
        BY DEF Truncate, CannotOpen, Write, PrintAnswer, Finish
      <4>4. LastWrite(c) \/ Killed(c)
        BY <4>1, <4>2, <4>3 DEF RemoteStep, ClientStep
      <4> QED BY <1>0, <4>4 DEF LastWrite, Killed, Exit
    <3> QED BY <1>5, <3>1
  <2>3. d \in Running
    BY <1>0, <2>2 DEF Running
  <2>4. disturbed[source[c]]
    BY <2>1, <2>2, <2>3 DEF Alone, Running
  <2> QED BY <1>1, <2>1, <2>4
<1> QED BY <1>3, <1>4, <1>5, FileStep DEF Removes

----------------------------------------------------------------------------
(* ResumeRepeatsNothing: what is printed and what is still held.           *)

\* The allowance grows with the kills.
LEMMA Allowance ==
    ASSUME RemoteTyped, NEW x \in Sources, NEW s
    PROVE  /\ Times(x, s) \in Nat /\ kills \in Nat
           /\ kills * Times(x, s) \in Nat /\ (1 + kills) * Times(x, s) \in Nat
           /\ (1 + kills) * Times(x, s) = kills * Times(x, s) + Times(x, s)
           /\ \A more \in Nat : kills <= more =>
                 /\ kills * Times(x, s) <= more * Times(x, s)
                 /\ (1 + kills) * Times(x, s) <= (1 + more) * Times(x, s)
                 /\ more * Times(x, s) \in Nat /\ (1 + more) * Times(x, s) \in Nat
<1>1. Times(x, s) \in Nat /\ kills \in Nat
  BY TimesNat DEF RemoteTyped, RemoteTypeOK
<1>2. kills * Times(x, s) \in Nat /\ (kills + 1) * Times(x, s) = kills * Times(x, s) + Times(x, s)
  BY <1>1, Products
<1>3. 1 + kills = kills + 1
  BY <1>1
<1>4. ASSUME NEW more \in Nat, kills <= more
      PROVE  /\ kills * Times(x, s) <= more * Times(x, s)
             /\ (1 + kills) * Times(x, s) <= (1 + more) * Times(x, s)
             /\ more * Times(x, s) \in Nat /\ (1 + more) * Times(x, s) \in Nat
  <2>1. 1 + kills \in Nat /\ 1 + more \in Nat /\ 1 + kills <= 1 + more
    BY <1>1, <1>4
  <2> QED BY <1>1, <1>4, <2>1, Products
<1> QED BY <1>1, <1>2, <1>3, <1>4

\* What a step of a client leaves to the other sources.
LEMMA OtherLedger ==
    ASSUME RemoteTyped, Emptied, NEW c \in Clients, RemoteStep(c),
           NEW x \in Sources, ~disturbed'[x], ~disturbed[x], source[c] # x, ~StartRun(c, x),
           NEW s \in SetOf(SpansOf[x]), s \in Hashes, Ledger(x, s)
    PROVE  Ledger(x, s)'
<1>0. /\ RemoteTypeOK
      /\ \A d \in Clients : d # c =>
            /\ pc'[d] = pc[d] /\ source'[d] = source[d] /\ stack'[d] = stack[d]
            /\ done'[d] = done[d]
  BY OthersWait DEF RemoteTyped
<1>1. /\ printed'[x] = printed[x] /\ outcome'[x] = outcome[x]
      /\ kills' \in Nat /\ kills <= kills' /\ source'[c] # x
  <2>1. CASE \E y \in Sources : StartRun(c, y)
    <3>1. PICK y \in Sources : StartRun(c, y)
      BY <2>1
    <3>2. printed' = printed /\ outcome' = outcome /\ kills' = kills /\ y # x
          /\ source'[c] = y
      BY <1>0, <3>1 DEF StartRun, RemoteTypeOK
    <3> QED BY <1>0, <3>2 DEF RemoteTypeOK
  <2>2. CASE ClientStep(c) \/ Killed(c)
    BY <2>2, RunningStep, SourceAssumption
  <2> QED BY <2>1, <2>2 DEF RemoteStep
<1>2. Loaded(x)' = Loaded(x)
  <2>1. CASE file' = file
    BY <2>1 DEF Loaded
  <2>2. CASE pc[c] # "idle" /\ Removes(c)
    BY <2>2, SourceAssumption DEF Removes, Loaded, NoProgress, Progress
  <2>3. CASE /\ pc[c] \in {"write", "lastwrite"} /\ file' = Saved(c)
             /\ file.source # NoSource => disturbed[file.source]
    BY <2>3, SourceAssumption DEF Saved, Progress, Loaded
  <2> QED BY <2>1, <2>2, <2>3, FileStep
<1>3. /\ Times(x, s) \in Nat /\ printed[x][s] \in Nat
      /\ kills * Times(x, s) \in Nat /\ (1 + kills) * Times(x, s) \in Nat
      /\ kills * Times(x, s) <= kills' * Times(x, s)
      /\ (1 + kills) * Times(x, s) <= (1 + kills') * Times(x, s)
      /\ kills' * Times(x, s) \in Nat /\ (1 + kills') * Times(x, s) \in Nat
  BY <1>0, <1>1, Allowance DEF RemoteTypeOK
<1> DEFINE a == kills * Times(x, s)
           b == (1 + kills) * Times(x, s)
           a1 == kills' * Times(x, s)
           b1 == (1 + kills') * Times(x, s)
<1>4. /\ printed[x][s] <= b
      /\ (\A d \in Clients : source[d] # x) /\ outcome[x] # "ok" /\ s \notin Loaded(x)
            => printed[x][s] <= a
      /\ \A d \in Clients : source[d] = x =>
            /\ printed[x][s] + Cardinality(Places(stack[d], s)) <= b
            /\ s \notin done[d] => printed[x][s] <= a
            /\ pc[d] \in {"call", "save", "print", "lastsave"} /\ s \notin Loaded(x)
                  => printed[x][s] <= a
            /\ pc[d] = "print" /\ s \in SetOf(Batch(d)) => s \in Loaded(x)
  BY DEF Ledger, ClientLedger
<1>5. /\ a \in Nat /\ b \in Nat /\ a1 \in Nat /\ b1 \in Nat /\ a <= a1 /\ b <= b1
      /\ printed[x][s] \in Nat
  BY <1>3
<1> HIDE DEF a, b, a1, b1
<1>6. printed'[x][s] <= b1
  BY <1>1, <1>4, <1>5
<1>7. (\A d \in Clients : source'[d] # x) /\ outcome'[x] # "ok" /\ s \notin Loaded(x)'
         => printed'[x][s] <= a1
  BY <1>0, <1>1, <1>2, <1>4, <1>5
<1>8. ASSUME NEW d \in Clients, source'[d] = x
      PROVE  /\ printed'[x][s] + Cardinality(Places(stack'[d], s)) <= b1
             /\ s \notin done'[d] => printed'[x][s] <= a1
             /\ pc'[d] \in {"call", "save", "print", "lastsave"} /\ s \notin Loaded(x)'
                   => printed'[x][s] <= a1
             /\ pc'[d] = "print" /\ s \in SetOf(Batch(d)') => s \in Loaded(x)'
  <2>1. d # c /\ source[d] = x /\ stack'[d] = stack[d] /\ done'[d] = done[d]
        /\ pc'[d] = pc[d] /\ Batch(d)' = Batch(d)
    BY <1>0, <1>1, <1>8 DEF Batch
  <2>2. Cardinality(Places(stack[d], s)) \in Nat
    BY <1>0, PlacesFinite DEF RemoteTypeOK
  <2> QED BY <1>1, <1>2, <1>4, <1>5, <2>1, <2>2
<1> QED BY <1>6, <1>7, <1>8 DEF Ledger, ClientLedger, a1, b1

\* A step of the client of the source, which runs alone.
LEMMA OwnLedger ==
    ASSUME RemoteTyped, Alone, NEW c \in Clients, RemoteStep(c),
           NEW x \in Sources, ~disturbed'[x], ~disturbed[x],
           source[c] = x \/ StartRun(c, x),
           NEW s \in SetOf(SpansOf[x]), s \in Hashes, Ledger(x, s)
    PROVE  Ledger(x, s)'
<1> USE DEF Goto, At, memory, history, counters
<1>0. RemoteTypeOK
  BY DEF RemoteTyped
<1> DEFINE a == kills * Times(x, s)
           b == (1 + kills) * Times(x, s)
<1>1. /\ a \in Nat /\ b \in Nat /\ b = a + Times(x, s) /\ Times(x, s) \in Nat
      /\ printed[x][s] \in Nat
  BY <1>0, Allowance DEF RemoteTypeOK
<1>2. printed[x][s] <= b
  BY DEF Ledger
\* The other clients are idle.
<1>3. \A d \in Clients : d # c => source'[d] # x /\ source[d] # x
  <2> SUFFICES ASSUME NEW d \in Clients, d # c PROVE source'[d] # x /\ source[d] # x
    OBVIOUS
  <2>1. source'[d] = source[d]
    BY OthersWait DEF RemoteTyped
  <2>2. CASE source[c] = x
    <3>1. pc[c] # "idle"
      BY <2>2, SourceAssumption DEF RemoteTyped, Clear, ClientOK, ClientFits
    <3>2. Running = {c}
      BY <2>2, <3>1 DEF Alone
    <3>3. pc[d] = "idle"
      BY <2>1, <3>2 DEF Running
    <3>4. source[d] = NoSource
      BY <3>3 DEF RemoteTyped, Clear, ClientOK, ClientFits
    <3> QED BY <2>1, <3>4, SourceAssumption
  <2>3. CASE StartRun(c, x)
    <3>1. Running = {}
      BY <2>3 DEF StartRun
    <3>2. pc[d] = "idle"
      BY <3>1 DEF Running
    <3>3. source[d] = NoSource
      BY <3>2 DEF RemoteTyped, Clear, ClientOK, ClientFits
    <3> QED BY <2>1, <3>3, SourceAssumption
  <2> QED BY <2>2, <2>3
<1>4. CASE StartRun(c, x)
  <2>1. /\ pc'[c] = "call" /\ source'[c] = x /\ stack'[c] = Chunks(Pending(x))
        /\ done'[c] = Loaded(x) /\ printed' = printed /\ kills' = kills
        /\ file' = file /\ pc[c] = "idle" /\ outcome[x] # "ok"
    BY <1>0, <1>4 DEF StartRun, RemoteTypeOK
  <2>2. source[c] # x
    BY <2>1, SourceAssumption DEF RemoteTyped, Clear, ClientOK, ClientFits
  <2>3. s \notin Loaded(x) => printed[x][s] <= a
    BY <1>3, <2>1, <2>2 DEF Ledger
  <2>4. Loaded(x)' = Loaded(x)
    BY <2>1 DEF Loaded
  <2>5. printed[x][s] + Cardinality(Places(Chunks(Pending(x)), s)) <= b
    <3>1. /\ Chunks(Pending(x)) \in Seq(Seq(Hashes))
          /\ \A k \in DOMAIN Chunks(Pending(x)) :
                SetOf(Chunks(Pending(x))[k]) \subseteq SetOf(SpansOf[x]) \ Loaded(x)
      BY FreshStack
    <3> DEFINE st == Chunks(Pending(x))
    <3>2. Cardinality(Places(st, s)) \in Nat /\ Cardinality(Places(st, s)) <= Times(x, s)
      BY <3>1, PlacesFinite, FreshStackPlaces
    <3>3. CASE s \notin Loaded(x)
      <4> HIDE DEF a, b, st
      <4> QED BY <1>1, <2>3, <3>2, <3>3 DEF st
    <3>4. CASE s \in Loaded(x)
      <4>1. Places(st, s) = {}
        <5> SUFFICES ASSUME NEW p \in Places(st, s) PROVE FALSE
          OBVIOUS
        <5>1. p[1] \in DOMAIN st /\ p[2] \in DOMAIN st[p[1]] /\ st[p[1]][p[2]] = s
          BY DEF Places
        <5>2. s \in SetOf(st[p[1]])
          BY <5>1 DEF SetOf
        <5> QED BY <3>1, <3>4, <5>1, <5>2
      <4>2. Cardinality(Places(st, s)) = 0
        BY <4>1, FS_EmptySet
      <4> HIDE DEF a, b, st
      <4> QED BY <1>1, <1>2, <4>2 DEF st
    <3> QED BY <3>3, <3>4
  <2>6. ClientLedger(x, s, c)'
    BY <2>1, <2>3, <2>4, <2>5 DEF ClientLedger
  <2> QED BY <1>2, <1>3, <2>1, <2>6 DEF Ledger
<1>5. SUFFICES ASSUME source[c] = x, ~StartRun(c, x) PROVE Ledger(x, s)'
  BY <1>4
<1>6. /\ pc[c] # "idle" /\ stack[c] \in Seq(Seq(Hashes))
      /\ ClientFits(pc[c], x, stack[c], done[c], failed[c])
  <2>1. pc[c] # "idle"
    BY <1>5, SourceAssumption DEF RemoteTyped, Clear, ClientOK, ClientFits
  <2> QED BY <1>5, <2>1, Working
<1> DEFINE held == Cardinality(Places(stack[c], s))
<1>7. /\ printed[x][s] + held <= b
      /\ s \notin done[c] => printed[x][s] <= a
      /\ pc[c] \in {"call", "save", "print", "lastsave"} /\ s \notin Loaded(x)
            => printed[x][s] <= a
      /\ pc[c] = "print" /\ s \in SetOf(Batch(c)) => s \in Loaded(x)
      /\ held \in Nat
  <2>1. ClientLedger(x, s, c)
    BY <1>5 DEF Ledger
  <2> QED BY <1>6, <2>1, PlacesFinite DEF ClientLedger
\* What is left to show if c goes on, and if it ends.
<1>8. ASSUME source'[c] = x, ClientLedger(x, s, c)', printed'[x][s] <= b, kills' = kills
      PROVE  Ledger(x, s)'
  BY <1>3, <1>8 DEF Ledger
<1>9. ASSUME source'[c] = NoSource, printed' = printed, kills' = kills,
             outcome'[x] = "ok" \/ s \in Loaded(x)' \/ printed[x][s] <= a
      PROVE  Ledger(x, s)'
  <2>1. \A d \in Clients : source'[d] # x
    BY <1>3, <1>9, SourceAssumption
  <2> QED BY <1>2, <1>9, <2>1 DEF Ledger
<1>10. ASSUME file' = file, printed' = printed, kills' = kills, source'[c] = x,
              pc[c] = "call", pc'[c] \in {"call", "save", "lastsave"},
              done[c] \subseteq done'[c], stack'[c] \in Seq(Seq(Hashes)),
              Cardinality(Places(stack'[c], s)) <= held
       PROVE  Ledger(x, s)'
  <2>1. Loaded(x)' = Loaded(x)
    BY <1>10 DEF Loaded
  <2>2. Cardinality(Places(stack'[c], s)) \in Nat
    BY <1>10, PlacesFinite
  <2>3. printed[x][s] + Cardinality(Places(stack'[c], s)) <= b
    <3> HIDE DEF b
    <3> QED BY <1>1, <1>7, <1>10, <2>2
  <2>4. ClientLedger(x, s, c)'
    BY <1>7, <1>10, <2>1, <2>3 DEF ClientLedger, Batch
  <2> QED BY <1>2, <1>8, <1>10, <2>4
<1>11. \A st \in Seq(Seq(Hashes)) : st # << >> /\ st = stack[c] =>
          /\ Cardinality(Places(SubSeq(st, 1, Len(st) - 1), s)) <= held
          /\ SubSeq(st, 1, Len(st) - 1) \in Seq(Seq(Hashes))
          /\ s \in SetOf(st[Len(st)]) =>
                Cardinality(Places(SubSeq(st, 1, Len(st) - 1), s)) + 1 <= held
          /\ Len(st[Len(st)]) > 1 =>
                /\ SubSeq(st, 1, Len(st) - 1) \o Halves(st[Len(st)]) \in Seq(Seq(Hashes))
                /\ Cardinality(Places(SubSeq(st, 1, Len(st) - 1) \o Halves(st[Len(st)]), s))
                      <= held
  <2>1. \A k \in DOMAIN stack[c] : Len(stack[c][k]) \in 1..BatchSize
    BY <1>6 DEF ClientFits
  <2>2. ASSUME stack[c] # << >>
        PROVE  /\ Cardinality(Places(Rest(c), s)) <= held /\ Rest(c) \in Seq(Seq(Hashes))
               /\ s \in SetOf(Batch(c)) => Cardinality(Places(Rest(c), s)) + 1 <= held
    BY <1>6, <2>1, <2>2, RestPlaces DEF Rest, Batch
  <2>3. ASSUME stack[c] # << >>, Len(Batch(c)) > 1
        PROVE  /\ Rest(c) \o Halves(Batch(c)) \in Seq(Seq(Hashes))
               /\ Cardinality(Places(Rest(c) \o Halves(Batch(c)), s)) <= held
    BY <1>6, <2>1, <2>3, SplitPlaces DEF Rest, Batch
  <2> QED BY <2>2, <2>3 DEF Rest, Batch
<1>12. /\ stack[c] # << >> =>
             /\ Cardinality(Places(Rest(c), s)) <= held /\ Rest(c) \in Seq(Seq(Hashes))
             /\ s \in SetOf(Batch(c)) => Cardinality(Places(Rest(c), s)) + 1 <= held
       /\ stack[c] # << >> /\ Len(Batch(c)) > 1 =>
             /\ Rest(c) \o Halves(Batch(c)) \in Seq(Seq(Hashes))
             /\ Cardinality(Places(Rest(c) \o Halves(Batch(c)), s)) <= held
  BY <1>6, <1>11 DEF Rest, Batch
<1>13. CASE Answered(c)
  <2>1. /\ pc[c] = "call" /\ pc'[c] = "save" /\ source'[c] = x /\ stack' = stack
        /\ file' = file /\ printed' = printed /\ kills' = kills
        /\ done[c] \subseteq done'[c]
    BY <1>0, <1>5, <1>13 DEF Answered, Calling, RemoteTypeOK
  <2> QED BY <1>6, <1>7, <1>10, <2>1
<1>14. ASSUME Calling(c), GiveUp(c), UNCHANGED <<file, pc, source, history, counters>>
       PROVE  Ledger(x, s)'
  <2>1. /\ pc[c] = "call" /\ pc'[c] = "call" /\ source'[c] = x /\ stack'[c] = Rest(c)
        /\ file' = file /\ printed' = printed /\ kills' = kills /\ done' = done
        /\ stack[c] # << >>
    BY <1>0, <1>5, <1>14 DEF GiveUp, Calling, RemoteTypeOK
  <2> QED BY <1>10, <1>12, <2>1
<1>15. CASE Transient(c)
  <2>1. CASE attempt[c] < Attempts
    <3>1. /\ pc[c] = "call" /\ pc'[c] = "call" /\ source'[c] = x /\ stack' = stack
          /\ file' = file /\ printed' = printed /\ kills' = kills /\ done' = done
      BY <1>5, <1>15, <2>1 DEF Transient, Calling
    <3> QED BY <1>6, <1>7, <1>10, <3>1
  <2>2. CASE ~(attempt[c] < Attempts)
    BY <1>14, <1>15, <2>2 DEF Transient
  <2> QED BY <2>1, <2>2
<1>16. CASE Fails(c)
  BY <1>14, <1>16 DEF Fails
<1>17. CASE TimesOut(c)
  <2>1. CASE Len(Batch(c)) > 1
    <3>1. /\ pc[c] = "call" /\ pc'[c] = "call" /\ source'[c] = x
          /\ stack'[c] = Rest(c) \o Halves(Batch(c)) /\ stack[c] # << >>
          /\ file' = file /\ printed' = printed /\ kills' = kills /\ done' = done
      BY <1>0, <1>5, <1>17, <2>1 DEF TimesOut, Calling, RemoteTypeOK
    <3> QED BY <1>10, <1>12, <2>1, <3>1
  <2>2. CASE ~(Len(Batch(c)) > 1)
    BY <1>14, <1>17, <2>2 DEF TimesOut
  <2> QED BY <2>1, <2>2
<1>18. CASE AuthFails(c)
  <2>1. /\ pc[c] = "call" /\ pc'[c] = "lastsave" /\ source'[c] = x /\ stack'[c] = << >>
        /\ file' = file /\ printed' = printed /\ kills' = kills /\ done' = done
    BY <1>0, <1>5, <1>18 DEF AuthFails, Calling, RemoteTypeOK
  <2>2. << >> \in Seq(Seq(Hashes)) /\ Places(<< >>, s) = {}
    BY DEF Places
  <2>3. Cardinality(Places(<< >>, s)) = 0
    BY <2>2, FS_EmptySet
  <2>4. Cardinality(Places(stack'[c], s)) <= held
    BY <1>7, <2>1, <2>3
  <2> QED BY <1>10, <2>1, <2>2, <2>4
<1>19. CASE Truncate(c)
  <2>1. /\ pc'[c] \in {"write", "lastwrite"} /\ source'[c] = x /\ stack' = stack
        /\ printed' = printed /\ kills' = kills /\ done' = done
    BY <1>0, <1>5, <1>19 DEF Truncate, RemoteTypeOK
  <2>2. ClientLedger(x, s, c)'
    BY <1>7, <2>1 DEF ClientLedger
  <2> QED BY <1>2, <1>8, <2>1, <2>2
<1>20. CASE CannotOpen(c)
  BY <1>0, <1>5, <1>20 DEF CannotOpen, SaveFails, RemoteTypeOK
<1>21. ASSUME pc[c] \in {"write", "lastwrite"},
              \/ file' = Progress(source[c], done[c]) /\ UNCHANGED <<disturbed, faults>>
              \/ SaveFails(c) /\ UNCHANGED file
       PROVE  Loaded(x)' = done[c]
  <2>1. ~SaveFails(c)
    BY <1>0, <1>5 DEF SaveFails, RemoteTypeOK
  <2> QED BY <1>5, <1>21, <2>1 DEF Progress, Loaded
<1>22. CASE Write(c)
  <2>1. /\ pc[c] = "write" /\ pc'[c] = "print" /\ source'[c] = x /\ stack' = stack
        /\ printed' = printed /\ kills' = kills /\ done' = done
    BY <1>0, <1>5, <1>22 DEF Write, RemoteTypeOK
  <2>2. Loaded(x)' = done[c]
    BY <1>21, <1>22, <2>1 DEF Write, Saved
  <2>3. SetOf(Batch(c)) \subseteq done[c] /\ Batch(c)' = Batch(c)
    BY <1>6, <2>1 DEF ClientFits, InHand, Batch
  <2>4. ClientLedger(x, s, c)'
    BY <1>7, <2>1, <2>2, <2>3 DEF ClientLedger
  <2> QED BY <1>2, <1>8, <2>1, <2>4
<1>23. CASE LastWrite(c)
  <2>1. /\ pc[c] = "lastwrite" /\ source'[c] = NoSource /\ printed' = printed
        /\ kills' = kills
    BY <1>0, <1>23 DEF LastWrite, Exit, RemoteTypeOK
  <2>2. Loaded(x)' = done[c]
    BY <1>21, <1>23, <2>1 DEF LastWrite
  <2> QED BY <1>7, <1>9, <2>1, <2>2
<1>24. CASE PrintAnswer(c)
  <2>1. /\ pc[c] = "print" /\ pc'[c] = "call" /\ source'[c] = x /\ stack'[c] = Rest(c)
        /\ file' = file /\ kills' = kills /\ done' = done
        /\ printed'[x][s] = IF s \in SetOf(Batch(c)) THEN printed[x][s] + 1
                            ELSE printed[x][s]
    BY <1>0, <1>5, <1>24 DEF PrintAnswer, RemoteTypeOK
  <2>2. stack[c] # << >> /\ SetOf(Batch(c)) \subseteq done[c]
    BY <1>6, <2>1 DEF ClientFits, InHand, Batch
  <2>3. Loaded(x)' = Loaded(x)
    BY <2>1 DEF Loaded
  <2>4. Cardinality(Places(Rest(c), s)) \in Nat
    BY <1>12, <2>2, PlacesFinite
  <2>5. printed'[x][s] + Cardinality(Places(Rest(c), s)) <= b /\ printed'[x][s] <= b
    <3> HIDE DEF b
    <3>1. CASE s \in SetOf(Batch(c))
      <4>1. Cardinality(Places(Rest(c), s)) + 1 <= held /\ printed'[x][s] = printed[x][s] + 1
        BY <1>12, <2>1, <2>2, <3>1
      <4> HIDE DEF held
      <4> QED BY <1>1, <1>7, <2>4, <4>1
    <3>2. CASE s \notin SetOf(Batch(c))
      <4>1. Cardinality(Places(Rest(c), s)) <= held /\ printed'[x][s] = printed[x][s]
        BY <1>12, <2>1, <2>2, <3>2
      <4> HIDE DEF held
      <4> QED BY <1>1, <1>7, <2>4, <4>1
    <3> QED BY <3>1, <3>2
  <2>6. /\ s \notin done[c] => printed'[x][s] <= a
        /\ s \notin Loaded(x) => printed'[x][s] <= a
    BY <1>7, <2>1, <2>2
  <2>7. ClientLedger(x, s, c)'
    BY <2>1, <2>3, <2>5, <2>6 DEF ClientLedger
  <2> QED BY <1>8, <2>1, <2>5, <2>7
<1>25. CASE Finish(c)
  <2>1. /\ pc[c] = "call" /\ source'[c] = NoSource /\ printed' = printed
        /\ kills' = kills
    BY <1>0, <1>25 DEF Finish, Exit, RemoteTypeOK
  <2>2. CASE failed[c]
    <3>1. Loaded(x)' = Loaded(x)
      BY <1>25, <2>2 DEF Finish, Loaded
    <3> QED BY <1>7, <1>9, <2>1, <3>1
  <2>3. CASE ~failed[c]
    <3>1. outcome'[x] = "ok"
      BY <1>0, <1>5, <1>25, <2>3 DEF Finish, Exit, RemoteTypeOK
    <3> QED BY <1>9, <2>1, <3>1
  <2> QED BY <2>2, <2>3
<1>26. CASE Killed(c)
  <2>1. source'[c] = NoSource /\ printed' = printed /\ kills' = kills + 1
    BY <1>0, <1>26 DEF Killed, Exit, RemoteTypeOK
  <2>2. \A d \in Clients : source'[d] # x
    BY <1>3, <2>1, SourceAssumption
  <2>3. kills' * Times(x, s) = b
    BY <1>0, <2>1 DEF RemoteTypeOK
  <2>4. b <= (1 + kills') * Times(x, s) /\ (1 + kills') * Times(x, s) \in Nat
    <3>1. kills' \in Nat /\ kills <= kills'
      BY <1>0, <2>1 DEF RemoteTypeOK
    <3> QED BY <3>1, Allowance
  <2>5. printed'[x][s] <= kills' * Times(x, s) /\ printed'[x][s] <= (1 + kills') * Times(x, s)
    <3> HIDE DEF b
    <3> QED BY <1>1, <1>2, <2>1, <2>3, <2>4
  <2> QED BY <2>2, <2>5 DEF Ledger
<1>27. ~\E y \in Sources : StartRun(c, y)
  BY <1>6 DEF StartRun
<1> QED
  BY <1>13, <1>15, <1>16, <1>17, <1>18, <1>19, <1>20, <1>22, <1>23, <1>24, <1>25,
     <1>26, <1>27 DEF RemoteStep, ClientStep

----------------------------------------------------------------------------
(* SpansAreAnswered: only a kill loses an answer, and only a batch of them. *)

LEMMA FewMembers ==
    ASSUME NEW q \in Seq(Hashes)
    PROVE  IsFiniteSet(SetOf(q)) /\ Cardinality(SetOf(q)) <= Len(q)
<1>1. DOMAIN q = 1..Len(q) /\ Len(q) \in Nat /\ SetOf(q) = {q[i] : i \in 1..Len(q)}
  BY Members
<1> DEFINE f == [i \in 1..Len(q) |-> q[i]]
<1>2. f \in Surjection(1..Len(q), SetOf(q))
  BY <1>1 DEF Surjection
<1> HIDE DEF f
<1>3. ExistsSurjection(1..Len(q), SetOf(q))
  BY <1>2 DEF ExistsSurjection
<1> QED BY <1>1, <1>3, FS_NatSurjection, FS_SurjCardinalityBound

LEMMA LostFinite ==
    ASSUME NEW x \in Sources
    PROVE  IsFiniteSet(Lost(x)) /\ Cardinality(Lost(x)) \in Nat
<1>1. IsFiniteSet(SetOf(SpansOf[x]))
  BY SourceAssumption, FewMembers
<1>2. Lost(x) \in SUBSET SetOf(SpansOf[x])
  BY DEF Lost
<1>3. IsFiniteSet(Lost(x))
  BY <1>1, <1>2, FS_Subset
<1> QED BY <1>3, FS_CardinalityType

\* An answer in hand stays in hand until it is printed, or its client killed.
LEMMA HandStep ==
    ASSUME RemoteTyped, NEW c \in Clients, RemoteStep(c),
           NEW x \in Sources, NEW s \in Hashes, IsInHand(x, s)
    PROVE  \/ IsInHand(x, s)'
           \/ printed'[x][s] > 0
           \/ Killed(c) /\ pc[c] \in InHand /\ s \in SetOf(Batch(c))
<1> USE DEF Goto, At, memory, history, counters
<1>0. RemoteTypeOK
  BY DEF RemoteTyped
<1>1. PICK d \in Clients : source[d] = x /\ pc[d] \in InHand /\ s \in SetOf(Batch(d))
  BY DEF IsInHand
<1>2. CASE d # c
  <2>1. /\ source'[d] = source[d] /\ pc'[d] = pc[d] /\ stack'[d] = stack[d]
    BY <1>0, <1>2, OthersWait
  <2> QED BY <1>1, <2>1 DEF IsInHand, Batch
<1>3. CASE d = c
  <2>1. pc[c] \in InHand /\ source[c] = x /\ s \in SetOf(Batch(c))
    BY <1>1, <1>3
  <2>2. ~(\E y \in Sources : StartRun(c, y)) /\ ~Answered(c) /\ ~Transient(c) /\ ~Fails(c)
        /\ ~TimesOut(c) /\ ~AuthFails(c) /\ ~LastWrite(c) /\ ~Finish(c)
    BY <2>1 DEF StartRun, Answered, Transient, Fails, TimesOut, AuthFails, Calling,
                LastWrite, Finish, InHand
  <2>3. CASE Truncate(c) \/ CannotOpen(c) \/ Write(c)
    <3>1. pc'[c] \in InHand
      BY <1>0, <2>1, <2>3 DEF Truncate, CannotOpen, Write, InHand, RemoteTypeOK
    <3>2. source' = source /\ stack' = stack
      BY <2>1, <2>3 DEF Truncate, CannotOpen, Write, InHand
    <3> QED BY <2>1, <3>1, <3>2 DEF IsInHand, Batch
  <2>4. CASE PrintAnswer(c)
    BY <1>0, <2>1, <2>4 DEF PrintAnswer, RemoteTypeOK
  <2>5. CASE Killed(c)
    BY <2>1, <2>5
  <2> QED BY <2>2, <2>3, <2>4, <2>5 DEF RemoteStep, ClientStep
<1> QED BY <1>2, <1>3

\* What is noted is noted of an answer that is in hand.
LEMMA NotedStep ==
    ASSUME RemoteTyped, Emptied, NEW c \in Clients, RemoteStep(c),
           NEW x \in Sources, NEW s \in SetOf(SpansOf[x]), IsNoted(x, s)'
    PROVE  IsNoted(x, s) \/ IsInHand(x, s)'
<1> USE DEF Goto, At, memory, history, counters
<1>0. RemoteTypeOK /\ \A d \in Clients : d # c => source'[d] = source[d] /\ done'[d] = done[d]
  BY OthersWait DEF RemoteTyped
<1>1. CASE s \in Loaded(x)'
  <2>1. CASE file' = file
    BY <1>1, <2>1 DEF IsNoted, Loaded
  <2>2. CASE Removes(c)
    BY <1>1, <2>2, SourceAssumption DEF Removes, Loaded, NoProgress, Progress
  <2>3. CASE file' = Saved(c)
    BY <1>1, <2>3 DEF Saved, Progress, Loaded, IsNoted
  <2> QED BY <2>1, <2>2, <2>3, FileStep
<1>2. CASE outcome'[x] = "ok"
  <2>1. CASE outcome[x] = "ok"
    BY <2>1 DEF IsNoted
  <2>2. CASE outcome[x] # "ok"
    <3>1. Finish(c) /\ source[c] = x /\ ~failed[c]
      <4>1. CASE \E y \in Sources : StartRun(c, y)
        BY <1>2, <2>2, <4>1 DEF StartRun
      <4>2. CASE Answered(c) \/ Transient(c) \/ Fails(c) \/ TimesOut(c) \/ AuthFails(c)
                 \/ Truncate(c) \/ Write(c) \/ PrintAnswer(c)
        BY <1>2, <2>2, <4>2 DEF Answered, Transient, Fails, TimesOut, AuthFails,
                                Truncate, Write, PrintAnswer
      <4>3. CASE CannotOpen(c) \/ LastWrite(c) \/ Killed(c)
        BY <1>0, <1>2, <2>2, <4>3 DEF CannotOpen, LastWrite, Killed, Exit, RemoteTypeOK
      <4>4. CASE Finish(c)
        BY <1>0, <1>2, <2>2, <4>4 DEF Finish, Exit, RemoteTypeOK
      <4> QED BY <4>1, <4>2, <4>3, <4>4 DEF RemoteStep, ClientStep
    <3>2. pc[c] = "call" /\ stack[c] = << >> /\ failed[c] = FALSE
      BY <1>0, <3>1 DEF Finish, RemoteTypeOK
    <3>3. ClientFits("call", x, << >>, done[c], FALSE)
      BY <3>1, <3>2, Working
    <3>4. s \in done[c]
      BY <3>2, <3>3 DEF ClientFits
    <3> QED BY <3>1, <3>4 DEF IsNoted
  <2> QED BY <2>1, <2>2
<1>3. ASSUME NEW d \in Clients, source'[d] = x, s \in done'[d]
      PROVE  IsNoted(x, s) \/ IsInHand(x, s)'
  <2>1. CASE d # c
    BY <1>0, <1>3, <2>1 DEF IsNoted
  <2>2. CASE d = c
    <3>1. CASE \E y \in Sources : StartRun(c, y)
      <4>1. StartRun(c, x) /\ done'[c] = Loaded(x)
        BY <1>0, <1>3, <2>2, <3>1 DEF StartRun, RemoteTypeOK
      <4> QED BY <1>3, <2>2, <4>1 DEF IsNoted
    <3>2. CASE Answered(c)
      <4>1. pc'[c] = "save" /\ source' = source /\ stack' = stack
            /\ done'[c] = done[c] \cup SetOf(Batch(c))
        BY <1>0, <3>2 DEF Answered, RemoteTypeOK
      <4>2. CASE s \in done[c]
        BY <1>3, <2>2, <4>1, <4>2 DEF IsNoted
      <4>3. CASE s \in SetOf(Batch(c))
        <5>1. Batch(c)' = Batch(c)
          BY <4>1 DEF Batch
        <5> QED BY <1>3, <2>2, <4>1, <4>3, <5>1 DEF IsInHand, InHand
      <4> QED BY <1>3, <2>2, <4>1, <4>2, <4>3
    <3>3. CASE Transient(c) \/ Fails(c) \/ TimesOut(c) \/ AuthFails(c)
               \/ Truncate(c) \/ Write(c) \/ PrintAnswer(c)
      <4>1. source' = source /\ done' = done
        BY <3>3 DEF Transient, Fails, TimesOut, AuthFails, Truncate, Write, PrintAnswer, GiveUp
      <4> QED BY <1>3, <4>1 DEF IsNoted
    <3>4. CASE CannotOpen(c) \/ LastWrite(c) \/ Killed(c) \/ Finish(c)
      <4>1. \/ source'[c] = source[c] /\ done'[c] = done[c]
            \/ done'[c] = {}
        BY <1>0, <3>4 DEF CannotOpen, LastWrite, Killed, Finish, Exit, RemoteTypeOK
      <4> QED BY <1>3, <2>2, <4>1 DEF IsNoted
    <3> QED BY <3>1, <3>2, <3>3, <3>4 DEF RemoteStep, ClientStep
  <2> QED BY <2>1, <2>2
<1> QED BY <1>1, <1>2, <1>3 DEF IsNoted

LEMMA PrintedGrows ==
    ASSUME RemoteTyped, NEW c \in Clients, RemoteStep(c), NEW x \in Sources, NEW s \in Hashes
    PROVE  printed[x][s] \in Nat /\ printed'[x][s] \in Nat /\ printed[x][s] <= printed'[x][s]
<1>0. RemoteTypeOK /\ RemoteTypeOK'
  BY RemoteTypedStep DEF RemoteTyped
<1>1. printed[x][s] \in Nat /\ printed'[x][s] \in Nat
  BY <1>0 DEF RemoteTypeOK
<1>2. CASE PrintAnswer(c)
  BY <1>0, <1>1, <1>2 DEF PrintAnswer, RemoteTypeOK
<1>3. CASE ~PrintAnswer(c)
  <2>1. printed' = printed
    BY <1>3 DEF RemoteStep, ClientStep, StartRun, Answered, Transient, Fails, TimesOut,
                AuthFails, Truncate, CannotOpen, Write, LastWrite, Finish, Killed, history
  <2> QED BY <1>1, <2>1
<1> QED BY <1>2, <1>3

LEMMA FewLostStep ==
    ASSUME RemoteTyped, Emptied, FewLost, NEW c \in Clients, RemoteStep(c)
    PROVE  FewLost'
<1>0. RemoteTypeOK
  BY DEF RemoteTyped
<1> SUFFICES ASSUME NEW x \in Sources
             PROVE  Cardinality(Lost(x)') <= BatchSize * kills'
  BY DEF FewLost
<1> DEFINE gone == IF Killed(c) /\ pc[c] \in InHand THEN SetOf(Batch(c)) ELSE {}
<1>1. Lost(x)' \subseteq Lost(x) \cup gone
  <2> SUFFICES ASSUME NEW s \in Lost(x)', s \notin gone PROVE s \in Lost(x)
    OBVIOUS
  <2>1. s \in SetOf(SpansOf[x]) /\ IsNoted(x, s)' /\ printed'[x][s] = 0 /\ ~IsInHand(x, s)'
    BY DEF Lost
  <2>2. s \in Hashes
    BY <2>1, SourceAssumption, Members
  <2>3. printed[x][s] = 0
    BY <2>1, <2>2, PrintedGrows
  <2>4. IsNoted(x, s)
    BY <2>1, NotedStep
  <2>5. ~IsInHand(x, s)
    BY <2>1, <2>2, HandStep
  <2> QED BY <2>1, <2>3, <2>4, <2>5 DEF Lost
<1>2. IsFiniteSet(Lost(x)) /\ Cardinality(Lost(x)) \in Nat
      /\ Cardinality(Lost(x)) <= BatchSize * kills
  BY LostFinite DEF FewLost
<1>3. BatchSize \in Nat /\ kills \in Nat /\ BatchSize * kills \in Nat
      /\ BatchSize * (kills + 1) = BatchSize * kills + BatchSize
  BY <1>0, RemoteBoundAssumption DEF RemoteTypeOK
<1>4. CASE Killed(c)
  <2>1. kills' = kills + 1
    BY <1>4 DEF Killed
  <2>2. IsFiniteSet(gone) /\ Cardinality(gone) \in Nat /\ Cardinality(gone) <= BatchSize
    <3>1. CASE pc[c] \in InHand
      <4>1. /\ pc[c] # "idle" /\ stack[c] # << >>
        BY <3>1 DEF InHand, RemoteTyped, Clear, ClientOK, ClientFits
      <4>2. Batch(c) \in Seq(Hashes) /\ Len(Batch(c)) \in 1..BatchSize
        BY <4>1, Working DEF ClientFits, Batch
      <4>3. IsFiniteSet(SetOf(Batch(c))) /\ Cardinality(SetOf(Batch(c))) <= Len(Batch(c))
        BY <4>2, FewMembers
      <4>4. Cardinality(SetOf(Batch(c))) \in Nat
        BY <4>3, FS_CardinalityType
      <4>5. gone = SetOf(Batch(c))
        BY <1>4, <3>1
      <4> HIDE DEF gone
      <4> QED BY <1>3, <4>2, <4>3, <4>4, <4>5
    <3>2. CASE pc[c] \notin InHand
      <4>1. gone = {}
        BY <3>2
      <4> HIDE DEF gone
      <4> QED BY <1>3, <4>1, FS_EmptySet
    <3> QED BY <3>1, <3>2
  <2> HIDE DEF gone
  <2>3. /\ IsFiniteSet(Lost(x) \cup gone)
        /\ Cardinality(Lost(x) \cup gone)
              = Cardinality(Lost(x)) + Cardinality(gone) - Cardinality(Lost(x) \cap gone)
    BY <1>2, <2>2, FS_Union
  <2>4. Cardinality(Lost(x) \cap gone) \in Nat
    BY <1>2, FS_Intersection, FS_CardinalityType
  <2>5. Cardinality(Lost(x)') <= Cardinality(Lost(x) \cup gone) /\ IsFiniteSet(Lost(x)')
    BY <1>1, <2>3, FS_Subset
  <2>6. Cardinality(Lost(x)') \in Nat
    BY <2>5, FS_CardinalityType
  <2> QED BY <1>2, <1>3, <2>1, <2>2, <2>3, <2>4, <2>5, <2>6
<1>5. CASE ~Killed(c)
  <2>1. kills' = kills
    BY <1>5 DEF RemoteStep, ClientStep, StartRun, Answered, Transient, Fails, TimesOut,
                AuthFails, Truncate, CannotOpen, Write, LastWrite, Finish, PrintAnswer, counters
  <2>2. Lost(x)' \subseteq Lost(x)
    BY <1>1, <1>5
  <2>3. Cardinality(Lost(x)') <= Cardinality(Lost(x)) /\ IsFiniteSet(Lost(x)')
    BY <1>2, <2>2, FS_Subset
  <2>4. Cardinality(Lost(x)') \in Nat
    BY <2>3, FS_CardinalityType
  <2> QED BY <1>2, <1>3, <2>1, <2>3, <2>4
<1> QED BY <1>4, <1>5

LEMMA LedgersStep ==
    ASSUME RemoteTyped, Alone, Emptied, Ledgers, NEW c \in Clients, RemoteStep(c)
    PROVE  Ledgers'
<1> SUFFICES ASSUME NEW x \in Sources, ~disturbed'[x], NEW s \in SetOf(SpansOf[x])
             PROVE  Ledger(x, s)'
  BY DEF Ledgers
<1>1. ~disturbed[x]
  <2>1. CASE \E y \in Sources : StartRun(c, y)
    BY <2>1 DEF StartRun
  <2> QED BY <2>1, RunningStep DEF RemoteStep
<1>2. s \in Hashes
  BY SourceAssumption, Members
<1>3. Ledger(x, s)
  BY <1>1 DEF Ledgers
<1>4. CASE source[c] = x \/ StartRun(c, x)
  BY <1>1, <1>2, <1>3, <1>4, OwnLedger
<1>5. CASE ~(source[c] = x \/ StartRun(c, x))
  BY <1>1, <1>2, <1>3, <1>5, OtherLedger
<1> QED BY <1>4, <1>5

----------------------------------------------------------------------------
(* The theorems about remote ingest.                                       *)

RemoteIInv == RemoteTyped /\ Alone /\ Emptied /\ FewLost /\ Ledgers

LEMMA RemoteInvInit == RemoteInit => RemoteIInv
<1> SUFFICES ASSUME RemoteInit PROVE RemoteIInv
  OBVIOUS
<1>1. RemoteTyped
  BY RemoteTypedInit
<1>2. Alone /\ Emptied
  BY DEF RemoteInit, Alone, Emptied
<1>3. FewLost
  <2> SUFFICES ASSUME NEW x \in Sources PROVE Cardinality(Lost(x)) <= BatchSize * kills
    BY DEF FewLost
  <2>1. Lost(x) = {}
    BY SourceAssumption
       DEF RemoteInit, Lost, IsNoted, Loaded, NoProgress, Progress
  <2>2. BatchSize * kills = 0 /\ kills = 0
    BY RemoteBoundAssumption DEF RemoteInit
  <2> QED BY <2>1, <2>2, FS_EmptySet
<1>4. Ledgers
  <2> SUFFICES ASSUME NEW x \in Sources, NEW s \in SetOf(SpansOf[x]) PROVE Ledger(x, s)
    BY DEF Ledgers
  <2>1. s \in Hashes
    BY SourceAssumption, Members
  <2>2. printed[x][s] = 0
    BY <2>1 DEF RemoteInit
  <2>3. kills * Times(x, s) \in Nat /\ (1 + kills) * Times(x, s) \in Nat
    BY <1>1, Allowance
  <2>4. \A c \in Clients : source[c] # x
    BY SourceAssumption DEF RemoteInit
  <2> QED BY <2>2, <2>3, <2>4 DEF Ledger
<1> QED BY <1>1, <1>2, <1>3, <1>4 DEF RemoteIInv

LEMMA RemoteInvStep == RemoteIInv /\ [RemoteNext]_remoteVars => RemoteIInv'
<1> SUFFICES ASSUME RemoteIInv, [RemoteNext]_remoteVars PROVE RemoteIInv'
  OBVIOUS
<1>1. ASSUME NEW c \in Clients, RemoteStep(c) PROVE RemoteIInv'
  BY <1>1, RemoteTypedStep, AloneStep, EmptiedStep, FewLostStep, LedgersStep DEF RemoteIInv
<1>2. CASE UNCHANGED remoteVars
  <2> USE <1>2 DEF remoteVars, memory, history, counters
  <2>1. RemoteTyped'
    BY DEF RemoteIInv, RemoteTyped, RemoteTypeOK, FileOK, Clear, ClientOK
  <2>2. Alone' /\ Emptied'
    BY DEF RemoteIInv, Alone, Emptied, Running
  <2>3. FewLost'
    BY DEF RemoteIInv, FewLost, Lost, IsNoted, IsInHand, Loaded, Batch
  <2>4. Ledgers'
    BY DEF RemoteIInv, Ledgers, Ledger, ClientLedger, Loaded, Batch
  <2> QED BY <2>1, <2>2, <2>3, <2>4 DEF RemoteIInv
<1> QED BY <1>1, <1>2 DEF RemoteNext, RemoteStep

\* The invariant of remote ingest (cli.py, _ingest_remote).
THEOREM RemoteInvariant == RemoteSpec => []RemoteIInv
  BY RemoteInvInit, RemoteInvStep, PTL DEF RemoteSpec

\* Every variable of remote ingest has its type, for any clients and sources.
THEOREM RemoteTypes == RemoteSpec => []RemoteTypeOK
<1>1. RemoteIInv => RemoteTypeOK
  BY DEF RemoteIInv, RemoteTyped
<1> QED BY <1>1, RemoteInvariant, PTL

\* A run that ends well has printed the answer of every span of its source, but
\* for a batch per killed client, however calls failed, timed out and were split
\* and whatever other clients did to the file (cli.py, _ingest_remote).
THEOREM SpansAreAnsweredAlways == RemoteSpec => []SpansAreAnswered
<1>1. RemoteIInv => SpansAreAnswered
  <2> SUFFICES ASSUME RemoteIInv, NEW x \in Sources, Running = {}, outcome[x] = "ok"
               PROVE  Cardinality({s \in SetOf(SpansOf[x]) : printed[x][s] = 0})
                         <= BatchSize * kills
    BY DEF SpansAreAnswered
  <2>1. \A c \in Clients : pc[c] = "idle"
    BY DEF Running
  <2>2. \A s \in SetOf(SpansOf[x]) : IsNoted(x, s) /\ ~IsInHand(x, s)
    BY <2>1 DEF IsNoted, IsInHand, InHand
  <2>3. {s \in SetOf(SpansOf[x]) : printed[x][s] = 0} = Lost(x)
    BY <2>2 DEF Lost
  <2> QED BY <2>3 DEF RemoteIInv, FewLost
<1> QED BY <1>1, RemoteInvariant, PTL

\* A run that resumes prints no answer again but for one round per killed client,
\* unless another client or a failed write disturbed it (_save_ingest_state).
THEOREM ResumeRepeatsNothingAlways == RemoteSpec => []ResumeRepeatsNothing
<1>1. RemoteIInv => ResumeRepeatsNothing
  BY DEF RemoteIInv, Ledgers, Ledger, Times, ResumeRepeatsNothing
<1> QED BY <1>1, RemoteInvariant, PTL
=============================================================================
