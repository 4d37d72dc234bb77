------------------------------ MODULE RuleIngest ------------------------------
(***************************************************************************)
(* Rules out of a code base (cli.py, ingest/rulesift.py,                   *)
(* ingest/adjudicate.py).                                                  *)
(*                                                                         *)
(* ingest bands the rule-like spans of a source against the rules there    *)
(* are and prints what is not known yet.  An agent judges it, and the file *)
(* of its verdicts is applied by apply-rules, any number of times and by   *)
(* several processes at once; ingest --auto lets a model judge, applies    *)
(* what the model is sure of and puts the rest in a file for apply-rules.  *)
(* The spans reach the sieve in one call here; how ingest --remote gets    *)
(* them there is RemoteIngest's subject.                                   *)
(***************************************************************************)
EXTENDS Integers, FiniteSets, Sequences

CONSTANTS
    Texts,       \* texts of spans and rules
    SpanTexts,   \* the spans of the source, in order: a sequence of texts
    Stored,      \* the rules there are at first: a sequence of texts
    RuleLike,    \* texts with a normative marker and enough words
    Novelty,     \* how near a text is to a rule: 0 NOVEL, 1 REFINE, 2 KNOWN
    Appliers,    \* processes that write verdicts: apply-rules, ingest --auto
    Backends,
    MaxFiles,    \* bound: files of verdicts
    MaxRuns,     \* bound: runs of appliers
    MaxRules,    \* bound: rules ever inserted
    MaxCrashes   \* bound: processes killed

Spans == DOMAIN SpanTexts

ASSUME SpanAssumption ==
    /\ SpanTexts \in Seq(Texts) /\ Stored \in Seq(Texts)
    /\ Novelty \in [Texts \X Texts -> 0..2]
    /\ RuleLike \subseteq Texts
ASSUME IngestBoundAssumption ==
    /\ {MaxFiles, MaxRuns, MaxRules, MaxCrashes} \subseteq Nat
    /\ Len(Stored) <= MaxRules
    /\ Backends \subseteq {"sqlite", "postgres"}

VARIABLES
    backend,
    rules,      \* table rules, by id, with the count of its events
    files,      \* files of verdicts: sequences
    apc,        \* per applier: its step
    verdicts,   \* per applier: verdicts still to commit
    queue,      \* per applier: verdicts it will put in a file at its end
    report,     \* per applier: the counts it will print
    \* History.
    made,       \* per applier: rules it really committed
    crossed,    \* two appliers were about to write at once
    runs, crashes

spent == <<runs, crashes>>
vars == <<backend, rules, files, apc, verdicts, queue, report, made, crossed,
          spent>>

Candidate == [span : Spans, band : {"refine", "novel"}, rule : 0..MaxRules]
Verdict == [action : {"add", "refine", "reinforce"}, text : Texts,
            rule : 0..MaxRules]
Rule == [text : Texts, status : {"active", "superseded"}, by : 0..MaxRules,
         how : {"stored", "add", "refine"}, count : Nat, events : Nat]
Report == [created : Nat, reinforced : Nat, duplicate : Nat, errors : Nat]
NoReport == [created |-> 0, reinforced |-> 0, duplicate |-> 0, errors |-> 0]

NewRule(text, how) ==
    [text |-> text, status |-> "active", by |-> 0, how |-> how, count |-> 0,
     events |-> 0]

Init ==
    /\ backend \in Backends
    /\ rules = [i \in DOMAIN Stored |-> NewRule(Stored[i], "stored")]
    /\ files = {}
    /\ apc = [a \in Appliers |-> "idle"]
    /\ verdicts = [a \in Appliers |-> << >>]
    /\ queue = [a \in Appliers |-> << >>]
    /\ report = [a \in Appliers |-> NoReport]
    /\ made = [a \in Appliers |-> 0] /\ crossed = FALSE
    /\ runs = 0 /\ crashes = 0

----------------------------------------------------------------------------
(* The sieve.                                                              *)

\* load_existing_rules
Existing == {i \in DOMAIN rules : rules[i].status # "superseded"}

\* classify_novelty: the first of the nearest rules.
Nearest(text) ==
    CHOOSE i \in Existing : \A j \in Existing :
        \/ Novelty[text, rules[j].text] < Novelty[text, rules[i].text]
        \/ Novelty[text, rules[j].text] = Novelty[text, rules[i].text] /\ i <= j
Nearness(text) ==
    IF Existing = {} THEN 0 ELSE Novelty[text, rules[Nearest(text)].text]

\* A NOVEL or REFINE span, the latter with the rule to compare.
CandidateOf(s) ==
    IF Nearness(SpanTexts[s]) = 1
    THEN [span |-> s, band |-> "refine", rule |-> Nearest(SpanTexts[s])]
    ELSE [span |-> s, band |-> "novel", rule |-> 0]

\* sift_groups: what reads like a rule and is not KNOWN, of equal spans the
\* first.  (The loose gate of --remote-loose never leads to verdicts.)
Candidates ==
    {CandidateOf(s) : s \in {t \in Spans :
        /\ SpanTexts[t] \in RuleLike
        /\ Nearness(SpanTexts[t]) < 2
        /\ \A u \in Spans : SpanTexts[u] = SpanTexts[t] => t <= u}}

----------------------------------------------------------------------------
(* Verdicts.                                                               *)

\* What can be decided of a candidate; REJECT leaves no trace.
VerdictsOn(c) ==
    {[action |-> act, text |-> SpanTexts[c.span], rule |-> c.rule] :
        act \in IF c.band = "novel" THEN {"add"} ELSE {"refine", "reinforce"}}

\* One verdict per candidate, in the order of the spans.
Judgements(candidates) ==
    LET order == SelectSeq([s \in Spans |-> s],
                           LAMBDA s : \E c \in candidates : c.span = s)
        of(s) == {c \in candidates : c.span = s}
    IN  {f \in [DOMAIN order -> UNION {VerdictsOn(c) : c \in candidates}] :
            \A i \in DOMAIN order : \E c \in of(order[i]) : f[i] \in VerdictsOn(c)}

\* ingest, and the agent's judgement of what it prints.
AgentJudges ==
    /\ Cardinality(files) < MaxFiles
    /\ \E f \in Judgements(Candidates) : f # << >> /\ files' = files \cup {f}
    /\ UNCHANGED <<backend, rules, apc, verdicts, queue, report, made, crossed,
                   spent>>

Step(a, label) == apc' = [apc EXCEPT ![a] = label]

Begin(a, now, later) ==
    /\ apc[a] = "idle" /\ runs < MaxRuns
    /\ runs' = runs + 1
    /\ verdicts' = [verdicts EXCEPT ![a] = now]
    /\ queue' = [queue EXCEPT ![a] = later]
    /\ Step(a, "next")
    /\ UNCHANGED <<backend, rules, files, report, made, crossed, crashes>>

\* apply-rules of a file, which stays: it may be applied again.
ApplyRules(a) == \E f \in files : Begin(a, f, << >>)

\* ingest --auto sifts, has the model judge and parts the verdicts by its
\* confidence and by injection markers.
IngestAuto(a) ==
    \E all \in Judgements(Candidates) :
        \E sure \in SUBSET {all[i] : i \in DOMAIN all} :
            Begin(a, SelectSeq(all, LAMBDA v : v \in sure),
                     SelectSeq(all, LAMBDA v : v \notin sure))

Current(a) == Head(verdicts[a])
Count(a, r) == report' = [report EXCEPT ![a] = r]
Drop(a) == verdicts' = [verdicts EXCEPT ![a] = Tail(@)] /\ Step(a, "next")

\* Mutant: the guard looks for the title, and equal texts have other titles.
IsDuplicateTitle(v) == FALSE

\* find_rule_by_content_hash: an active rule of this very content.
IsDuplicate(v) ==
    /\ v.action = "add"
    /\ \E i \in DOMAIN rules : rules[i].status = "active" /\ rules[i].text = v.text

\* The reads of a verdict's transaction.
Look(a) ==
    /\ apc[a] = "next" /\ verdicts[a] # << >>
    /\ IF IsDuplicate(Current(a))
       THEN Drop(a) /\ Count(a, [report[a] EXCEPT !.duplicate = @ + 1])
            /\ UNCHANGED crossed
       ELSE /\ Step(a, "write")
            /\ crossed' = (crossed \/ \E b \in Appliers \ {a} : apc[b] = "write")
            /\ UNCHANGED <<verdicts, report>>
    /\ UNCHANGED <<backend, rules, files, queue, made, spent>>

\* The new rule, and with it the supersession of the one it refines,
\* whatever has become of that one meanwhile.
Insert(a) ==
    LET v == Current(a)
        id == Len(rules) + 1
        demoted == IF v.action = "refine"
                   THEN [rules EXCEPT ![v.rule].status = "superseded",
                                      ![v.rule].by = id]
                   ELSE rules
    IN
    /\ apc[a] = "write" /\ v.action \in {"add", "refine"}
    /\ Len(rules) < MaxRules
    /\ rules' = Append(demoted, NewRule(v.text, v.action))
    /\ made' = [made EXCEPT ![a] = @ + 1]
    /\ Count(a, [report[a] EXCEPT !.created = @ + 1])
    /\ Drop(a)
    /\ UNCHANGED <<backend, files, queue, crossed, spent>>

\* On Postgres the counter commits by itself, before the event.
Reinforce(a) ==
    LET v == Current(a) IN
    /\ apc[a] = "write" /\ v.action = "reinforce"
    /\ IF backend = "postgres"
       THEN /\ rules' = [rules EXCEPT ![v.rule].count = @ + 1]
            /\ Step(a, "event")
            /\ UNCHANGED <<verdicts, report>>
       ELSE /\ rules' = [rules EXCEPT ![v.rule].count = @ + 1,
                                      ![v.rule].events = @ + 1]
            /\ Count(a, [report[a] EXCEPT !.reinforced = @ + 1])
            /\ Drop(a)
    /\ UNCHANGED <<backend, files, queue, made, crossed, spent>>

Event(a) ==
    /\ apc[a] = "event"
    /\ rules' = [rules EXCEPT ![Current(a).rule].events = @ + 1]
    /\ Count(a, [report[a] EXCEPT !.reinforced = @ + 1])
    /\ Drop(a)
    /\ UNCHANGED <<backend, files, queue, made, crossed, spent>>

\* Mutant: an error is dropped without being counted.
FailuresUncounted(r, v) ==
    {r, IF v.action = "reinforce" THEN [r EXCEPT !.reinforced = @ + 1]
        ELSE [r EXCEPT !.created = @ + 1]}

\* The counts of a verdict that failed: it is an error, and if it was the
\* commit that failed it has been counted as applied before.
Failures(r, v) ==
    {[r EXCEPT !.errors = @ + 1],
     IF v.action = "reinforce"
     THEN [r EXCEPT !.errors = @ + 1, !.reinforced = @ + 1]
     ELSE [r EXCEPT !.errors = @ + 1, !.created = @ + 1]}

\* A statement or the commit raises: rolled back, counted, next verdict.
VerdictFails(a) ==
    /\ apc[a] \in {"write", "event"}
    /\ \E r \in Failures(report[a], Current(a)) : Count(a, r)
    /\ Drop(a)
    /\ UNCHANGED <<backend, rules, files, queue, made, crossed, spent>>

\* The process prints its report and is gone.
Ends(a) ==
    /\ Step(a, "idle")
    /\ verdicts' = [verdicts EXCEPT ![a] = << >>]
    /\ queue' = [queue EXCEPT ![a] = << >>]
    /\ Count(a, NoReport)
    /\ made' = [made EXCEPT ![a] = 0]

\* What the model was not sure of is appended to the review queue.
QueueForReview(a) ==
    /\ apc[a] = "next" /\ verdicts[a] = << >>
    /\ files' = IF queue[a] = << >> THEN files ELSE files \cup {queue[a]}
    /\ Ends(a)
    /\ UNCHANGED <<backend, rules, crossed, spent>>

ApplierKilled(a) ==
    /\ apc[a] # "idle" /\ crashes < MaxCrashes
    /\ crashes' = crashes + 1
    /\ Ends(a)
    /\ UNCHANGED <<backend, rules, files, crossed, runs>>

Commit(a) ==
    \/ Look(a) \/ Insert(a) \/ Reinforce(a) \/ Event(a) \/ VerdictFails(a)
    \/ QueueForReview(a)

Next ==
    \/ AgentJudges
    \/ \E a \in Appliers :
          ApplyRules(a) \/ IngestAuto(a) \/ Commit(a) \/ ApplierKilled(a)

Spec == Init /\ [][Next]_vars

----------------------------------------------------------------------------
(* Properties.                                                             *)

TypeOK ==
    /\ backend \in Backends
    /\ rules \in Seq(Rule) /\ Len(rules) <= MaxRules
    /\ files \subseteq Seq(Verdict)
    /\ apc \in [Appliers -> {"idle", "next", "write", "event"}]
    /\ verdicts \in [Appliers -> Seq(Verdict)]
    /\ queue \in [Appliers -> Seq(Verdict)]
    /\ report \in [Appliers -> Report] /\ made \in [Appliers -> Nat]
    /\ crossed \in BOOLEAN

\* Applying verdicts again adds no rule again: an added rule never has the
\* content of an older active rule, whatever was applied before or was
\* interrupted, unless two processes were about to write at once.  ("This is
\* what makes ingest->commit->ingest idempotent", adjudicate.py.)
AddsAreIdempotent ==
    ~crossed => \A i, j \in DOMAIN rules :
        /\ i < j /\ rules[j].how = "add" /\ rules[i].text = rules[j].text
        => rules[i].status # "active"

\* What a process reports is what it did: it never creates more rules than it
\* says, and says so of one it did not create only together with an error.
ReportIsHonest ==
    \A a \in Appliers :
        /\ made[a] <= report[a].created
        /\ report[a].created <= made[a] + report[a].errors
=============================================================================
