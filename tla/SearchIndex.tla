----------------------------- MODULE SearchIndex -----------------------------
(***************************************************************************)
(* The search tool of several processes over one store                     *)
(* (tools/search.py).  A search runs its scopes one after the other.  Each *)
(* asks the backend for three times as many hits as it may show, drops the *)
(* hits whose stored row is gone, hidden or foreign, ranks the rest by the *)
(* composite of scoring.py, counts a hit for each row it shows and, for    *)
(* rules, appends the rules linked to those.  The SQL backends match the   *)
(* stored rows; the OpenSearch backend first copies every row into its own *)
(* index, beside the copies of other processes.  Rows are written meanwhile. *)
(***************************************************************************)
EXTENDS Integers, FiniteSets, SequencesExt

CONSTANTS
    Pods,         \* the processes that search
    KindOf,       \* the kind of each id: a sequence over Kinds
    Traits,       \* per id: what ranks it and never changes here
    Stored,       \* the rows there are at first
    StoredLinks,  \* and the relations between them
    Backends,     \* which backends the deployment may have
    Requests,     \* the searches clients ask for
    Actors,       \* who reports outcomes
    Weight,       \* the trust in each of them (MCM_TRUST_WEIGHTS)
    Limit,
    WriteTexts,   \* bound: the texts rows are written with
    MaxWrites,    \* bound: writes beside the searches
    MaxSearches   \* bound: searches

Items == DOMAIN KindOf
Kinds == Range(KindOf)
ItemsOf(k) == {i \in Items : KindOf[i] = k}

\* How a row's text meets the query: 0 not at all, 1 as a substring only,
\* 2 some of its terms, 3 all terms, 4 all terms in the title.
Texts == 0..4
Status == {"active", "archived", "superseded", "recalled"}
\* A row, or the place of one that is not stored (yet, or any more).  net is
\* what its outcome ledger comes to: the ledger only grows.
Row == [text : Texts, status : Status \cup {"unborn", "deleted"}, net : Int]
NewRow(t) == [text |-> t, status |-> "active", net |-> 0]
Unborn == [NewRow(0) EXCEPT !.status = "unborn"]
Deleted == [NewRow(0) EXCEPT !.status = "deleted"]
IsRow(row) == row.status \in Status

ASSUME TraitAssumption ==
    /\ KindOf \in Seq({"knowledge", "negative", "rule"})
    /\ \A i \in Items :
          /\ Traits[i].project \in {"", "here", "there"}
          /\ Traits[i].hits \in Nat /\ Traits[i].reinforced \in Nat
          /\ Traits[i].importance \in 0..2
          /\ {Traits[i].pinned, Traits[i].universal, Traits[i].fresh,
              Traits[i].expired} \subseteq BOOLEAN
    /\ Weight \in [Actors -> Nat]
ASSUME StoredRowsAssumption ==
    /\ \A i \in Items : Stored[i] \in Row
    /\ StoredLinks \subseteq ItemsOf("rule") \X ItemsOf("rule")
ASSUME RequestAssumption ==
    /\ Backends \subseteq {"strict", "natural", "index"}
    /\ Requests # {}
    /\ \A r \in Requests :
          /\ r.scopes \in Seq(Kinds) \ {<< >>}
          /\ r.archived \in BOOLEAN /\ r.gated \in BOOLEAN
ASSUME SearchBoundAssumption ==
    WriteTexts \subseteq Texts /\ Limit \in Nat \ {0} /\ MaxWrites \in Nat /\ MaxSearches \in Nat

VARIABLES
    backend,   \* "strict" and "natural" (Postgres; SQLite is natural), "index"
    rows,      \* the stored rows
    links,     \* relations between rules
    hits,      \* hit_count of each row
    docs,      \* the OpenSearch documents: a text, or none
    exists,    \* the kinds whose OpenSearch index has been created
    pc, req,   \* per process: its step, the request
    scopes,    \* kinds still to search; the first is in hand
    todo,      \* kinds still to copy into the index
    copying,   \* the kind being copied
    batch,     \* the rows read for it
    found,     \* hits still to look up
    scored,    \* the hits that remain, with relevance and composite
    top,       \* the rows the scope shows
    uncounted, \* of those, the ones whose hit is still to count
    near,      \* neighbours still to look up
    related,   \* neighbours the scope appends
    outcome,   \* of the last search: "none", "answered" or "failed"
    since,     \* history: each row's values since the search began
    crossed,   \* history: another process wrote the index since then
    writes, searches

store == <<rows, links, hits>>
index == <<docs, exists>>
block == <<found, scored, top, uncounted, near, related>>
sync == <<todo, copying, batch>>
vars == <<backend, store, index, pc, req, scopes, sync, block, outcome, since,
          crossed, writes, searches>>

None == -1
Hit == [item : Items, score : Nat, relevance : 0..1000]
Scored == [item : Items, relevance : 0..1000, composite : Int]
Steps == {"idle", "sync", "create", "bulk", "format", "count", "relate"}

TypeOK ==
    /\ backend \in Backends
    /\ rows \in [Items -> Row]
    /\ links \subseteq ItemsOf("rule") \X ItemsOf("rule")
    /\ hits \in [Items -> Nat]
    /\ docs \in [Items -> Texts \cup {None}]
    /\ exists \subseteq Kinds
    /\ pc \in [Pods -> Steps]
    /\ req \in [Pods -> Requests]
    /\ scopes \in [Pods -> Seq(Kinds)]
    /\ todo \in [Pods -> SUBSET Kinds]
    /\ copying \in [Pods -> Kinds \cup {"none"}]
    /\ DOMAIN batch = Pods
    /\ \A p \in Pods : pc[p] = "bulk" => batch[p] \in [ItemsOf(copying[p]) -> Row]
    /\ found \in [Pods -> Seq(Hit)]
    /\ scored \in [Pods -> Seq(Scored)]
    /\ top \in [Pods -> Seq(Items)]
    /\ uncounted \in [Pods -> Seq(Items)]
    /\ near \in [Pods -> Seq(Items)]
    /\ related \in [Pods -> Seq(Items)]
    /\ outcome \in [Pods -> {"none", "answered", "failed"}]
    /\ since \in [Pods -> [Items -> SUBSET Row]]
    /\ crossed \in [Pods -> BOOLEAN]
    /\ writes \in 0..MaxWrites
    /\ searches \in 0..MaxSearches

Init ==
    /\ backend \in Backends
    /\ rows = [i \in Items |-> Stored[i]]
    /\ links = StoredLinks
    /\ hits = [i \in Items |-> Traits[i].hits]
    /\ docs = [i \in Items |-> None]
    /\ exists \in {{}, Kinds}
    /\ pc = [p \in Pods |-> "idle"]
    /\ req = [p \in Pods |-> CHOOSE r \in Requests : TRUE]
    /\ scopes = [p \in Pods |-> << >>]
    /\ todo = [p \in Pods |-> {}]
    /\ copying = [p \in Pods |-> "none"]
    /\ batch = [p \in Pods |-> << >>]
    /\ found = [p \in Pods |-> << >>]
    /\ scored = [p \in Pods |-> << >>]
    /\ top = [p \in Pods |-> << >>]
    /\ uncounted = [p \in Pods |-> << >>]
    /\ near = [p \in Pods |-> << >>]
    /\ related = [p \in Pods |-> << >>]
    /\ outcome = [p \in Pods |-> "none"]
    /\ since = [p \in Pods |-> [i \in Items |-> {}]]
    /\ crossed = [p \in Pods |-> FALSE]
    /\ writes = 0
    /\ searches = 0

----------------------------------------------------------------------------
(* Writes of other calls: each one transaction, with its triggers (the SQL *)
(* indexes follow the rows).                                               *)

Write(i, row) ==
    /\ writes < MaxWrites
    /\ writes' = writes + 1
    /\ rows' = [rows EXCEPT ![i] = row]
    /\ since' = [p \in Pods |->
                   IF pc[p] = "idle" THEN since[p]
                   ELSE [since[p] EXCEPT ![i] = @ \cup {row}]]

WriteRow ==
    /\ \E i \in Items, t \in WriteTexts :
          \/ rows[i] = Unborn /\ Write(i, NewRow(t))
          \/ IsRow(rows[i]) /\ t # rows[i].text
             /\ Write(i, [rows[i] EXCEPT !.text = t])
    /\ UNCHANGED links

Retire ==
    /\ \E i \in Items, s \in Status \ {"active"} :
          /\ IsRow(rows[i])
          /\ rows[i].status = "active"
          /\ KindOf[i] = "rule" \/ (KindOf[i] = "knowledge" /\ s = "superseded")
          /\ Write(i, [rows[i] EXCEPT !.status = s])
    /\ UNCHANGED links

\* recall_entry: a rule becomes recalled (above), a row of another kind goes.
Delete ==
    /\ \E i \in Items :
          KindOf[i] # "rule" /\ IsRow(rows[i]) /\ Write(i, Deleted)
    /\ UNCHANGED links

\* What one outcome counts at rank time; its author's own count for nothing.
Judged(i, a, passed) ==
    IF a = Traits[i].author THEN 0 ELSE IF passed THEN Weight[a] ELSE -Weight[a]

Report ==
    /\ \E i \in ItemsOf("rule"), a \in Actors, passed \in BOOLEAN :
          /\ IsRow(rows[i])
          /\ Write(i, [rows[i] EXCEPT !.net = @ + Judged(i, a, passed)])
    /\ UNCHANGED links

Link ==
    /\ writes < MaxWrites
    /\ writes' = writes + 1
    /\ \E i, j \in ItemsOf("rule") :
          /\ i # j /\ IsRow(rows[i]) /\ IsRow(rows[j])
          /\ <<i, j>> \notin links
          /\ links' = links \cup {<<i, j>>}
    /\ UNCHANGED <<rows, since>>

Writer ==
    /\ WriteRow \/ Retire \/ Delete \/ Report \/ Link
    /\ UNCHANGED <<backend, hits, index, pc, req, scopes, sync, block, outcome,
                   crossed, searches>>

----------------------------------------------------------------------------
(* What the scopes keep of a hit, and how they rank it.                    *)

\* Mutant: include_archived reveals a recalled rule.
HiddenUnlessArchived(i, row, archived) == row.status # "active" /\ ~archived

\* Recalled is terminal; archived and superseded rows come with
\* include_archived, which only the scopes of rules and knowledge know.
Hidden(i, row, archived) ==
    \/ row.status = "recalled"
    \/ row.status \in {"archived", "superseded"} /\ ~archived
ProjectMatch(i, project) ==
    \/ project = "" \/ KindOf[i] = "rule"
    \/ Traits[i].project \in {"", project}

\* Mutant: a counter is not saturated.
SaturateNot(x, k) == 1000 * x

\* x / (x + k), in thousandths.
Saturate(x, k) == (1000 * x) \div (x + k)

\* tanh(n / 2), in thousandths.
Tanh(n) ==
    LET steps == <<462, 762, 905, 964, 987, 995, 998>>
        of(m) == IF m = 0 THEN 0 ELSE IF m > 7 THEN 999 ELSE steps[m]
    IN  IF n < 0 THEN -of(-n) ELSE of(n)

\* min-max over the batch; a batch of equal scores is all relevant.
Relevance(score, lo, hi) ==
    IF hi <= lo THEN 1000 ELSE (1000 * (score - lo)) \div (hi - lo)

Bonus(flag, weight) == IF flag THEN weight ELSE 0

PinnedOnly(i, relevance) == 2 * relevance + Bonus(Traits[i].pinned, 2000)

\* The weights of scoring.py in thousandths.
Compose(i, row, relevance) ==
    PinnedOnly(i, relevance)
    + Saturate(hits[i], 10) \div 10
    + (3 * Saturate(Traits[i].reinforced, 3)) \div 10
    + Tanh(row.net) \div 2
    + Bonus(Traits[i].fresh, 300)
    + IF KindOf[i] = "rule"
      THEN 250 * Traits[i].importance + Bonus(Traits[i].universal, 100)
      ELSE 0

Composite(i, row, relevance) ==
    IF KindOf[i] = "negative" THEN PinnedOnly(i, relevance)
    ELSE IF Traits[i].expired THEN Compose(i, row, relevance) \div 10
    ELSE Compose(i, row, relevance)

----------------------------------------------------------------------------
(* A search.                                                               *)

Goto(p, step) == pc' = [pc EXCEPT ![p] = step]
At(p, step) == pc[p] = step

\* A scope begins with the backend's call, and the index backend copies all
\* kinds before it answers for one.
BeginScope(p) ==
    /\ Goto(p, "sync")
    /\ todo' = [todo EXCEPT ![p] = IF backend = "index" THEN Kinds ELSE {}]

Begin(p) ==
    /\ At(p, "idle")
    /\ searches < MaxSearches
    /\ searches' = searches + 1
    /\ \E r \in Requests :
          /\ req' = [req EXCEPT ![p] = r]
          /\ scopes' = [scopes EXCEPT ![p] = r.scopes]
    /\ BeginScope(p)
    /\ outcome' = [outcome EXCEPT ![p] = "none"]
    /\ since' = [since EXCEPT ![p] = [i \in Items |-> {rows[i]}]]
    /\ crossed' = [crossed EXCEPT ![p] = FALSE]
    /\ UNCHANGED <<backend, store, index, copying, batch, block, writes>>

\* Of history, a process that is idle keeps nothing.
Forget(p) ==
    /\ since' = [since EXCEPT ![p] = [i \in Items |-> {}]]
    /\ scored' = [scored EXCEPT ![p] = << >>]
    /\ top' = [top EXCEPT ![p] = << >>]
    /\ related' = [related EXCEPT ![p] = << >>]

Fail(p) ==
    /\ Goto(p, "idle")
    /\ outcome' = [outcome EXCEPT ![p] = "failed"]
    /\ Forget(p)

ReadRows(p, k) ==
    batch' = [batch EXCEPT ![p] = [i \in ItemsOf(k) |-> rows[i]]]

\* History: p writes the index beside the searches of the others.
Cross(p) == crossed' = [q \in Pods |-> crossed[q] \/ (q # p /\ pc[q] # "idle")]

\* reindex: one kind after the other, in no fixed order.
SyncKind(p) ==
    /\ At(p, "sync")
    /\ \E k \in todo[p] :
          /\ todo' = [todo EXCEPT ![p] = @ \ {k}]
          /\ copying' = [copying EXCEPT ![p] = k]
          /\ IF k \in exists THEN ReadRows(p, k) /\ Goto(p, "bulk")
             ELSE Goto(p, "create") /\ UNCHANGED batch
    /\ UNCHANGED <<backend, store, index, req, scopes, block, outcome, since,
                   crossed, writes, searches>>

\* The index may have come to be since it was looked for: then the client
\* raises, and so does the search.
CreateIndex(p) ==
    /\ At(p, "create")
    /\ IF copying[p] \in exists
       THEN Fail(p) /\ UNCHANGED <<exists, batch, crossed>>
       ELSE /\ exists' = exists \cup {copying[p]}
            /\ Cross(p)
            /\ ReadRows(p, copying[p])
            /\ Goto(p, "bulk")
            /\ UNCHANGED <<outcome, since, scored, top, related>>
    /\ UNCHANGED <<backend, store, docs, req, scopes, todo, copying, found,
                   uncounted, near, writes, searches>>

\* Mutant: only rows without a document are copied.
UpsertMissing(b, i) == IF docs[i] = None /\ IsRow(b[i]) THEN b[i].text ELSE docs[i]

\* Every row's document is replaced; one whose row is gone stays.
Upsert(b, i) == IF IsRow(b[i]) THEN b[i].text ELSE docs[i]

Bulk(p) ==
    /\ At(p, "bulk")
    /\ LET b == batch[p]
           none == \A i \in DOMAIN b : ~IsRow(b[i])
       IN  docs' = [i \in Items |->
                      IF i \notin DOMAIN b THEN docs[i]
                      ELSE IF none THEN None ELSE Upsert(b, i)]
    /\ Cross(p)
    /\ batch' = [batch EXCEPT ![p] = << >>]
    /\ copying' = [copying EXCEPT ![p] = "none"]
    /\ Goto(p, "sync")
    /\ UNCHANGED <<backend, store, exists, req, scopes, todo, block,
                   outcome, since, writes, searches>>

\* The rungs of a backend's query: the first that matches anything answers.
Ladder == [strict  |-> <<{3, 4}, {1}>>,
           natural |-> <<{3, 4}, {2, 3, 4}, {1}>>,
           index   |-> <<{2, 3, 4}>>]

\* Mutant: the scope asks for as many hits as it may show.
WindowLimit == Limit
Window == Limit * 3

TextOf(i) == IF backend = "index" THEN docs[i]
             ELSE IF IsRow(rows[i]) THEN rows[i].text ELSE None

Matching(k, rung) == {i \in ItemsOf(k) : TextOf(i) \in rung}

\* The first n of a sequence.
Cut(s, n) == [x \in 1..(IF Len(s) < n THEN Len(s) ELSE n) |-> s[x]]

\* In the order of the score, ties in any order.
ByScore(S) ==
    {s \in SetToSeqs(S) :
       \A x, y \in DOMAIN s : x < y => TextOf(s[x]) >= TextOf(s[y])}

HitsOf(s) ==
    [x \in DOMAIN s |->
       [item |-> s[x], score |-> TextOf(s[x]),
        relevance |-> Relevance(TextOf(s[x]), TextOf(s[Len(s)]), TextOf(s[1]))]]

\* The hits of a scope: of the first rung that has any, and no more than
\* Window.
Answers(k) ==
    LET rungs == Ladder[backend]
        nonempty == {n \in DOMAIN rungs : Matching(k, rungs[n]) # {}}
        first == CHOOSE n \in nonempty : \A m \in nonempty : n <= m
    IN  IF nonempty = {} THEN {<< >>}
        ELSE {HitsOf(Cut(s, Window)) : s \in ByScore(Matching(k, rungs[first]))}

\* Below the quality gate of report_error (RANK_THRESHOLD) a hit is dropped;
\* only a substring match scores that low.
Gated(p, h) == req[p].gated /\ h.score = 1

Query(p) ==
    /\ At(p, "sync") /\ todo[p] = {}
    /\ \E answer \in Answers(Head(scopes[p])) :
          found' = [found EXCEPT ![p] = answer]
    /\ scored' = [scored EXCEPT ![p] = << >>]
    /\ Goto(p, "format")
    /\ UNCHANGED <<backend, store, index, req, scopes, sync, top, uncounted,
                   near, related, outcome, since, crossed, writes, searches>>

\* An error of the index's query is swallowed: no hits.
QueryFails(p) ==
    /\ At(p, "sync") /\ todo[p] = {}
    /\ backend = "index"
    /\ found' = [found EXCEPT ![p] = << >>]
    /\ scored' = [scored EXCEPT ![p] = << >>]
    /\ crossed' = [crossed EXCEPT ![p] = TRUE]
    /\ Goto(p, "format")
    /\ UNCHANGED <<backend, store, index, req, scopes, sync, top, uncounted,
                   near, related, outcome, since, writes, searches>>

\* find_by_id, and what the scope makes of the row and of its relevance.
Kept(p, i) ==
    /\ IsRow(rows[i])
    /\ ~Hidden(i, rows[i], req[p].archived)
    /\ ProjectMatch(i, req[p].project)

FormatHit(p) ==
    /\ At(p, "format")
    /\ found[p] # << >>
    /\ found' = [found EXCEPT ![p] = Tail(@)]
    /\ LET h == Head(found[p])
           entry == [item |-> h.item, relevance |-> h.relevance,
                     composite |-> Composite(h.item, rows[h.item], h.relevance)]
       IN  scored' = IF ~Gated(p, h) /\ Kept(p, h.item)
                     THEN [scored EXCEPT ![p] = Append(@, entry)]
                     ELSE scored
    /\ UNCHANGED <<backend, store, index, pc, req, scopes, sync, top, uncounted,
                   near, related, outcome, since, crossed, writes, searches>>

\* A stable sort by the composite, and the first Limit of it.
Before(s, x, y) == \/ s[x].composite > s[y].composite
                   \/ s[x].composite = s[y].composite /\ x < y
Sorted(s) ==
    {q \in SetToSeqs(DOMAIN s) :
       \A x, y \in DOMAIN q : x < y => Before(s, q[x], q[y])}
Ranked(s) == {Cut([x \in DOMAIN q |-> s[q[x]].item], Limit) : q \in Sorted(s)}

TracksHits(k) == k \in {"knowledge", "rule"}

Rank(p) ==
    /\ At(p, "format") /\ found[p] = << >>
    /\ \E shown \in Ranked(scored[p]) :
          /\ top' = [top EXCEPT ![p] = shown]
          /\ uncounted' = [uncounted EXCEPT ![p] =
                             IF TracksHits(Head(scopes[p])) THEN shown ELSE << >>]
    /\ related' = [related EXCEPT ![p] = << >>]
    /\ Goto(p, "count")
    /\ UNCHANGED <<backend, store, index, req, scopes, sync, found, scored, near,
                   outcome, since, crossed, writes, searches>>

\* counters.increment of the next row shown; a row that is gone has no counter.
CountHit(p) ==
    /\ At(p, "count")
    /\ uncounted[p] # << >>
    /\ uncounted' = [uncounted EXCEPT ![p] = Tail(@)]
    /\ LET i == Head(uncounted[p])
       IN  hits' = IF IsRow(rows[i]) THEN [hits EXCEPT ![i] = @ + 1] ELSE hits
    /\ UNCHANGED <<backend, rows, links, index, pc, req, scopes, sync, found, scored,
                   top, near, related, outcome, since, crossed, writes, searches>>

\* Mutant: an error of a counter ends the search.
CountRaises(p) ==
    /\ At(p, "count")
    /\ uncounted[p] # << >>
    /\ Fail(p)
    /\ UNCHANGED <<backend, store, index, req, scopes, sync, found, uncounted,
                   near, crossed, writes, searches>>

\* An error of the counter (a locked database) is swallowed.
CountFails(p) ==
    /\ At(p, "count")
    /\ uncounted[p] # << >>
    /\ uncounted' = [uncounted EXCEPT ![p] = Tail(@)]
    /\ UNCHANGED <<backend, store, index, pc, req, scopes, sync, found, scored,
                   top, near, related, outcome, since, crossed, writes, searches>>

\* The rules one relation away from a direct hit that are no direct hit
\* themselves, and the first Limit of them, in the order of the hits and in
\* any order for one hit.
Linked(i) == {j \in Items : <<i, j>> \in links \/ <<j, i>> \in links}
Around(shown) == UNION {Linked(i) : i \in Range(shown)} \ Range(shown)
FoundBy(shown, j) == CHOOSE x \in DOMAIN shown :
                        /\ j \in Linked(shown[x])
                        /\ \A y \in 1..x-1 : j \notin Linked(shown[y])
Neighbours(shown) ==
    {Cut(s, Limit) :
       s \in {t \in SetToSeqs(Around(shown)) :
                \A x, y \in DOMAIN t :
                   x < y => FoundBy(shown, t[x]) <= FoundBy(shown, t[y])}}

Spread(p) ==
    /\ At(p, "count") /\ uncounted[p] = << >>
    /\ \E s \in IF Head(scopes[p]) = "rule" THEN Neighbours(top[p]) ELSE {<< >>} :
          near' = [near EXCEPT ![p] = s]
    /\ Goto(p, "relate")
    /\ UNCHANGED <<backend, store, index, req, scopes, sync, found, scored, top,
                   uncounted, related, outcome, since, crossed, writes, searches>>

\* The cap has been applied: a hidden neighbour uses up a place.
Relate(p) ==
    /\ At(p, "relate")
    /\ near[p] # << >>
    /\ near' = [near EXCEPT ![p] = Tail(@)]
    /\ LET i == Head(near[p])
       IN  related' = IF Kept(p, i) THEN [related EXCEPT ![p] = Append(@, i)]
                      ELSE related
    /\ UNCHANGED <<backend, store, index, pc, req, scopes, sync, found, scored, top,
                   uncounted, outcome, since, crossed, writes, searches>>

NextScope(p) ==
    /\ At(p, "relate") /\ near[p] = << >>
    /\ scopes' = [scopes EXCEPT ![p] = Tail(@)]
    /\ IF Len(scopes[p]) > 1
       THEN BeginScope(p) /\ UNCHANGED <<scored, top, related, outcome, since, crossed>>
       ELSE /\ Goto(p, "idle")
            /\ outcome' = [outcome EXCEPT ![p] = "answered"]
            /\ Forget(p)
            /\ crossed' = [crossed EXCEPT ![p] = FALSE]
            /\ UNCHANGED todo
    /\ UNCHANGED <<backend, store, index, req, copying, batch, found, uncounted,
                   near, writes, searches>>

Search(p) ==
    \/ SyncKind(p) \/ CreateIndex(p) \/ Bulk(p)
    \/ Query(p) \/ QueryFails(p) \/ FormatHit(p) \/ Rank(p)
    \/ CountHit(p) \/ CountFails(p) \/ Spread(p) \/ Relate(p) \/ NextScope(p)

Next == Writer \/ \E p \in Pods : Begin(p) \/ Search(p)

Spec == Init /\ [][Next]_vars

----------------------------------------------------------------------------
(* Properties.                                                             *)

Formed(p) == pc[p] \in {"count", "relate"}
Kind(p) == Head(scopes[p])

ShowableOnce(p, i, project) ==
    \E row \in since[p][i] :
       /\ IsRow(row)
       /\ ~(row.status = "recalled")
       /\ row.status # "active" => req[p].archived
       /\ project \in {"", Traits[i].project} \/ Traits[i].project = ""

(* Whatever the index still holds and whatever is written meanwhile, a     *)
(* search shows, as a direct hit or as a related rule, only rows that at   *)
(* some moment since it began were stored, of the project asked for, and   *)
(* not retired; a recalled rule not even with include_archived             *)
(* (tools/search.py, policies.hidden).                                     *)
NothingHiddenIsShown ==
    \A p \in Pods : Formed(p) =>
       /\ \A i \in Range(top[p]) :
             ShowableOnce(p, i, IF Kind(p) = "rule" THEN "" ELSE req[p].project)
       /\ \A i \in Range(related[p]) : ShowableOnce(p, i, "")

\* A row that from the beginning of the search on has matched all the terms,
\* could be shown and has not been written.
Good(p, i) ==
    \E row \in since[p][i] :
       /\ since[p][i] = {row}
       /\ IsRow(row) /\ row.text \in {3, 4}
       /\ ShowableOnce(p, i, IF Kind(p) = "rule" THEN "" ELSE req[p].project)

Candidates(p) ==
    {i \in ItemsOf(Kind(p)) :
       \/ docs[i] > 0
       \/ \E row \in since[p][i] : IsRow(row) /\ row.text > 0}

(* The hits that are dropped after the query (ghosts of deleted rows in the *)
(* index, retired and foreign rows) do not cost the search its answer: if  *)
(* no other process wrote the index meanwhile and no more rows or          *)
(* documents could match than are asked for, a scope that shows fewer than *)
(* Limit rows shows all that matched throughout (_scope_block, reindex).   *)
QuietSearchIsComplete ==
    \A p \in Pods :
       /\ Formed(p) /\ ~crossed[p]
       /\ Cardinality(Candidates(p)) <= 3 * Limit
       /\ Len(top[p]) < Limit
       => \A i \in ItemsOf(Kind(p)) : Good(p, i) => i \in Range(top[p])

NeverFailing(p, i) ==
    \A row \in since[p][i] : IsRow(row) => row.net >= 0

(* A best match of the batch that has not expired and whose outcomes do not *)
(* speak against it is never displaced by an unpinned worst match, however *)
(* often that was hit, reinforced, confirmed or promoted (scoring.py: a    *)
(* top-of-batch match is never out-voted by counter noise).                *)
BestMatchIsNotOutvoted ==
    \A p \in Pods : Formed(p) =>
       \A x, y \in Range(scored[p]) :
          /\ x.relevance = 1000 /\ y.relevance = 0
          /\ ~Traits[x.item].expired /\ NeverFailing(p, x.item)
          /\ ~Traits[y.item].pinned
          => (y.item \in Range(top[p]) => x.item \in Range(top[p]))

(* A search fails only if another process created an index in the moment   *)
(* between its look for it and its own attempt to: a row that vanishes, a  *)
(* counter that cannot be written or a query the index refuses do not cost *)
(* the caller the answer (_scope_block, OpenSearchSearch._search_one).     *)
OnlyCreationRacesFail ==
    \A p \in Pods : outcome[p] = "failed" => crossed[p]
==============================================================================
