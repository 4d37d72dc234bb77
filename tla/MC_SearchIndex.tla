---------------------------- MODULE MC_SearchIndex ----------------------------
EXTENDS SearchIndex

\* Three rules, the last not yet written, and two rows of knowledge, one of
\* them of another project.
MCKindOf == <<"rule", "rule", "rule", "knowledge", "knowledge">>

Plain == [project |-> "", author |-> "nobody", hits |-> 0, reinforced |-> 0,
          importance |-> 0, universal |-> FALSE, fresh |-> FALSE,
          pinned |-> FALSE, expired |-> FALSE]
Favoured == [Plain EXCEPT !.hits = 50, !.reinforced = 30, !.importance = 2,
                          !.universal = TRUE, !.fresh = TRUE]

MCTraits == <<Plain, Favoured, [Plain EXCEPT !.expired = TRUE, !.author = "ann"],
              [Plain EXCEPT !.project = "here"],
              [Favoured EXCEPT !.project = "there"]>>

MCStored == <<NewRow(4), NewRow(2), Unborn, NewRow(1), NewRow(3)>>

Ask == [scopes |-> <<"knowledge", "rule">>, project |-> "", archived |-> FALSE,
        gated |-> FALSE]
MCRequests == {[Ask EXCEPT !.project = "here"],
               [Ask EXCEPT !.archived = TRUE, !.scopes = <<"rule">>]}

MCStoredLinks == {<<1, 2>>}

PodSymmetry == Permutations(Pods)

MCActors == {"ann"}
MCWeight == [a \in MCActors |-> 2]
==============================================================================
