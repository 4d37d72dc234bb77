------------------------- MODULE MC_UnifiedEntries -------------------------
(* Two rows of an earlier version, of two topics.                          *)
EXTENDS UnifiedEntries, TLC

CONSTANTS a, b, t1, t2, v1

StoredRowOf(topic) ==
    [topic |-> topic, text |-> CHOOSE t \in Texts : TRUE, facet |-> "empty",
     pinned |-> FALSE, status |-> "active", by |-> 0, hits |-> 0]
MCStored == <<StoredRowOf(t1), StoredRowOf(t2)>>
============================================================================
