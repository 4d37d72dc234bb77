--------------------------- MODULE MC_KnowledgeDB ---------------------------
(* Threads and operations of the runs: a loop thread and a watcher thread  *)
(* share process p1, the thread other is alone in process p2.              *)
EXTENDS KnowledgeDB, TLC

CONSTANTS p1, p2, loop, timer, other,
          import, cascade,  \* batches: import_rules, a watcher's update_rule
          hit, edge         \* a counter increment, an insert_relation

MCProcOf == [t \in Threads |-> IF t = other THEN p2 ELSE p1]
MCLength == [o \in Ops |-> IF o \in {import, hit} THEN 2 ELSE 1]
============================================================================
