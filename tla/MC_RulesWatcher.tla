--------------------------- MODULE MC_RulesWatcher ---------------------------
(* Files, texts and timers of the runs.                                     *)
EXTENDS RulesWatcher

CONSTANTS f1, f2, x, y, t1, t2
=============================================================================
