-------------------------- MODULE MC_SchemaUpgrade --------------------------
(* Two servers on databases of several versions.                           *)
EXTENDS SchemaUpgrade, TLC

CONSTANTS p1, p2, r1, r2

MCStarts == ({"sqlite"} \X {0, 5, 18}) \cup ({"postgres"} \X {0, 7})

\* Processes are interchangeable.
ProcSymmetry == Permutations(Procs)
=============================================================================
