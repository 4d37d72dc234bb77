-------------------------- MODULE MC_RuleLifecycle --------------------------
(* Servers and rule files of the runs; the files are interchangeable.      *)
EXTENDS RuleLifecycle, TLC

CONSTANTS s1, s2, f1, f2

FileSymmetry == Permutations(Files)
=============================================================================
