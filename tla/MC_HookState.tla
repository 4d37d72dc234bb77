---------------------------- MODULE MC_HookState ----------------------------
(* A main agent and its subagent, two hook processes at once.              *)
EXTENDS HookState, TLC

CONSTANTS main, sub, h1, h2, x

\* Hook processes are interchangeable.
HookSymmetry == Permutations(Hooks)
=============================================================================
