---------------------------- MODULE MC_RuleIngest ----------------------------
(* Four spans: one near to the stored rule, the same new rule twice, and   *)
(* a remark that is no rule.                                               *)
EXTENDS RuleIngest, TLC

CONSTANTS old, near, new, remark

MCSpanTexts == <<near, remark, new, new>>
MCStored == <<old>>
MCNovelty == [x \in Texts \X Texts |->
                 IF x[1] = x[2] THEN 2
                 ELSE IF x \in {<<near, old>>, <<old, near>>} THEN 1 ELSE 0]
ApplierSymmetry == Permutations(Appliers)
============================================================================
