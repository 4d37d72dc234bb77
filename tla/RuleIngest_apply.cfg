SPECIFICATION Spec
CONSTANTS
    old = old
    near = near
    new = new
    remark = remark
    Texts = {old, near, new, remark}
    RuleLike = {old, near, new}
    SpanTexts <- MCSpanTexts
    Stored <- MCStored
    Novelty <- MCNovelty
    Appliers = {a, b}
    Backends = {"sqlite", "postgres"}
    MaxFiles = 2
    MaxRuns = 3
    MaxRules = 4
    MaxCrashes = 1
SYMMETRY ApplierSymmetry
CHECK_DEADLOCK FALSE
INVARIANTS AddsAreIdempotent ReportIsHonest
