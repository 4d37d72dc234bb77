SPECIFICATION FairSpec
CONSTANTS
    a = a
    b = b
    t1 = t1
    t2 = t2
    v1 = v1
    Absent = Absent
    Same = Same
    Pods = {a, b}
    MaxId = 3
    Stored <- MCStored
    Topics = {t1, t2}
    Texts = {v1}
    MaxCalls = 2
    MaxCrashes = 1
CHECK_DEADLOCK FALSE
INVARIANTS RecallIsAudited CountersExact SupersessionIsExplained
PROPERTIES  BootRepairs EveryCallEnds
