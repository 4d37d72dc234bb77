SPECIFICATION FairRemoteSpec
CONSTANTS
    docs = docs
    code = code
    s1 = s1
    s2 = s2
    s3 = s3
    NoSource = NoSource
    Clients = {c1, c2}
    Hashes = {s1, s2, s3}
    SpansOf <- MCSpansOf
    BatchSize = 2
    Attempts = 2
    MaxStarts = 3
    MaxFaults = 1
CHECK_DEADLOCK FALSE
INVARIANTS SpansAreAnswered ResumeRepeatsNothing
PROPERTIES EveryRunEnds
