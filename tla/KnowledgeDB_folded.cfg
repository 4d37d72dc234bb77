SPECIFICATION Spec
CONSTANTS
    p1 = p1
    p2 = p2
    loop = loop
    timer = timer
    other = other
    import = import
    cascade = cascade
    hit = hit
    edge = edge
    NoThread = NoThread
    NoOp = NoOp
    Procs = {p1}
    Threads = {loop, timer}
    TxOps = {import, cascade}
    PlainOps = {edge}
    ProcOf <- MCProcOf
    Length <- MCLength
    MaxDepth = 1
    MaxFaults = 1
    MaxCrashes = 0
CHECK_DEADLOCK FALSE
INVARIANTS SiblingWriteNotLost
