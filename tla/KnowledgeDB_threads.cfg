SPECIFICATION Spec
CONSTANTS
    p1 = p1
    p2 = p2
    loop = loop
    timer = timer
    other = other
    import = import
    cascade = cascade
    hit = hit
    edge = edge
    NoThread = NoThread
    NoOp = NoOp
    Procs = {p1}
    Threads = {loop, timer}
    TxOps = {import, cascade}
    PlainOps = {hit}
    ProcOf <- MCProcOf
    Length <- MCLength
    MaxDepth = 2
    MaxFaults = 2
    MaxCrashes = 1
CHECK_DEADLOCK FALSE
INVARIANTS TxAtomic TxHonest NoDirtyBatchRead
PROPERTIES BlockIsolated ImplementsAtomicBatches
