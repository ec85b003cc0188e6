SPECIFICATION FairSpec
CONSTANTS
    c1 = c1
    c2 = c2
    w1 = w1
    f1 = f1
    p1 = p1
    s1 = s1
    b1 = b1
    m1 = m1
    Turn = Turn
    Nobody = Nobody
    Reserve = 1
    ForegroundWaiterLimit = 1
    BackgroundWaiterLimit = 1
    Fence <- MCFence
    Writer <- OneWriters
    Readiness <- None
    Watcher <- OneCheckpointer
    Checkpointer <- OneCheckpointer
    Reader <- ThreeReaders
    SecurityReader <- MCSecurity
    BackgroundReader <- MCBackground
    MaintenanceReader <- MCMaintenance
INVARIANTS
    GapExact
    ScopeCounters
    ResetInGap
PROPERTIES
    NobodyStuck
