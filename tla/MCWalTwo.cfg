SPECIFICATION Spec
SYMMETRY SwapCheckpointers
CONSTANTS
    c1 = c1
    c2 = c2
    w1 = w1
    f1 = f1
    p1 = p1
    s1 = s1
    b1 = b1
    m1 = m1
    Turn = Turn
    Nobody = Nobody
    Reserve = 1
    ForegroundWaiterLimit = 1
    BackgroundWaiterLimit = 1
    Fence <- MCFence
    Writer <- TwoWriters
    Readiness <- MCReadiness
    Watcher <- TwoCheckpointers
    Checkpointer <- TwoCheckpointers
    Reader <- None
    SecurityReader <- None
    BackgroundReader <- None
    MaintenanceReader <- None
INVARIANTS
    NoTailUnderGate
    RecoveryOwned
