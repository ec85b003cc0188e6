SPECIFICATION FairSpec
CONSTANTS
    Hook = {a, b}
    MaxAttempts = 2
    MaxQueued = 2
    MaxTests = 1
    MaxRows = 3
    BatchLimit = 2
    ParallelWebhooks = 1
    Edits <- MCEdits
    Budgets <- MCBudgets
INVARIANTS
    SendsHaveAuthority
    QueueConsistent
    InOrder
    LagHasCause
PROPERTIES
    FinishedIsFinal
    DeliveriesEnd
CHECK_DEADLOCK FALSE
