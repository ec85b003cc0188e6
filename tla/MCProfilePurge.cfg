SPECIFICATION FairSpec
CONSTANTS
    Job = {1, 2}
    Plan <- MCPlan
    Table <- MCTable
    NoTable = ""
    Universe <- MCUniverse
    Window = 1
    ReadLimit = 128
    OwnerReads = 12
    Budgets <- MCBudgets
INVARIANTS
    PurgeSound
    ParkedHasCause
PROPERTIES
    PurgesEnd
CHECK_DEADLOCK FALSE
