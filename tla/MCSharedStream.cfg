SPECIFICATION FairSpec
CONSTANTS
    PageLimit = 2
    Tab = {a, b}
    NoTab = NoTab
    StreamFailuresBeforePoll = 2
    Past = 0
    Budgets <- MCBudgets
INVARIANTS
    WindowInv
CHECK_DEADLOCK FALSE
PROPERTY
    CatchesUp
