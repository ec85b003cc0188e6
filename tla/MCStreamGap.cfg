SPECIFICATION Spec
CONSTANTS
    PageLimit = 2
    Tab = {a, b}
    NoTab = NoTab
    StreamFailuresBeforePoll = 2
    Past = 1
    Budgets <- MCBudgets
INVARIANTS
    NoSilentGap
CHECK_DEADLOCK FALSE
