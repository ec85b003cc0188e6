SPECIFICATION FairSpec
CONSTANTS
    PageLimit = 2
    LagWake = 2
    FlushLimit = 2
    ReadLimit = 2
    Writer = {w1, w2}
    Conn = {c1, c2}
    NoConn = NoConn
    Budgets <- MCBudgets
INVARIANTS
    NothingLeftBehind
    NoLostWake
    QuietStreamIsClose
    StreamKeepsPlace
CHECK_DEADLOCK FALSE
PROPERTY
    EventsArrive
