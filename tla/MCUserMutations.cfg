SPECIFICATION Spec
CONSTANTS
    k1 = k1
    k2 = k2
    Key = {k1, k2}
    Family = {f1, f2}
    NoFamily = NoFamily
    Issued <- MCIssued
    MaxTime = 2
    PruneLimit = 1
    Outcomes = {"applied", "conflict", "invalid"}
    Tab = {a, b}
    NoTab = NoTab
    Target <- MCTarget
    Budgets <- MCBudgets
INVARIANTS
    TypeOK
    AppliedOnce
    ToldTheTruth
PROPERTIES
    EffectsInOrder
    ConfirmedIsFinal
CHECK_DEADLOCK FALSE
SYMMETRY Sym
