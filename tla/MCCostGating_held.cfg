CONSTANTS
    Overrides <- NoOverride
    Budgets <- FewBudgets
    MaxChanges = 2
    MaxCostFailures = 0
    MaxMoves = 3
SPECIFICATION CostSpec
CHECK_DEADLOCK FALSE
INVARIANT HeldUntilConfirmed
