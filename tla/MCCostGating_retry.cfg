CONSTANTS
    Overrides <- NoOverride
    Budgets <- FewBudgets
    MaxChanges = 1
    MaxCostFailures = 1
    MaxMoves = 2
SPECIFICATION FairCostSpec
CHECK_DEADLOCK FALSE
PROPERTY FailedApplyIsRetried
