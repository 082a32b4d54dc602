SPECIFICATION FairSpec
CONSTANTS
    None = None
    Signal = Signal
    Code <- MCCode
    Grace = 2
    HookLists <- MCHookLists
    Budgets <- MCBudgetsOrNone
    ConfirmMax = 4
    Sizes <- MCSizes
    MaxContext = 3
INVARIANTS TypeOK HonestVerdict CleanContributions OverrunIsBounded
PROPERTIES RequestEnds
CHECK_DEADLOCK FALSE
