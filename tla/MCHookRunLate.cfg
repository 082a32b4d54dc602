SPECIFICATION Spec
CONSTANTS
    None = None
    Signal = Signal
    Code <- MCCode
    Grace = 2
    HookLists <- MCHookLists
    Budgets <- MCBudgetsOrNone
    ConfirmMax = 4
    Sizes <- MCSizes
    MaxContext = 3
INVARIANT ExitTwoBlocks
CHECK_DEADLOCK FALSE
