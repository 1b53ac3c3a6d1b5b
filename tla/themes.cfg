CONSTANTS
    Drawers <- MCDrawers
    Themable <- MCThemable
    Order <- MCOrder
    Texts = {"x", "y"}
    PageSize = 2
    Limit = 5
    MinDrawers = 2
    MaxParallel = 1
    Budgets <- MCBudgets
SPECIFICATION Spec
INVARIANTS
    ThemesApart
    StatusHonest
CHECK_DEADLOCK FALSE
