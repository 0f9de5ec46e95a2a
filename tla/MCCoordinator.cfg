SPECIFICATION CoordinatorSpec
CONSTANTS
    Hosts = {1, 2}
    Fetches = {f1}
    Budgets <- MCBudgets
    None = None
PROPERTIES
    Converges
    LanRegained
    OnlyOverlapsGoBack
