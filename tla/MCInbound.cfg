SPECIFICATION Spec
CONSTANTS
    Messages <- MCMessages
    Frames <- MCFrames
    Devices <- MCDevices
    Gateways = {g1, g2}
    LogLength = 2
    Copies = 2
    Budgets <- MCBudgets
    Window = 2
    Threshold = 1
INVARIANTS
    NothingLost
PROPERTIES
    NoEcho
    LogsHeal
CHECK_DEADLOCK FALSE
