SPECIFICATION Spec
CONSTANTS
    Callers = {w1}
    None = None
    MaxRuns = 1
    MaxReleases = 1
    MaxAnswers = 2
    ModeLists <- MCModeLists
    Plugins = {"BLE"}
    MaxChanges = 2
INVARIANTS
    LanInTimeIsAlone
PROPERTIES
    ImplementsCommand
    LanCommandEnds
    WakeCommandEnds
CHECK_DEADLOCK FALSE
