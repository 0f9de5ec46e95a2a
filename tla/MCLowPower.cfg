SPECIFICATION LowPowerSpec
CONSTANTS
    Callers = {c1, c2}
    None = None
    MaxRuns = 1
    MaxReleases = 1
    MaxAnswers = 3
INVARIANTS
    OnlyTheRacesLoseWakeups
CHECK_DEADLOCK FALSE
