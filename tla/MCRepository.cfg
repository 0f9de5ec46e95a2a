SPECIFICATION Spec
CONSTANTS
    Tasks = {t1, t2}
    Incoming <- MCIncoming
    MaxUpdates = 3
    MaxTime = 3
SYMMETRY TaskSymmetry
INVARIANTS
    LoneUpdateRepairs
    ProgressPersisted
    NoTimeCountedTwice
