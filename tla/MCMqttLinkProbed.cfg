SPECIFICATION Spec
CONSTANTS
    Probers = {prober}
    Topics = {user}
    FirstTopics = {user}
    MaxDials = 2
INVARIANTS
    TypeOK
    ConnectedIsWatched
CHECK_DEADLOCK FALSE
