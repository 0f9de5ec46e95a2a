SPECIFICATION FairSpec
CONSTANTS
    Probers = {}
    Topics = {device, user}
    FirstTopics = {user}
    MaxDials = 2
PROPERTIES
    LossNoticed
    SubscriptionsRestored
CHECK_DEADLOCK FALSE
