SPECIFICATION Spec
CONSTANTS
    a = a
    b = b
    us = us
    eu = eu
    None = None
    Tasks = {a, b}
    Plans <- MCPlans
    Regions = {us, eu}
    UsHost = us
    ProfileHost = us
    MaxLogins = 2
    Domains <- MCDomains
INVARIANTS
    AtMostOnce
    OnlyCrossingsForget
PROPERTIES
    SteadyClockSuffices
    LiveSessionRefused
    CallsEnd
