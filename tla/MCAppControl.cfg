SPECIFICATION Spec
CONSTANTS
    Tasks = {t1}
    Listeners = {l1, l2}
    Payloads <- MCPayloads
    Changes <- MCChanges
    MaxRaises = 1
    MaxSets = 2
INVARIANTS
    CodecKeepsTheRest
    SettingsKept
    
    
SYMMETRY Symmetry
CHECK_DEADLOCK FALSE
