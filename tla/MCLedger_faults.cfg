SPECIFICATION Spec
CONSTANTS
    k1 = k1
    k2 = k2
    Keys = {k1}
    Selectors = {}
    Caps = {3}
    MaxLog = 3
    IOFaults = TRUE
    LogDamage = TRUE
INVARIANTS OpenRestoresAcked
