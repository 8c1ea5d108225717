SPECIFICATION Spec
CONSTANTS
    k1 = k1
    k2 = k2
    Keys = {k1, k2}
    Selectors <- BothKeys
    Caps = {3, 6}
    MaxLog = 3
    IOFaults = FALSE
    LogDamage = FALSE
INVARIANTS
    OpenRestoresAcked
    NeverRefused
PROPERTIES
    ReleaseMeetsCap
    ImplementsObservationLog
