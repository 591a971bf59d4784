SPECIFICATION Spec
CONSTANTS
    w1 = w1
    r1 = r1
    r2 = r2
    Pushers = {w1}
    Poppers = {r1, r2}
    Cancellable = {w1, r1, r2}
    WriteCap = 2
    MaxPush = 2
    MaxFaults = 1
SYMMETRY PopperSymmetry
INVARIANTS
    AtMostOnce
    AckedIsDurable
PROPERTIES
    NoLossWhileOpen
    LossBound
    ImplementsEventQueue
