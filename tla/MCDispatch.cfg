SPECIFICATION DispatchSpec
CONSTANTS
    Executors = {c1, c2}
    Keys = {k1, k2}
    TTL = 2
    MaxEvents = 3
    MaxTime = 4
    MaxRepeats = 1
SYMMETRY Symmetry
CHECK_DEADLOCK FALSE
INVARIANTS SuppressedWasDone
PROPERTIES OncePerWindow RedisImplementsEventQueue
