SPECIFICATION PluginFairSpec
CONSTANTS
    Callers = {c1, c2}
    Closers = {k1, k2}
    None = None
    PipeCap = 1
    MaxCalls = 2
CHECK_DEADLOCK FALSE
INVARIANTS OwnAnswer
PROPERTIES CloseReturns CloseReleasesCallers
