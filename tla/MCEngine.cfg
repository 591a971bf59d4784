SPECIFICATION FairSpec
CONSTANTS
    p1 = p1
    p2 = p2
    s1 = s1
    s2 = s2
    s3 = s3
    Pipelines = {p1, p2}
    Sources = {s1, s2, s3}
    SourceOf <- MCSourceOf
    Sinks = 2
    BufferSize = 0
    DefaultSize = 1
    MaxEntries = 1
    MaxReloads = 1
    MaxPanics = 1
CHECK_DEADLOCK FALSE
INVARIANTS
    NothingLeftBehind
    FanOutComplete
PROPERTIES
    ShutdownCompletes
    AcceptedIsProcessed
