SPECIFICATION IngestFairSpec
CONSTANTS
    Conns = {1, 2}
    MaxConns = 1
    OutCap = 1
    BufCap = 2
    MaxLines = 5
CHECK_DEADLOCK FALSE
INVARIANTS EveryLineAccounted SendsMeetOpenChannel
PROPERTIES RunReturns
