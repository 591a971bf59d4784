SPECIFICATION FairSpec
CONSTANTS
    n1 = n1
    h1 = h1
    h2 = h2
    Names = {n1}
    Sinks = {}
    Hosts = {h1, h2}
    Readers = {}
    Backends = {"bbolt"}
    MaxQueues = 2
    CloseCalls = 1
CHECK_DEADLOCK FALSE
PROPERTIES
    RegisterReturns
