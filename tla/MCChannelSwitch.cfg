SPECIFICATION Spec
CONSTANTS
    n1 = n1
    n2 = n2
    s1 = s1
    s2 = s2
    h1 = h1
    h2 = h2
    r1 = r1
    Names = {n1, n2}
    Sinks = {s1, s2}
    Hosts = {h1, h2}
    Readers = {r1}
    Backends = {"memory", "bbolt", "redis"}
    MaxQueues = 4
    CloseCalls = 2
CHECK_DEADLOCK FALSE
INVARIANTS
    RefsAreAttachments
    AttachedShareOpenQueue
    ReaderNotStranded
