SPECIFICATION FairSpec
CONSTANTS
    c1 = c1
    c2 = c2
    Consumers = {c1, c2}
    Cancellable = {c1}
    BufferSize = 0
    DefaultSize = 2
    MaxPush = 4
CHECK_DEADLOCK FALSE
INVARIANTS
    DrainedBeforeClosed
PROPERTIES
    ImplementsEventQueue
    CloseReleasesConsumers
    AcceptedIsReceived
