SPECIFICATION FairSpec
CONSTANTS
    w1 = w1
    r1 = r1
    Pushers = {w1}
    Poppers = {r1}
    Cancellable = {w1}
    WriteCap = 1
    MaxPush = 2
    MaxFaults = 1
PROPERTIES
    CloseReturns
    CloseReleasesCallers
    StoredIsClaimed
