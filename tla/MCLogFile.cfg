SPECIFICATION Spec
CONSTANTS
    r1 = r1
    r2 = r2
    Reloaders <- MCReloaders
    ChanSize = 1
    MaxLines = 3
    MaxFiles = 3
    MaxTruncs = 1
    MaxMishaps = 1
SYMMETRY Symmetry
CHECK_DEADLOCK FALSE
INVARIANTS InOrderOnce NothingLost HandleFollowsPath
